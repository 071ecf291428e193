---------------------------- MODULE SnapshotProofs ----------------------------
(***************************************************************************)
(* Proofs about what is read from snapshot files, for every number of      *)
(* processes, files, tables and schemas, whatever crashes.                 *)
(***************************************************************************)
EXTENDS Snapshot, TLAPS

SnapshotRecords ==
    [engine : Engines \cup {""},
     sum : Schemas \cup {NoSchema},
     schema : Schemas \cup {NoSchema}]
Contents ==
    [extent : {"missing", "empty", "part", "whole"}, snapshot : SnapshotRecords]

\* Every snapshot taken has its own schema's checksums, if any; what a process still
\* has to write was taken; a whole file was taken, and any part of a file agrees with
\* a snapshot taken on the metadata, which come first.
FileInv ==
    /\ taken \subseteq SnapshotRecords
    /\ \A s \in taken : s.schema \in Schemas /\ s.sum \in {s.schema, NoSchema}
    /\ hand \in [Savers -> SnapshotRecords]
    /\ target \in [Savers -> Files]
    /\ phase \in [Savers -> {"idle", "taken", "writing", "done", "failed"}]
    /\ \A p \in Savers : phase[p] \in {"taken", "writing"} => hand[p] \in taken
    /\ disk \in [Files -> Contents]
    /\ \A f \in Files : disk[f].extent = "whole" => disk[f].snapshot \in taken
    /\ \A f \in Files : disk[f].snapshot.sum # NoSchema =>
           \E s \in taken : /\ s.engine = disk[f].snapshot.engine
                            /\ s.sum = disk[f].snapshot.sum

LEMMA NoSnapshotIsRecord == NoSnapshot \in SnapshotRecords /\ NoSnapshot.sum = NoSchema
    BY DEF NoSnapshot, SnapshotRecords

LEMMA EmptyIsContent ==
    /\ Empty \in Contents /\ Missing \in Contents
    /\ Empty.extent # "whole" /\ Missing.extent # "whole"
    /\ Empty.snapshot.sum = NoSchema /\ Missing.snapshot.sum = NoSchema
    BY NoSnapshotIsRecord DEF Empty, Missing, Contents

\* Cutting a snapshot short leaves its metadata alone, or all of it out.
LEMMA PartsOfSnapshot ==
    ASSUME NEW s \in SnapshotRecords, NEW part \in Parts(s), s.schema \in Schemas
    PROVE  /\ part \in SnapshotRecords
           /\ part.sum # NoSchema => part.engine = s.engine /\ part.sum = s.sum
    <1>1. CASE part = NoSnapshot
        BY <1>1, NoSnapshotIsRecord
    <1>2. CASE part = [s EXCEPT !.schema = NoSchema]
        BY <1>2 DEF SnapshotRecords
    <1>3. ASSUME NEW cut \in SUBSET Tables,
                 part = [s EXCEPT !.schema = [t \in Tables |-> IF t \in cut THEN "absent" ELSE @[t]]]
          PROVE  /\ part \in SnapshotRecords
                 /\ part.engine = s.engine /\ part.sum = s.sum
        <2>1. [t \in Tables |-> IF t \in cut THEN "absent" ELSE s.schema[t]] \in Schemas
            BY DEF Schemas, ColumnLists
        <2> QED
            BY <1>3, <2>1 DEF SnapshotRecords
    <1> QED
        BY <1>1, <1>2, <1>3 DEF Parts

LEMMA FilesInitially == Init => FileInv
    BY NoSnapshotIsRecord, EmptyIsContent, FilesAssumption DEF Init, FileInv

LEMMA TakeKeepsFiles ==
    ASSUME FileInv, NEW p \in Savers, TakeSnapshot(p)
    PROVE  FileInv'
    <1>1. PICK eng \in Engines, schema \in ExtractSchema, hash \in BOOLEAN :
            LET sum == IF hash THEN ComputeSchemaChecksums(schema) ELSE NoSchema
                s == [engine |-> eng, sum |-> sum, schema |-> schema]
            IN  /\ hand' = [hand EXCEPT ![p] = s]
                /\ taken' = taken \cup {s}
        BY DEF TakeSnapshot
    <1> DEFINE sum == IF hash THEN schema ELSE NoSchema
               s == [engine |-> eng, sum |-> sum, schema |-> schema]
    <1>2. hand' = [hand EXCEPT ![p] = s] /\ taken' = taken \cup {s}
        BY <1>1 DEF ComputeSchemaChecksums
    <1>3. schema \in Schemas
        BY DatabasesAssumption DEF ExtractSchema, Schemas
    <1>4. s \in SnapshotRecords /\ s.schema \in Schemas /\ s.sum \in {s.schema, NoSchema}
        BY <1>3 DEF SnapshotRecords
    <1>5. /\ phase' = [phase EXCEPT ![p] = "taken"]
          /\ disk' = disk
          /\ target' \in [Savers -> Files]
        BY DEF TakeSnapshot, FileInv
    <1> HIDE DEF s
    <1>6. /\ taken' \subseteq SnapshotRecords
          /\ \A z \in taken' : z.schema \in Schemas /\ z.sum \in {z.schema, NoSchema}
          /\ hand' \in [Savers -> SnapshotRecords]
          /\ phase' \in [Savers -> {"idle", "taken", "writing", "done", "failed"}]
          /\ \A q \in Savers : phase'[q] \in {"taken", "writing"} => hand'[q] \in taken'
        BY <1>2, <1>4, <1>5 DEF FileInv
    <1>7. /\ disk' \in [Files -> Contents]
          /\ \A f \in Files : disk'[f].extent = "whole" => disk'[f].snapshot \in taken'
          /\ \A f \in Files : disk'[f].snapshot.sum # NoSchema =>
                 \E z \in taken' : /\ z.engine = disk'[f].snapshot.engine
                                  /\ z.sum = disk'[f].snapshot.sum
        BY <1>2, <1>5 DEF FileInv
    <1> QED
        BY <1>5, <1>6, <1>7 DEF FileInv

\* What a process writes: nothing, a part or the whole of a snapshot taken.
LEMMA WriteKeepsFiles ==
    ASSUME FileInv, NEW p \in Savers, NEW content \in Contents,
           disk' = [disk EXCEPT ![target[p]] = content],
           UNCHANGED <<hand, target, taken>>,
           NEW s \in {"writing", "done"}, phase[p] \in {"taken", "writing"},
           phase' = [phase EXCEPT ![p] = s],
           content.extent = "whole" => content.snapshot \in taken,
           content.snapshot.sum # NoSchema =>
               \E z \in taken : /\ z.engine = content.snapshot.engine
                               /\ z.sum = content.snapshot.sum
    PROVE  FileInv'
    <1>1. \A f \in Files : disk'[f] \in {disk[f], content}
        BY DEF FileInv
    <1>2. disk' \in [Files -> Contents]
        BY DEF FileInv
    <1>3. /\ \A f \in Files : disk'[f].extent = "whole" => disk'[f].snapshot \in taken'
          /\ \A f \in Files : disk'[f].snapshot.sum # NoSchema =>
                 \E z \in taken' : /\ z.engine = disk'[f].snapshot.engine
                                  /\ z.sum = disk'[f].snapshot.sum
        BY <1>1 DEF FileInv
    <1>4. /\ taken' \subseteq SnapshotRecords
          /\ \A z \in taken' : z.schema \in Schemas /\ z.sum \in {z.schema, NoSchema}
          /\ hand' \in [Savers -> SnapshotRecords]
          /\ target' \in [Savers -> Files]
          /\ phase' \in [Savers -> {"idle", "taken", "writing", "done", "failed"}]
          /\ \A q \in Savers : phase'[q] \in {"taken", "writing"} => hand'[q] \in taken'
        BY DEF FileInv
    <1> QED
        BY <1>2, <1>3, <1>4 DEF FileInv

LEMMA FilesKept == FileInv /\ [Next]_vars => FileInv'
    <1> SUFFICES ASSUME FileInv, [Next]_vars
                 PROVE  FileInv'
        OBVIOUS
    <1>1. ASSUME NEW p \in Savers, TakeSnapshot(p)
          PROVE  FileInv'
        BY <1>1, TakeKeepsFiles
    <1>2. ASSUME NEW p \in Savers, CreateFile(p)
          PROVE  FileInv'
        BY <1>2, WriteKeepsFiles, EmptyIsContent DEF CreateFile
    <1>3. ASSUME NEW p \in Savers, WritePart(p)
          PROVE  FileInv'
        <2>1. PICK part \in Parts(hand[p]) :
                disk' = [disk EXCEPT ![target[p]] = [extent |-> "part", snapshot |-> part]]
            BY <1>3 DEF WritePart
        <2>2. phase[p] = "writing" /\ UNCHANGED <<hand, target, phase, taken>>
            BY <1>3 DEF WritePart
        <2>3. /\ hand[p] \in taken /\ hand[p] \in SnapshotRecords
              /\ hand[p].schema \in Schemas
            BY <2>2 DEF FileInv
        <2>4. /\ part \in SnapshotRecords
              /\ part.sum # NoSchema => part.engine = hand[p].engine /\ part.sum = hand[p].sum
            BY <2>3, PartsOfSnapshot
        <2> DEFINE content == [extent |-> "part", snapshot |-> part]
        <2>5. /\ content \in Contents /\ content.extent # "whole"
              /\ content.snapshot = part
            BY <2>4 DEF Contents
        <2>6. phase' = [phase EXCEPT ![p] = "writing"]
            BY <2>2 DEF FileInv
        <2>7. disk' = [disk EXCEPT ![target[p]] = content]
            BY <2>1
        <2> HIDE DEF content
        <2> QED
            BY <2>2, <2>3, <2>4, <2>5, <2>6, <2>7, WriteKeepsFiles
    <1>4. ASSUME NEW p \in Savers, WriteRest(p)
          PROVE  FileInv'
        <2> DEFINE content == [extent |-> "whole", snapshot |-> hand[p]]
        <2>1. /\ disk' = [disk EXCEPT ![target[p]] = content]
              /\ phase[p] = "writing" /\ phase' = [phase EXCEPT ![p] = "done"]
              /\ UNCHANGED <<hand, target, taken>>
            BY <1>4 DEF WriteRest
        <2>2. hand[p] \in taken /\ hand[p] \in SnapshotRecords
            BY <2>1 DEF FileInv
        <2>3. content \in Contents /\ content.snapshot = hand[p]
            BY <2>2 DEF Contents
        <2> HIDE DEF content
        <2> QED
            BY <2>1, <2>2, <2>3, WriteKeepsFiles
    <1>5. ASSUME NEW p \in Savers, Crash(p)
          PROVE  FileInv'
        BY <1>5, NoSnapshotIsRecord DEF Crash, FileInv
    <1>6. CASE UNCHANGED vars
        BY <1>6 DEF vars, FileInv
    <1> QED
        BY <1>1, <1>2, <1>3, <1>4, <1>5, <1>6 DEF Next

\* No reader of a JSON file ever takes the beginning of a snapshot for a snapshot
\* (snapshot.go 103-118).
THEOREM JsonIsNeverCutShort == Spec => []JsonIsWholeOrRefused
    <1>1. FileInv => JsonIsWholeOrRefused
        BY DEF FileInv, JsonIsWholeOrRefused, LoadSnapshot, ImportSnapshot
    <1> QED
        BY <1>1, FilesInitially, FilesKept, PTL DEF Spec

\* Checksums tell a snapshot cut short from a whole one in either format
\* (snapshot.go 217-256).
THEOREM ChecksumsDetectCuts == Spec => []ValidatedWasTaken
    <1>1. FileInv => ValidatedWasTaken
        <2> SUFFICES ASSUME FileInv, NEW f \in Files, ValidateSnapshot(f),
                            LoadSnapshot(f).snapshot.sum # NoSchema
                     PROVE  LoadSnapshot(f).snapshot \in taken
            BY DEF ValidatedWasTaken
        <2>1. CASE ExtOf[f] # "yaml"
            BY <2>1 DEF FileInv, ValidateSnapshot, LoadSnapshot, ImportSnapshot
        <2>2. CASE ExtOf[f] = "yaml"
            <3> DEFINE d == disk[f].snapshot
                       l == LoadSnapshot(f).snapshot
                       read == [t \in Tables |-> YamlList(d.schema[t])]
            <3>1. d \in SnapshotRecords
                BY DEF FileInv, Contents
            <3>2. l = [d EXCEPT !.schema = read]
                BY <2>2 DEF LoadSnapshot, ImportSnapshotYAML
            <3>3. l.sum = l.schema /\ l.sum # NoSchema
                BY DEF ValidateSnapshot, ComputeSchemaChecksums
            <3>4. l = [engine |-> d.engine, sum |-> d.sum, schema |-> read]
                BY <3>1, <3>2 DEF SnapshotRecords
            <3>5. d.sum = read /\ d.sum # NoSchema
                BY <3>3, <3>4
            <3>6. PICK z \in taken : z.engine = d.engine /\ z.sum = d.sum
                BY <3>5 DEF FileInv
            <3>7. z \in SnapshotRecords /\ z.sum = z.schema
                BY <3>5, <3>6 DEF FileInv
            <3>8. z = [engine |-> z.engine, sum |-> z.sum, schema |-> z.schema]
                BY <3>7 DEF SnapshotRecords
            <3>9. l = z
                BY <3>4, <3>5, <3>6, <3>7, <3>8
            <3> QED
                BY <3>9
        <2> QED
            BY <2>1, <2>2
    <1> QED
        BY <1>1, FilesInitially, FilesKept, PTL DEF Spec

-----------------------------------------------------------------------------
\* What was saved without an error was taken and is the whole content of its file,
\* because nobody is writing that file, and no two processes write one.
SavedInv ==
    /\ FileInv
    /\ \A s \in taken : s.engine # ""
    /\ saved \in [Files -> SnapshotRecords]
    /\ \A f \in Files : saved[f] # NoSnapshot =>
           saved[f] \in taken /\ disk[f] = [extent |-> "whole", snapshot |-> saved[f]]
    /\ \A p \in Savers : phase[p] = "writing" => saved[target[p]] = NoSnapshot
    /\ \A p, q \in Savers : phase[p] = "writing" /\ phase[q] = "writing" /\ target[p] = target[q]
           => p = q

LEMMA SchemaIsPresent == NoSchema \notin Schemas
    <1> SUFFICES ASSUME NoSchema \in Schemas PROVE FALSE
        OBVIOUS
    <1>1. PICK t : t \in Tables
        BY DatabasesAssumption
    <1>2. NoSchema[t] = "none" /\ NoSchema[t] \in ColumnLists
        BY <1>1 DEF NoSchema, Schemas
    <1> QED
        BY <1>2 DEF ColumnLists

LEMMA SavedInitially == Init => SavedInv
    BY FilesInitially, NoSnapshotIsRecord DEF Init, SavedInv

LEMMA SavedKept == SavedInv /\ [Next]_vars => SavedInv'
    <1> SUFFICES ASSUME SavedInv, [Next]_vars
                 PROVE  SavedInv'
        OBVIOUS
    <1>1. FileInv /\ FileInv'
        BY FilesKept DEF SavedInv
    <1>0. /\ target \in [Savers -> Files]
          /\ phase \in [Savers -> {"idle", "taken", "writing", "done", "failed"}]
          /\ disk \in [Files -> Contents]
        BY <1>1 DEF FileInv
    <1>2. ASSUME NEW p \in Savers, TakeSnapshot(p)
          PROVE  SavedInv'
        <2>0. PICK eng \in Engines, schema \in ExtractSchema, hash \in BOOLEAN :
                LET sum == IF hash THEN ComputeSchemaChecksums(schema) ELSE NoSchema
                IN  taken' = taken \cup {[engine |-> eng, sum |-> sum, schema |-> schema]}
            BY <1>2 DEF TakeSnapshot
        <2> DEFINE s == [engine |-> eng,
                         sum |-> IF hash THEN ComputeSchemaChecksums(schema) ELSE NoSchema,
                         schema |-> schema]
        <2>1. taken' = taken \cup {s} /\ s.engine \in Engines
            BY <2>0
        <2> HIDE DEF s
        <2>2. \A z \in taken' : z.engine # ""
            BY <2>1 DEF SavedInv, Engines
        <2>3. /\ phase' = [phase EXCEPT ![p] = "taken"]
              /\ \E f \in Files : target' = [target EXCEPT ![p] = f]
              /\ UNCHANGED <<disk, saved>> /\ taken \subseteq taken'
            BY <1>2, <2>1 DEF TakeSnapshot
        <2>4. \A q \in Savers : phase'[q] = "writing" =>
                phase[q] = "writing" /\ target'[q] = target[q]
            BY <2>3, <1>0
        <2>5. \A f \in Files : saved'[f] # NoSnapshot =>
                saved'[f] \in taken' /\ disk'[f] = [extent |-> "whole", snapshot |-> saved'[f]]
            BY <2>3 DEF SavedInv
        <2>6. \A q \in Savers : phase'[q] = "writing" => saved'[target'[q]] = NoSnapshot
            BY <2>3, <2>4 DEF SavedInv
        <2>7. \A q, r \in Savers :
                phase'[q] = "writing" /\ phase'[r] = "writing" /\ target'[q] = target'[r] => q = r
            BY <2>4 DEF SavedInv
        <2>8. saved' \in [Files -> SnapshotRecords]
            BY <2>3 DEF SavedInv
        <2> QED
            BY <1>1, <2>2, <2>5, <2>6, <2>7, <2>8 DEF SavedInv
    <1>3. ASSUME NEW p \in Savers, CreateFile(p)
          PROVE  SavedInv'
        <2>1. /\ saved' = [saved EXCEPT ![target[p]] = NoSnapshot]
              /\ disk' = [disk EXCEPT ![target[p]] = Empty]
              /\ phase' = [phase EXCEPT ![p] = "writing"]
              /\ UNCHANGED <<taken, target>>
              /\ \A q \in Savers : phase[q] = "writing" => target[q] # target[p]
            BY <1>3 DEF CreateFile
        <2>2. saved' \in [Files -> SnapshotRecords]
            BY <2>1, <1>0, NoSnapshotIsRecord DEF SavedInv
        <2>3. \A f \in Files : saved'[f] # NoSnapshot =>
                saved'[f] \in taken' /\ disk'[f] = [extent |-> "whole", snapshot |-> saved'[f]]
            BY <2>1, <1>0 DEF SavedInv
        <2>4. \A q \in Savers : phase'[q] = "writing" => saved'[target'[q]] = NoSnapshot
            BY <2>1, <1>0 DEF SavedInv
        <2>5. \A q, r \in Savers :
                phase'[q] = "writing" /\ phase'[r] = "writing" /\ target'[q] = target'[r] => q = r
            BY <2>1, <1>0 DEF SavedInv
        <2> QED
            BY <1>1, <2>1, <2>2, <2>3, <2>4, <2>5 DEF SavedInv
    <1>4. ASSUME NEW p \in Savers, WritePart(p)
          PROVE  SavedInv'
        <2>1. PICK content : disk' = [disk EXCEPT ![target[p]] = content]
            BY <1>4 DEF WritePart
        <2>2. phase[p] = "writing" /\ UNCHANGED <<taken, target, phase, saved>>
            BY <1>4 DEF WritePart
        <2>3. saved[target[p]] = NoSnapshot
            BY <2>2 DEF SavedInv
        <2>4. \A f \in Files : saved[f] # NoSnapshot => disk'[f] = disk[f]
            BY <2>1, <2>3, <1>0
        <2> QED
            BY <1>1, <2>2, <2>4 DEF SavedInv
    <1>5. ASSUME NEW p \in Savers, WriteRest(p)
          PROVE  SavedInv'
        <2>1. /\ phase[p] = "writing" /\ phase' = [phase EXCEPT ![p] = "done"]
              /\ disk' = [disk EXCEPT ![target[p]] = [extent |-> "whole", snapshot |-> hand[p]]]
              /\ saved' = [saved EXCEPT ![target[p]] = hand[p]]
              /\ UNCHANGED <<taken, target>>
            BY <1>5 DEF WriteRest
        <2>2. hand[p] \in taken /\ hand[p] \in SnapshotRecords
            BY <2>1, <1>1 DEF FileInv
        <2>3. saved' \in [Files -> SnapshotRecords]
            BY <2>1, <2>2 DEF SavedInv
        <2>4. \A f \in Files : saved'[f] # NoSnapshot =>
                saved'[f] \in taken' /\ disk'[f] = [extent |-> "whole", snapshot |-> saved'[f]]
            BY <2>1, <2>2, <1>0 DEF SavedInv
        <2>5. \A q \in Savers : phase'[q] = "writing" => q # p /\ phase[q] = "writing"
            BY <2>1, <1>0
        <2>6. \A q \in Savers : phase'[q] = "writing" => saved'[target'[q]] = NoSnapshot
            <3> SUFFICES ASSUME NEW q \in Savers, phase'[q] = "writing"
                         PROVE  saved'[target[q]] = NoSnapshot
                BY <2>1
            <3>1. saved[target[q]] = NoSnapshot /\ target[q] # target[p]
                BY <2>1, <2>5 DEF SavedInv
            <3> QED
                BY <2>1, <3>1, <1>0 DEF SavedInv
        <2>7. \A q, r \in Savers :
                phase'[q] = "writing" /\ phase'[r] = "writing" /\ target'[q] = target'[r] => q = r
            BY <2>1, <2>5 DEF SavedInv
        <2> QED
            BY <1>1, <2>1, <2>3, <2>4, <2>6, <2>7 DEF SavedInv
    <1>6. ASSUME NEW p \in Savers, Crash(p)
          PROVE  SavedInv'
        <2>1. phase' = [phase EXCEPT ![p] = "failed"] /\ UNCHANGED <<disk, target, saved, taken>>
            BY <1>6 DEF Crash
        <2>2. \A q \in Savers : phase'[q] = "writing" => phase[q] = "writing"
            BY <2>1, <1>0
        <2> QED
            BY <1>1, <2>1, <2>2 DEF SavedInv
    <1>7. CASE UNCHANGED vars
        BY <1>7, <1>1 DEF vars, SavedInv
    <1> QED
        BY <1>2, <1>3, <1>4, <1>5, <1>6, <1>7 DEF Next

LEMMA OtherSchema ==
    ASSUME NEW d \in SnapshotRecords, NEW r
    PROVE  /\ [d EXCEPT !.schema = r] = [engine |-> d.engine, sum |-> d.sum, schema |-> r]
           /\ d = [engine |-> d.engine, sum |-> d.sum, schema |-> d.schema]
    <1>1. d = [engine |-> d.engine, sum |-> d.sum, schema |-> d.schema]
        BY DEF SnapshotRecords
    <1> DEFINE e == d.engine
               s == d.sum
               c == d.schema
    <1>2. d = [engine |-> e, sum |-> s, schema |-> c]
        BY <1>1
    <1> HIDE DEF e, s, c
    <1>3. [d EXCEPT !.schema = r] = [engine |-> e, sum |-> s, schema |-> r]
        BY <1>2
    <1> QED
        BY <1>1, <1>3 DEF e, s, c

\* What LoadSnapshot makes of a file that was saved.
LEMMA LoadOfSaved ==
    ASSUME SavedInv, NEW f \in Files, saved[f] # NoSnapshot
    PROVE  /\ LoadSnapshot(f).ok
           /\ saved[f] = [engine |-> saved[f].engine, sum |-> saved[f].sum,
                          schema |-> saved[f].schema]
           /\ saved[f].engine # "" /\ saved[f].schema \in Schemas
           /\ saved[f].sum \in {saved[f].schema, NoSchema}
           /\ ExtOf[f] # "yaml" => LoadSnapshot(f).snapshot = saved[f]
           /\ ExtOf[f] = "yaml" => LoadSnapshot(f).snapshot =
                [engine |-> saved[f].engine, sum |-> saved[f].sum,
                 schema |-> [t \in Tables |-> YamlList(saved[f].schema[t])]]
    <1>1. disk[f] = [extent |-> "whole", snapshot |-> saved[f]]
        BY DEF SavedInv
    <1>2. /\ saved[f] \in taken /\ saved[f] \in SnapshotRecords
          /\ saved[f].engine # "" /\ saved[f].schema \in Schemas
          /\ saved[f].sum \in {saved[f].schema, NoSchema}
        BY DEF SavedInv, FileInv
    <1>3. disk[f].extent = "whole" /\ disk[f].snapshot = saved[f]
        BY <1>1
    <1>4. saved[f] = [engine |-> saved[f].engine, sum |-> saved[f].sum,
                      schema |-> saved[f].schema]
        BY <1>2, OtherSchema
    <1>5. CASE ExtOf[f] # "yaml"
        BY <1>2, <1>3, <1>4, <1>5 DEF LoadSnapshot, ImportSnapshot
    <1>6. CASE ExtOf[f] = "yaml"
        <2>1. LoadSnapshot(f).ok /\ LoadSnapshot(f).snapshot =
                [saved[f] EXCEPT !.schema = [t \in Tables |-> YamlList(@[t])]]
            BY <1>3, <1>6 DEF LoadSnapshot, ImportSnapshotYAML
        <2>2. [saved[f] EXCEPT !.schema = [t \in Tables |-> YamlList(saved[f].schema[t])]] =
                [engine |-> saved[f].engine, sum |-> saved[f].sum,
                 schema |-> [t \in Tables |-> YamlList(saved[f].schema[t])]]
            BY <1>2, OtherSchema
        <2> QED
            BY <1>2, <1>4, <1>6, <2>1, <2>2
    <1> QED
        BY <1>5, <1>6

\* What was saved loads as it was taken, whatever is done to other files, if one process
\* at a time writes a file, as CreateFile has it (snapshot.go 89-118, 150-178).
THEOREM SavesAreLoaded == Spec => []SavedIsLoaded
    <1>1. SavedInv => SavedIsLoaded
        <2> SUFFICES ASSUME SavedInv, NEW f \in Files, saved[f] # NoSnapshot
                     PROVE  LET s == LoadSnapshot(f).snapshot
                            IN  /\ LoadSnapshot(f).ok
                                /\ ExtOf[f] # "other" => f \in ListSnapshots
                                /\ [s EXCEPT !.schema = saved[f].schema] = saved[f]
                                /\ \A t \in Tables :
                                    YamlList(s.schema[t]) = YamlList(saved[f].schema[t])
            BY DEF SavedIsLoaded
        <2> DEFINE s == LoadSnapshot(f).snapshot
                   d == saved[f]
        <2>1. LoadSnapshot(f).ok /\ (ExtOf[f] # "other" => f \in ListSnapshots)
            BY LoadOfSaved, FilesAssumption DEF ListSnapshots
        <2>2. PICK r : /\ s = [engine |-> d.engine, sum |-> d.sum, schema |-> r]
                       /\ r = d.schema \/ r = [t \in Tables |-> YamlList(d.schema[t])]
            BY LoadOfSaved
        <2>3. d = [engine |-> d.engine, sum |-> d.sum, schema |-> d.schema]
            BY LoadOfSaved
        <2> HIDE DEF s, d
        <2>4. [s EXCEPT !.schema = d.schema] = d
            BY <2>2, <2>3
        <2>5. \A t \in Tables : YamlList(s.schema[t]) = YamlList(d.schema[t])
            BY <2>2 DEF YamlList
        <2> QED
            BY <2>1, <2>4, <2>5 DEF s, d
    <1> QED
        BY <1>1, SavedInitially, SavedKept, PTL DEF Spec

\* A saved snapshot validates exactly when no list of it changes on its way through
\* the file (snapshot.go 75-83, 237-253).
THEOREM SavesValidateUnlessNil == Spec => []SavedValidates
    <1>1. SavedInv => SavedValidates
        <2> SUFFICES ASSUME SavedInv, NEW f \in Files, saved[f] # NoSnapshot
                     PROVE  ValidateSnapshot(f) <=>
                                \/ ExtOf[f] # "yaml" \/ saved[f].sum = NoSchema
                                \/ \A t \in Tables : saved[f].schema[t] # "nil"
            BY DEF SavedValidates
        <2> DEFINE d == saved[f]
                   read == [t \in Tables |-> YamlList(d.schema[t])]
        <2>1. d.engine # "" /\ d.schema \in Schemas /\ d.sum \in {d.schema, NoSchema}
            BY LoadOfSaved
        <2>2. CASE ExtOf[f] # "yaml"
            BY <2>1, <2>2, LoadOfSaved, SchemaIsPresent DEF ValidateSnapshot, ComputeSchemaChecksums
        <2>3. CASE ExtOf[f] = "yaml"
            <3>1. /\ LoadSnapshot(f).ok
                  /\ LoadSnapshot(f).snapshot = [engine |-> d.engine, sum |-> d.sum, schema |-> read]
                BY <2>3, LoadOfSaved
            <3>2. read \in Schemas
                BY <2>1 DEF Schemas, ColumnLists, YamlList
            <3>3. d.schema = read <=> \A t \in Tables : d.schema[t] # "nil"
                BY <2>1 DEF Schemas, YamlList
            <3> HIDE DEF d, read
            <3>4. ValidateSnapshot(f) <=>
                    read # NoSchema /\ d.engine # "" /\ (d.sum # NoSchema => d.sum = read)
                BY <3>1 DEF ValidateSnapshot, ComputeSchemaChecksums
            <3>5. read # NoSchema
                BY <3>2, SchemaIsPresent
            <3> QED
                BY <2>1, <2>3, <3>3, <3>4, <3>5 DEF d
        <2> QED
            BY <2>2, <2>3
    <1> QED
        BY <1>1, SavedInitially, SavedKept, PTL DEF Spec

\* Type correctness.
THEOREM SnapshotTypesHold == Spec => []TypeOK
    <1>1. ASSUME NEW s \in SnapshotRecords
          PROVE  IsSnapshot(s)
        BY DEF SnapshotRecords, IsSnapshot
    <1>2. SavedInv => TypeOK
        <2> SUFFICES ASSUME SavedInv PROVE TypeOK
            OBVIOUS
        <2>1. \A f \in Files : /\ disk[f].extent \in {"missing", "empty", "part", "whole"}
                               /\ disk[f].snapshot \in SnapshotRecords
                               /\ saved[f] \in SnapshotRecords
            BY DEF SavedInv, FileInv, Contents
        <2>2. \A p \in Savers : hand[p] \in SnapshotRecords
            BY DEF SavedInv, FileInv
        <2>3. \A s \in taken : s \in SnapshotRecords /\ s.engine # "" /\ s.schema # NoSchema
            BY SchemaIsPresent DEF SavedInv, FileInv
        <2>4. target \in [Savers -> Files]
              /\ phase \in [Savers -> {"idle", "taken", "writing", "done", "failed"}]
            BY DEF SavedInv, FileInv
        <2> QED
            BY <1>1, <2>1, <2>2, <2>3, <2>4 DEF TypeOK
    <1> QED
        BY <1>2, SavedInitially, SavedKept, PTL DEF Spec
=============================================================================

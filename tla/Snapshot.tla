------------------------------ MODULE Snapshot ------------------------------
(***************************************************************************)
(* package snapshot: TakeSnapshot, SaveSnapshot, LoadSnapshot,             *)
(* ListSnapshots and ValidateSnapshot.  Processes save snapshots to files, *)
(* in place, and may crash at any moment; whoever reads a file then finds  *)
(* a part of it.  A schema is what a snapshot says of each table: absent,  *)
(* or the list of its columns, which may be nil.  The field engine stands  *)
(* for the metadata ValidateSnapshot requires.                             *)
(*                                                                         *)
(* External, modelled from how the package uses them: the extractors, the  *)
(* file system and the two encodings.  JSON cut short is an error; YAML    *)
(* cut short may be a document with fewer tables.  YAML writes a nil list  *)
(* as an empty one; a hash is the schema it was computed from.             *)
(***************************************************************************)
EXTENDS Naturals, FiniteSets

CONSTANTS
    Savers,     \* processes that save snapshots
    Files,      \* file names
    ExtOf,      \* their extension: "json", "yaml" or "other"
    Tables,     \* tables a database may have
    Databases,  \* the schemas the extractors may return
    MaxSaves,   \* bound: snapshots taken
    MaxCrashes  \* bound: crashes and failed writes

Engines == {"MYSQL", "POSTGRES"}
ColumnLists == {"absent", "nil", "empty", "one", "two"}

ASSUME FilesAssumption == Files # {} /\ ExtOf \in [Files -> {"json", "yaml", "other"}]
ASSUME DatabasesAssumption ==
    Tables # {} /\ Databases \subseteq [Tables -> ColumnLists \ {"empty"}]

\* "" stands for a field left out, of the metadata or of the snapshot.
Schemas == [Tables -> ColumnLists]
NoSchema == [t \in Tables |-> "none"]
NoSnapshot == [engine |-> "", sum |-> NoSchema, schema |-> NoSchema]
IsSnapshot(s) ==
    /\ DOMAIN s = {"engine", "sum", "schema"}
    /\ s.engine \in Engines \cup {""}
    /\ {s.sum, s.schema} \subseteq Schemas \cup {NoSchema}

VARIABLES
    disk,     \* what each file contains
    hand,     \* the snapshot each process has in memory
    target,   \* the file it saves it to
    phase,    \* what it is doing
    saved,    \* what the last save of each file wrote, if it returned no error
    taken,    \* every snapshot taken
    saves, crashes

vars == <<disk, hand, target, phase, saved, taken, saves, crashes>>

Missing == [extent |-> "missing", snapshot |-> NoSnapshot]
Empty == [extent |-> "empty", snapshot |-> NoSnapshot]

TypeOK ==
    /\ \A f \in Files : /\ disk[f].extent \in {"missing", "empty", "part", "whole"}
                        /\ IsSnapshot(disk[f].snapshot)
                        /\ IsSnapshot(saved[f])
    /\ \A p \in Savers : IsSnapshot(hand[p])
    /\ target \in [Savers -> Files]
    /\ phase \in [Savers -> {"idle", "taken", "writing", "done", "failed"}]
    /\ \A s \in taken : IsSnapshot(s) /\ s.engine # "" /\ s.schema # NoSchema

Init ==
    /\ disk = [f \in Files |-> Missing]
    /\ hand = [p \in Savers |-> NoSnapshot]
    /\ target = [p \in Savers |-> CHOOSE f \in Files : TRUE]
    /\ phase = [p \in Savers |-> "idle"]
    /\ saved = [f \in Files |-> NoSnapshot]
    /\ taken = {}
    /\ saves = 0 /\ crashes = 0

-----------------------------------------------------------------------------
(***************************************************************************)
(* What a reader makes of a file.                                          *)
(***************************************************************************)
\* Faulty variant: the error of the decoder is dropped.
ImportSnapshotLenient(content) ==
    [ok |-> content.extent \in {"part", "whole"}, snapshot |-> content.snapshot]

\* The JSON decoder needs a whole document.
ImportSnapshot(content) ==
    [ok |-> content.extent = "whole", snapshot |-> content.snapshot]

\* Encoding a list and decoding it again: YAML knows no nil list.
YamlList(list) == IF list = "nil" THEN "empty" ELSE list

\* The YAML decoder makes do with a part.
ImportSnapshotYAML(content) ==
    [ok |-> content.extent \in {"part", "whole"},
     snapshot |-> [content.snapshot EXCEPT !.schema = [t \in Tables |-> YamlList(@[t])]]]

\* Faulty variant: every file is read as JSON written by SaveSnapshot.
LoadSnapshotJsonOnly(f) ==
    IF ExtOf[f] = "yaml" THEN [ok |-> FALSE, snapshot |-> NoSnapshot] ELSE ImportSnapshot(disk[f])

\* By extension; SaveSnapshot writes JSON under any other, and JSON cut short is not
\* YAML either, so that trying YAML next changes nothing.
LoadSnapshot(f) ==
    IF ExtOf[f] = "yaml" THEN ImportSnapshotYAML(disk[f]) ELSE ImportSnapshot(disk[f])

\* The checksums of a schema, NoSchema if there is none to compare with.
ComputeSchemaChecksums(schema) == schema

\* Faulty variant: the checksums are not compared.
ValidateSnapshotUnchecked(f) ==
    /\ LoadSnapshot(f).ok
    /\ LoadSnapshot(f).snapshot.schema # NoSchema
    /\ LoadSnapshot(f).snapshot.engine # ""

\* TRUE when ValidateSnapshot returns no error.
ValidateSnapshot(f) ==
    LET s == LoadSnapshot(f).snapshot
    IN  /\ LoadSnapshot(f).ok
        /\ s.schema # NoSchema
        /\ s.engine # ""
        /\ s.sum # NoSchema => s.sum = ComputeSchemaChecksums(s.schema)

\* Files under another extension, and files that do not load, are not listed.
ListSnapshots == {f \in Files : ExtOf[f] \in {"json", "yaml"} /\ LoadSnapshot(f).ok}

-----------------------------------------------------------------------------
(***************************************************************************)
(* Taking and saving.                                                      *)
(***************************************************************************)
\* Faulty variant: the extractor's error is dropped.
ExtractSchemaOrNil == Databases \cup {NoSchema}

\* What the extractor returns; its error is TakeSnapshot's.
ExtractSchema == Databases

\* The extractor of the engine returns the schema; the engine's own name goes into the
\* metadata, the checksums only if asked for.
TakeSnapshot(p) ==
    /\ phase[p] \in {"idle", "done", "failed"}
    /\ saves < MaxSaves
    /\ saves' = saves + 1
    /\ \E eng \in Engines, schema \in ExtractSchema, hash \in BOOLEAN :
        LET sum == IF hash THEN ComputeSchemaChecksums(schema) ELSE NoSchema
            s == [engine |-> eng, sum |-> sum, schema |-> schema]
        IN  /\ hand' = [hand EXCEPT ![p] = s]
            /\ taken' = taken \cup {s}
    /\ phase' = [phase EXCEPT ![p] = "taken"]
    /\ \E f \in Files : target' = [target EXCEPT ![p] = f]
    /\ UNCHANGED <<disk, saved, crashes>>

\* os.Create truncates the file, whatever it contained.  Bound: one process at a time
\* writes a file.
CreateFile(p) ==
    /\ phase[p] = "taken"
    /\ \A q \in Savers : phase[q] = "writing" => target[q] # target[p]
    /\ disk' = [disk EXCEPT ![target[p]] = Empty]
    /\ saved' = [saved EXCEPT ![target[p]] = NoSnapshot]
    /\ phase' = [phase EXCEPT ![p] = "writing"]
    /\ UNCHANGED <<hand, target, taken, saves, crashes>>

\* A part of the text reaches the disk: some of the metadata, or all of it and some
\* of the tables.
Parts(s) ==
    {NoSnapshot, [s EXCEPT !.schema = NoSchema]} \cup
    {[s EXCEPT !.schema = [t \in Tables |-> IF t \in cut THEN "absent" ELSE @[t]]] :
        cut \in SUBSET Tables}
WritePart(p) ==
    /\ phase[p] = "writing" /\ disk[target[p]].extent = "empty"
    /\ \E s \in Parts(hand[p]) :
        disk' = [disk EXCEPT ![target[p]] = [extent |-> "part", snapshot |-> s]]
    /\ UNCHANGED <<hand, target, phase, saved, taken, saves, crashes>>

\* The rest follows; SaveSnapshot returns no error.
WriteRest(p) ==
    /\ phase[p] = "writing"
    /\ disk' = [disk EXCEPT ![target[p]] = [extent |-> "whole", snapshot |-> hand[p]]]
    /\ saved' = [saved EXCEPT ![target[p]] = hand[p]]
    /\ phase' = [phase EXCEPT ![p] = "done"]
    /\ UNCHANGED <<hand, target, taken, saves, crashes>>

\* A write fails, or the process dies: the file stays as it is.
Crash(p) ==
    /\ phase[p] \in {"taken", "writing"}
    /\ crashes < MaxCrashes
    /\ crashes' = crashes + 1
    /\ phase' = [phase EXCEPT ![p] = "failed"]
    /\ hand' = [hand EXCEPT ![p] = NoSnapshot]
    /\ UNCHANGED <<disk, target, saved, taken, saves>>

Next == \E p \in Savers :
    TakeSnapshot(p) \/ CreateFile(p) \/ WritePart(p) \/ WriteRest(p) \/ Crash(p)

Spec == Init /\ [][Next]_vars

-----------------------------------------------------------------------------
\* A snapshot saved without an error is listed and loads as it was taken, whatever
\* other processes do to other files; only YAML turns nil lists into empty ones
\* (snapshot.go 89-118, 150-178).
SavedIsLoaded ==
    \A f \in Files : saved[f] # NoSnapshot =>
        LET s == LoadSnapshot(f).snapshot
        IN  /\ LoadSnapshot(f).ok
            /\ ExtOf[f] # "other" => f \in ListSnapshots
            /\ [s EXCEPT !.schema = saved[f].schema] = saved[f]
            /\ \A t \in Tables : YamlList(s.schema[t]) = YamlList(saved[f].schema[t])

\* What loads from a JSON file was taken as it is: a save that crashed or is going on
\* is never read as a schema with fewer tables (snapshot.go 103-118).
JsonIsWholeOrRefused ==
    \A f \in Files : ExtOf[f] # "yaml" /\ LoadSnapshot(f).ok =>
        LoadSnapshot(f).snapshot \in taken

\* A snapshot with checksums that passes ValidateSnapshot was taken as it is, from
\* YAML as well: a file cut short does not validate (snapshot.go 237-253).
ValidatedWasTaken ==
    \A f \in Files : ValidateSnapshot(f) /\ LoadSnapshot(f).snapshot.sum # NoSchema =>
        LoadSnapshot(f).snapshot \in taken

\* A saved snapshot validates, except with checksums in YAML when a table has a nil
\* list: the checksums are of the schema before it was written, and the list is read
\* back as an empty one, though README.md 47-48 offers both formats and the checksums
\* (snapshot.go 75-83, 237-253).
SavedValidates ==
    \A f \in Files : saved[f] # NoSnapshot =>
        (ValidateSnapshot(f) <=>
            \/ ExtOf[f] # "yaml" \/ saved[f].sum = NoSchema
            \/ \A t \in Tables : saved[f].schema[t] # "nil")
=============================================================================

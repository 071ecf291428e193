----------------------------- MODULE MySqlProofs -----------------------------
(***************************************************************************)
(* Proofs about ExtractSchema of extractor/mysql, for every pool, every    *)
(* number of goroutines and every database: no connection is lost, with    *)
(* more connections than goroutines one is always free, and what nobody    *)
(* changes during a call is extracted exactly, though no transaction       *)
(* holds its queries together.                                             *)
(***************************************************************************)
EXTENDS MySqlExtract, FiniteSetTheorems, TLAPS

Phases == {"idle", "read", "shows", "rows", "done", "failed"}

\* The connections on loan are those of the open lists.
LoanInv ==
    /\ owner \in [Conns -> {{}} \cup {{p} : p \in Procs}]
    /\ phase \in [Procs -> Phases]
    /\ ConnectionsAreReturned

\* A step that lends nothing and gives nothing back keeps the loans right when it
\* leaves the set of goroutines that read a list's rows as it is.
LEMMA SameLoans ==
    ASSUME LoanInv, NEW p \in Procs, NEW s \in Phases,
           owner' = owner, phase' = [phase EXCEPT ![p] = s],
           phase[p] = "rows" <=> s = "rows"
    PROVE  LoanInv'
    <1>1. \A q \in Procs : phase'[q] = "rows" <=> phase[q] = "rows"
        BY DEF LoanInv
    <1>2. phase' \in [Procs -> Phases]
        BY DEF LoanInv
    <1>3. ConnectionsAreReturned'
        BY <1>1 DEF LoanInv, ConnectionsAreReturned, Held
    <1> QED
        BY <1>2, <1>3 DEF LoanInv

\* Giving back what a goroutine holds, and leaving the list it reads, if any.
LEMMA Returned ==
    ASSUME LoanInv, NEW p \in Procs, NEW s \in Phases \ {"rows"},
           owner' = Released(p), phase' = [phase EXCEPT ![p] = s]
    PROVE  LoanInv'
    <1>1. /\ owner' \in [Conns -> {{}} \cup {{q} : q \in Procs}]
          /\ phase' \in [Procs -> Phases]
        BY DEF LoanInv, Released
    <1>2. \A c \in Conns : ~Held(p, c)'
        BY DEF LoanInv, Released, Held
    <1>3. ASSUME NEW q \in Procs \ {p}
          PROVE  /\ phase'[q] = phase[q]
                 /\ \A c \in Conns : Held(q, c)' <=> Held(q, c)
        BY <1>3 DEF LoanInv, Released, Held
    <1>4. phase'[p] # "rows"
        BY DEF LoanInv
    <1>5. ConnectionsAreReturned'
        <2> SUFFICES ASSUME NEW q \in Procs
                     PROVE  /\ phase'[q] = "rows" => \E c \in Conns : Held(q, c)'
                            /\ \A c, d \in Conns : Held(q, c)' /\ Held(q, d)' => c = d
                            /\ phase'[q] # "rows" => \A c \in Conns : ~Held(q, c)'
            BY DEF ConnectionsAreReturned, Held
        <2>1. CASE q = p
            BY <2>1, <1>2, <1>4
        <2>2. CASE q # p
            BY <2>2, <1>3 DEF LoanInv, ConnectionsAreReturned
        <2> QED
            BY <2>1, <2>2
    <1> QED
        BY <1>1, <1>5 DEF LoanInv

\* Opening a list borrows one connection.
LEMMA Lent ==
    ASSUME LoanInv, NEW p \in Procs, NEW query, NEW kinds,
           ListWhileShowing(p, query, kinds)
    PROVE  LoanInv'
    <1>1. PICK b \in Conns : Free(b) /\ owner' = [owner EXCEPT ![b] = {p}]
        BY DEF ListWhileShowing
    <1>2. phase[p] = "read" /\ phase' = [phase EXCEPT ![p] = "rows"]
        BY DEF ListWhileShowing
    <1>3. /\ owner' \in [Conns -> {{}} \cup {{q} : q \in Procs}]
          /\ phase' \in [Procs -> Phases]
        BY <1>1, <1>2 DEF LoanInv, Phases
    <1>4. \A c \in Conns : Held(p, c)' <=> c = b
        BY <1>1, <1>2 DEF LoanInv, ConnectionsAreReturned, Held, Free
    <1>5. phase'[p] = "rows"
        BY <1>2 DEF LoanInv
    <1>6. ASSUME NEW q \in Procs \ {p}
          PROVE  /\ phase'[q] = phase[q]
                 /\ \A c \in Conns : Held(q, c)' <=> Held(q, c)
        BY <1>1, <1>2, <1>6 DEF LoanInv, Held, Free
    <1>7. ConnectionsAreReturned'
        <2> SUFFICES ASSUME NEW q \in Procs
                     PROVE  /\ phase'[q] = "rows" => \E c \in Conns : Held(q, c)'
                            /\ \A c, d \in Conns : Held(q, c)' /\ Held(q, d)' => c = d
                            /\ phase'[q] # "rows" => \A c \in Conns : ~Held(q, c)'
            BY DEF ConnectionsAreReturned, Held
        <2>1. CASE q = p
            BY <2>1, <1>4, <1>5
        <2>2. CASE q # p
            BY <2>2, <1>6 DEF LoanInv, ConnectionsAreReturned
        <2> QED
            BY <2>1, <2>2
    <1> QED
        BY <1>3, <1>7 DEF LoanInv

\* The other steps of a call keep the loans.
LEMMA CallKeepsLoans ==
    ASSUME LoanInv, NEW p \in Procs, CallStep(p)
    PROVE  LoanInv'
    <1>1. ASSUME NEW query, NEW rows, Query(p, query, rows)
          PROVE  LoanInv'
        BY <1>1 DEF Query, LoanInv, ConnectionsAreReturned, Held
    <1>2. ASSUME NEW query, NEW kinds, NEW show, ListThenShow(p, query, kinds, show)
          PROVE  LoanInv'
        BY <1>2, SameLoans DEF ListThenShow, Phases
    <1>3. ASSUME NEW o, NEW v, Shown(p, o, v)
          PROVE  LoanInv'
        BY <1>3 DEF Shown, LoanInv, ConnectionsAreReturned, Held
    <1>11. ASSUME NEW o, ShownAsNull(p, o)
           PROVE  LoanInv'
        BY <1>11 DEF ShownAsNull, LoanInv, ConnectionsAreReturned, Held
    <1>4. CASE FinishRows(p)
        BY <1>4, Returned DEF FinishRows, Phases
    <1>5. CASE GetDatabase(p)
        <2>1. PICK s \in {"failed", "done"} : phase' = [phase EXCEPT ![p] = s]
            BY <1>5 DEF GetDatabase
        <2>2. owner' = owner /\ phase[p] = "read"
            BY <1>5 DEF GetDatabase
        <2> QED
            BY <2>1, <2>2, SameLoans DEF Phases
    <1>6. CASE FailMissing(p)
        BY <1>6, Returned DEF FailMissing, ReturnError, Phases
    <1>7. CASE GetEvents(p) \/ GetRoutines(p)
        BY <1>7, Lent DEF GetEvents, GetRoutines
    <1>8. CASE GetViews(p) \/ GetPartitions(p)
        BY <1>8, <1>2 DEF GetViews, GetPartitions
    <1>9. CASE ReconcileViewDefinition(p) \/ GetCreateStmt(p) \/ GetPartitionDefaults(p)
        BY <1>9, <1>3, <1>11 DEF ReconcileViewDefinition, GetCreateStmt, GetPartitionDefaults
    <1>10. CASE GetIndexes(p) \/ GetColumns(p) \/ GetCheckConstraints(p) \/ GetTriggers(p)
                \/ GetForeignKeys(p) \/ GetForeignKeyColumns(p) \/ GetTables(p)
        BY <1>10, <1>1 DEF GetIndexes, GetColumns, GetCheckConstraints, GetTriggers,
                           GetForeignKeys, GetForeignKeyColumns, GetTables
    <1> QED
        BY <1>4, <1>5, <1>6, <1>7, <1>8, <1>9, <1>10 DEF CallStep

LEMMA LoansInitially == Init => LoanInv
    BY DEF Init, LoanInv, ConnectionsAreReturned, Held, Phases

LEMMA LoansKept == LoanInv /\ [Next]_vars => LoanInv'
    <1> SUFFICES ASSUME LoanInv, [Next]_vars
                 PROVE  LoanInv'
        OBVIOUS
    <1>1. ASSUME NEW p \in Procs, GetVersion(p)
          PROVE  LoanInv'
        BY <1>1, SameLoans DEF GetVersion, Phases
    <1>2. ASSUME NEW p \in Procs, CallStep(p)
          PROVE  LoanInv'
        BY <1>2, CallKeepsLoans
    <1>3. ASSUME NEW p \in Procs, FailStatement(p)
          PROVE  LoanInv'
        BY <1>3, Returned DEF FailStatement, ReturnError, Phases
    <1>4. CASE \/ \E p \in Procs : RefusePartitionDefaults(p)
               \/ ChangeCatalog \/ DropDatabase \/ UNCHANGED vars
        BY <1>4 DEF RefusePartitionDefaults, ChangeCatalog, DropDatabase, vars, LoanInv,
                    ConnectionsAreReturned, Held
    <1> QED
        BY <1>1, <1>2, <1>3, <1>4 DEF Next

\* Every goroutine holds the connection of the list it reads and no other, after every
\* return and on every error path (extractor.go 749-794, 1085-1152).
THEOREM NoConnectionIsLost == Spec => []ConnectionsAreReturned
    <1>1. LoanInv => ConnectionsAreReturned
        BY DEF LoanInv
    <1> QED
        BY <1>1, LoansInitially, LoansKept, PTL DEF Spec

\* A pool with more connections than goroutines always has one left: the nested
\* queries of getEvents and getRoutines cannot wait for each other for ever.
THEOREM OneConnectionIsLeft == Spec => []PoolNeverExhausted
    <1>1. LoanInv => PoolNeverExhausted
        <2> SUFFICES ASSUME LoanInv, Cardinality(Conns) > Cardinality(Procs),
                            \A c \in Conns : owner[c] # {}
                     PROVE  FALSE
            BY DEF PoolNeverExhausted, ConnectionIsFree, Free
        <2> DEFINE borrower == [c \in Conns |-> CHOOSE p \in Procs : owner[c] = {p}]
        <2>1. \A c \in Conns : borrower[c] \in Procs /\ owner[c] = {borrower[c]}
            BY DEF LoanInv
        <2>2. borrower \in [Conns -> Procs]
            BY <2>1
        <2>3. Cardinality(Procs) < Cardinality(Conns)
            BY PoolAssumption, FS_CardinalityType
        <2>4. PICK c, d \in Conns : c # d /\ borrower[c] = borrower[d]
            <3> HIDE DEF borrower
            <3> QED
                BY <2>2, <2>3, PoolAssumption, FS_PigeonHole
        <2> QED
            BY <2>1, <2>4 DEF LoanInv, ConnectionsAreReturned, Held
    <1> QED
        BY <1>1, LoansInitially, LoansKept, PTL DEF Spec
-----------------------------------------------------------------------------
(***************************************************************************)
(* What a call has read.                                                   *)
(***************************************************************************)
AllQueries == ToSet(Queries) \cup {"show"}

KindsOf(query) ==
    CASE query \in {"indexes", "checks", "triggers", "fks", "fkcolumns", "partitions"}
            -> {"table"}
      [] query \in {"columns", "tables"} -> {"table", "view"}
      [] query = "views" -> {"view"}
      [] query = "events" -> {"event"}
      [] query = "routines" -> {"function", "procedure"}

\* The lists some of whose rows are followed by a SHOW CREATE, and those objects.
Lists == {"views", "events", "partitions", "routines"}
ShownOf(query) == IF query = "partitions" THEN Partitioned ELSE Objects

\* The position of the list that is followed by the SHOW CREATE of an object; past
\* the last query for a table without partitions.
ShowPos(o) ==
    CASE KindOf[o] = "view" -> 4
      [] KindOf[o] = "event" -> 6
      [] o \in Partitioned -> 9
      [] KindOf[o] \in {"function", "procedure"} -> 10
      [] OTHER -> 13

\* What a query returns of an object at this moment.
Selected(query, o) ==
    IF query = "checks" /\ o \in Homonyms /\ catalog[o] # 0 THEN Mixed
    ELSE IF KindOf[o] \in KindsOf(query) THEN catalog[o] ELSE 0

\* The queries whose rows a call has.
Passed(p, i) == i < step[p] \/ (i = step[p] /\ phase[p] \in {"shows", "rows"})
Active(p) == phase[p] \in {"read", "shows", "rows", "done"}

TypeInv ==
    /\ catalog \in [Objects -> 0..MaxVersion]
    /\ dropped \in BOOLEAN
    /\ owner \in [Conns -> {{}} \cup {{p} : p \in Procs}]
    /\ phase \in [Procs -> Phases]
    /\ step \in [Procs -> 1..12]
    /\ pending \in [Procs -> SUBSET Objects]
    /\ refused \in [Procs -> SUBSET Refusable]
    /\ touched \in [Procs -> SUBSET Objects]
    /\ seen \in [Procs -> [AllQueries -> [Objects -> 0..Mixed]]]
    /\ failures \in Nat

\* The position in the queries and the phase agree.
StepInv(p) ==
    /\ phase[p] = "shows" => step[p] \in {4, 9}
    /\ phase[p] = "rows" => step[p] \in {6, 10}
    /\ phase[p] = "done" => step[p] = 12
    /\ phase[p] \notin {"shows", "rows"} => pending[p] = {}

\* What a call has read of an object nobody touched is what it would read now.
ReadIsCurrent(p) ==
    Active(p) => \A i \in 1..11 : \A o \in Objects \ touched[p] :
        Passed(p, i) => seen[p][Queries[i]][o] = Selected(Queries[i], o)

\* What the SHOW CREATE of an object left: nothing before it ran, and after it the
\* definition of every row, the current one if nobody touched the object, or a refusal.
ShownIsCurrent(p) ==
    Active(p) => \A o \in Objects :
        /\ o \in pending[p] => step[p] = ShowPos(o) /\ seen[p][Queries[step[p]]][o] # 0
        /\ ~Passed(p, ShowPos(o)) \/ o \in pending[p] =>
                seen[p]["show"][o] = 0 /\ o \notin refused[p]
        /\ Passed(p, ShowPos(o)) /\ o \notin pending[p] =>
            /\ o \notin touched[p] \cup refused[p] => seen[p]["show"][o] = catalog[o]
            /\ KindOf[o] # "table" /\ seen[p][Queries[ShowPos(o)]][o] # 0
                    => (seen[p]["show"][o] = 0 <=> o \in refused[p])

CallInv(p) == StepInv(p) /\ ReadIsCurrent(p) /\ ShownIsCurrent(p)
ExactInv == TypeInv /\ \A p \in Procs : CallInv(p)

LEMMA QueriesAre ==
    /\ Len(Queries) = 12
    /\ Queries[1] = "indexes" /\ Queries[2] = "columns" /\ Queries[3] = "checks"
    /\ Queries[4] = "views" /\ Queries[5] = "triggers" /\ Queries[6] = "events"
    /\ Queries[7] = "fks" /\ Queries[8] = "fkcolumns" /\ Queries[9] = "partitions"
    /\ Queries[10] = "routines" /\ Queries[11] = "tables" /\ Queries[12] = "database"
    /\ \A i \in 1..12 : Queries[i] \in ToSet(Queries) /\ Queries[i] # "show"
    /\ \A q \in ToSet(Queries) : \E i \in 1..12 : Queries[i] = q
    /\ \A i, j \in 1..12 : Queries[i] = Queries[j] => i = j
    <1>1. Len(Queries) = 12 /\ DOMAIN Queries = 1..12
        BY DEF Queries
    <1>2. \A i \in 1..12 : i = 1 \/ i = 2 \/ i = 3 \/ i = 4 \/ i = 5 \/ i = 6 \/ i = 7
                            \/ i = 8 \/ i = 9 \/ i = 10 \/ i = 11 \/ i = 12
        OBVIOUS
    <1>3. /\ Queries[1] = "indexes" /\ Queries[2] = "columns" /\ Queries[3] = "checks"
          /\ Queries[4] = "views" /\ Queries[5] = "triggers" /\ Queries[6] = "events"
          /\ Queries[7] = "fks" /\ Queries[8] = "fkcolumns" /\ Queries[9] = "partitions"
          /\ Queries[10] = "routines" /\ Queries[11] = "tables" /\ Queries[12] = "database"
        BY DEF Queries
    <1>4. \A i \in 1..12 : Queries[i] # "show"
        BY <1>2, <1>3
    <1>5. ASSUME NEW i \in 1..12, NEW j \in 1..12, Queries[i] = Queries[j]
          PROVE  i = j
        BY <1>2, <1>3, <1>5
    <1> QED
        BY <1>1, <1>3, <1>4, <1>5 DEF ToSet

LEMMA NoRowsTyped ==
    /\ NoRows \in [AllQueries -> [Objects -> 0..Mixed]]
    /\ \A q \in AllQueries, o \in Objects : NoRows[q][o] = 0
    BY CatalogsAssumption DEF NoRows, AllQueries, Mixed

LEMMA ExactInitially == Init => ExactInv
    <1> SUFFICES ASSUME Init PROVE ExactInv
        OBVIOUS
    <1>1. TypeInv
        <2>1. /\ catalog \in [Objects -> 0..MaxVersion] /\ 1 \in 1..12
              /\ seen \in [Procs -> [AllQueries -> [Objects -> 0..Mixed]]]
            BY NoRowsTyped, CatalogsAssumption DEF Init
        <2> QED
            BY <2>1 DEF Init, TypeInv, Phases
    <1>2. \A p \in Procs : CallInv(p)
        BY DEF Init, CallInv, StepInv, ReadIsCurrent, ShownIsCurrent, Active
    <1> QED
        BY <1>1, <1>2 DEF ExactInv

\* A step of another goroutine, or of none, that leaves the catalog alone.
LEMMA OthersKept ==
    ASSUME NEW q \in Procs, CallInv(q), catalog' = catalog,
           phase'[q] = phase[q], step'[q] = step[q], pending'[q] = pending[q],
           seen'[q] = seen[q], refused'[q] = refused[q], touched'[q] = touched[q]
    PROVE  CallInv(q)'
    <1>1. StepInv(q)' <=> StepInv(q)
        BY DEF StepInv
    <1>2. (\A i : Passed(q, i)' <=> Passed(q, i)) /\ (Active(q)' <=> Active(q))
        BY DEF Passed, Active
    <1>3. ReadIsCurrent(q)'
        BY <1>2 DEF CallInv, ReadIsCurrent, Selected
    <1>4. ShownIsCurrent(q)'
        BY <1>2 DEF CallInv, ShownIsCurrent, ShowPos
    <1> QED
        BY <1>1, <1>3, <1>4 DEF CallInv

\* A list is read: with the SHOW CREATE statements of its rows still to come, if it has any.
Reading(p, query) ==
    /\ phase[p] = "read" /\ Queries[step[p]] = query /\ query # "database"
    /\ seen' = [seen EXCEPT ![p][query] = [o \in Objects |-> Selected(query, o)]]
    /\ UNCHANGED <<catalog, dropped, refused, touched, failures>>
    /\ \/ /\ query \notin Lists
          /\ step' = [step EXCEPT ![p] = @ + 1]
          /\ UNCHANGED <<owner, phase, pending>>
       \/ /\ query \in Lists
          /\ pending' = [pending EXCEPT ![p] = {o \in Objects : Selected(query, o) # 0}
                                                    \cap ShownOf(query)]
          /\ \/ /\ query \in {"views", "partitions"} /\ owner' = owner
                /\ phase' = [phase EXCEPT ![p] = "shows"]
             \/ /\ query \in {"events", "routines"}
                /\ \E c \in Conns : owner' = [owner EXCEPT ![c] = {p}]
                /\ phase' = [phase EXCEPT ![p] = "rows"]
          /\ step' = step

\* The steps of a call that read a list.
ListStep(p) ==
    \/ GetIndexes(p) \/ GetColumns(p) \/ GetCheckConstraints(p) \/ GetViews(p)
    \/ GetTriggers(p) \/ GetEvents(p) \/ GetForeignKeys(p) \/ GetForeignKeyColumns(p)
    \/ GetPartitions(p) \/ GetRoutines(p) \/ GetTables(p)

LEMMA EveryList ==
    ASSUME NEW p \in Procs, ListStep(p)
    PROVE  \E query : Reading(p, query)
    <1>1. ASSUME NEW query, NEW rows, rows = [o \in Objects |-> Selected(query, o)],
                 query \notin Lists, query # "database", Query(p, query, rows)
          PROVE  Reading(p, query)
        BY <1>1 DEF Query, Reading, server
    <1> DEFINE Plain(query) == Rows(KindsOf(query)) = [o \in Objects |-> Selected(query, o)]
    <1>14. \A query : query # "checks" => Plain(query)
        BY DEF Rows, Selected
    <1>15. \A query : query # "checks" =>
                Listed(KindsOf(query)) = {o \in Objects : Selected(query, o) # 0}
        BY DEF Rows, Listed, Selected
    <1>2. ASSUME NEW query, NEW kinds, kinds = KindsOf(query), query \in {"views", "partitions"},
                 ListThenShow(p, query, kinds, ShownOf(query))
          PROVE  Reading(p, query)
        <2>1. /\ Rows(kinds) = [o \in Objects |-> Selected(query, o)]
              /\ Listed(kinds) = {o \in Objects : Selected(query, o) # 0}
            BY <1>2, <1>14, <1>15
        <2> QED
            BY <1>2, <2>1 DEF ListThenShow, Reading, Lists, server
    <1>3. ASSUME NEW query, NEW kinds, kinds = KindsOf(query), query \in {"events", "routines"},
                 ListWhileShowing(p, query, kinds)
          PROVE  Reading(p, query)
        <2>1. Listed(kinds) \cap ShownOf(query) = Listed(kinds)
            BY <1>3 DEF Listed, ShownOf
        <2>2. /\ Rows(kinds) = [o \in Objects |-> Selected(query, o)]
              /\ Listed(kinds) = {o \in Objects : Selected(query, o) # 0}
            BY <1>3, <1>14, <1>15
        <2> QED
            BY <1>3, <2>1, <2>2 DEF ListWhileShowing, Reading, Lists, server
    <1>4. CASE GetIndexes(p)
        BY <1>1, <1>14, <1>4 DEF GetIndexes, KindsOf, Lists
    <1>5. CASE GetColumns(p)
        BY <1>1, <1>14, <1>5 DEF GetColumns, KindsOf, Lists
    <1>6. CASE GetCheckConstraints(p)
        <2>1. ChecksFound = [o \in Objects |-> Selected("checks", o)]
            BY DEF ChecksFound, Rows, Selected, KindsOf
        <2> QED
            BY <1>1, <1>6, <2>1 DEF GetCheckConstraints, Lists
    <1>16. CASE GetForeignKeyColumns(p)
        BY <1>1, <1>14, <1>16 DEF GetForeignKeyColumns, KindsOf, Lists
    <1>7. CASE GetViews(p)
        BY <1>2, <1>7 DEF GetViews, KindsOf, ShownOf
    <1>8. CASE GetTriggers(p)
        BY <1>1, <1>14, <1>8 DEF GetTriggers, KindsOf, Lists
    <1>9. CASE GetEvents(p)
        BY <1>3, <1>9 DEF GetEvents, KindsOf
    <1>10. CASE GetForeignKeys(p)
        BY <1>1, <1>14, <1>10 DEF GetForeignKeys, KindsOf, Lists
    <1>11. CASE GetPartitions(p)
        BY <1>2, <1>11 DEF GetPartitions, KindsOf, ShownOf
    <1>12. CASE GetRoutines(p)
        BY <1>3, <1>12 DEF GetRoutines, KindsOf
    <1>13. CASE GetTables(p)
        BY <1>1, <1>14, <1>13 DEF GetTables, KindsOf, Lists
    <1> QED
        BY <1>4, <1>5, <1>6, <1>7, <1>8, <1>9, <1>10, <1>11, <1>12, <1>13,
           <1>16 DEF ListStep

\* The objects whose SHOW CREATE follows a list are those of its position.
LEMMA ShowPosIs ==
    ASSUME NEW o \in Objects
    PROVE  /\ ShowPos(o) \in {4, 6, 9, 10, 13}
           /\ ShowPos(o) = 4 <=> KindOf[o] \in KindsOf("views")
           /\ ShowPos(o) = 6 <=> KindOf[o] \in KindsOf("events")
           /\ ShowPos(o) = 9 <=> o \in Partitioned
           /\ ShowPos(o) = 10 <=> KindOf[o] \in KindsOf("routines")
           /\ ShowPos(o) = 13 => KindOf[o] = "table"
           /\ o \in Partitioned => KindOf[o] = "table"
           /\ KindsOf("partitions") = {"table"}
    <1>1. KindOf[o] \in Kinds /\ (o \in Partitioned => KindOf[o] = "table")
        BY ObjectsAssumption
    <1>2. /\ KindsOf("views") = {"view"} /\ KindsOf("events") = {"event"}
          /\ KindsOf("routines") = {"function", "procedure"} /\ KindsOf("partitions") = {"table"}
        BY DEF KindsOf
    <1> QED
        BY <1>1, <1>2 DEF ShowPos, Kinds

\* Reading a list passes one query more; what is pending are the rows to be shown.
LEMMA ReadingAdvances ==
    ASSUME ExactInv, NEW p \in Procs, NEW query, Reading(p, query)
    PROVE  /\ step[p] \in 1..11 /\ query \in AllQueries /\ query # "show"
           /\ phase'[p] \in {"read", "shows", "rows"} /\ StepInv(p)' /\ TypeInv'
           /\ \A i \in 1..13 : Passed(p, i)' <=> Passed(p, i) \/ i = step[p]
           /\ ~Passed(p, step[p])
           /\ \A o : o \in pending'[p] <=>
                /\ o \in Objects /\ ShowPos(o) = step[p] /\ Selected(query, o) # 0
           /\ pending'[p] # {} => step'[p] = step[p]
           /\ pending[p] = {}
           /\ \A o \in Objects : seen'[p][query][o] = Selected(query, o)
           /\ \A other \in AllQueries \ {query} : seen'[p][other] = seen[p][other]
           /\ \A q \in Procs \ {p} :
                /\ phase'[q] = phase[q] /\ step'[q] = step[q] /\ pending'[q] = pending[q]
                /\ seen'[q] = seen[q]
    <1> DEFINE rows == [o \in Objects |-> Selected(query, o)]
    <1>1. /\ TypeInv /\ StepInv(p)
          /\ seen \in [Procs -> [AllQueries -> [Objects -> 0..Mixed]]]
        BY DEF ExactInv, TypeInv, CallInv
    <1>2. /\ phase[p] = "read" /\ Queries[step[p]] = query /\ query # "database"
          /\ seen' = [seen EXCEPT ![p][query] = rows]
          /\ UNCHANGED <<catalog, dropped, refused, touched, failures>>
        BY DEF Reading
    <1>3. step[p] \in 1..11 /\ pending[p] = {}
        BY <1>1, <1>2, QueriesAre DEF TypeInv, StepInv
    <1>4. query \in AllQueries /\ query # "show"
        BY <1>2, <1>3, QueriesAre DEF AllQueries
    <1>5. rows \in [Objects -> 0..Mixed] /\ \A o \in Objects : rows[o] = Selected(query, o)
        BY <1>1, CatalogsAssumption DEF Selected, Mixed, TypeInv
    <1> HIDE DEF rows
    <1>6. /\ seen' \in [Procs -> [AllQueries -> [Objects -> 0..Mixed]]]
          /\ seen'[p][query] = rows
          /\ \A other \in AllQueries \ {query} : seen'[p][other] = seen[p][other]
          /\ \A q \in Procs \ {p} : seen'[q] = seen[q]
        BY <1>1, <1>2, <1>4, <1>5
    <1>8. ~Passed(p, step[p])
        BY <1>2, <1>3 DEF Passed
    <1>9. CASE query \notin Lists
        <2>1. step' = [step EXCEPT ![p] = step[p] + 1] /\ UNCHANGED <<owner, phase, pending>>
            BY <1>9 DEF Reading
        <2>2. /\ step' \in [Procs -> 1..12] /\ step'[p] = step[p] + 1
              /\ \A q \in Procs \ {p} : step'[q] = step[q]
            BY <1>1, <1>3, <2>1, QueriesAre DEF TypeInv
        <2>3. step[p] \notin {4, 6, 9, 10, 13}
            BY <1>2, <1>3, <1>9, QueriesAre DEF Lists
        <2>4. \A o \in Objects : ShowPos(o) # step[p]
            BY <2>3, ShowPosIs
        <2>5. TypeInv'
            BY <1>1, <1>2, <1>6, <2>1, <2>2 DEF TypeInv
        <2>6. \A i \in 1..13 : Passed(p, i)' <=> Passed(p, i) \/ i = step[p]
            BY <1>2, <1>3, <2>1, <2>2 DEF Passed
        <2>7. StepInv(p)'
            BY <1>2, <1>3, <2>1 DEF StepInv
        <2> QED
            BY <1>2, <1>3, <1>4, <1>5, <1>6, <1>8, <2>1, <2>2, <2>4, <2>5, <2>6, <2>7
    <1>10. CASE query \in Lists
        <2>1. /\ pending' = [pending EXCEPT ![p] = {o \in Objects : Selected(query, o) # 0}
                                                        \cap ShownOf(query)]
              /\ step' = step
              /\ phase' = [phase EXCEPT ![p] = IF query \in {"views", "partitions"}
                                               THEN "shows" ELSE "rows"]
              /\ owner' = owner \/ \E c \in Conns : owner' = [owner EXCEPT ![c] = {p}]
            BY <1>10 DEF Reading
        <2>2. /\ phase' \in [Procs -> Phases]
              /\ phase'[p] = IF query \in {"views", "partitions"} THEN "shows" ELSE "rows"
              /\ \A q \in Procs \ {p} : phase'[q] = phase[q]
            BY <1>1, <2>1 DEF TypeInv, Phases
        <2>3. /\ pending' \in [Procs -> SUBSET Objects]
              /\ pending'[p] = {o \in Objects : Selected(query, o) # 0} \cap ShownOf(query)
              /\ \A q \in Procs \ {p} : pending'[q] = pending[q]
            BY <1>1, <2>1 DEF TypeInv
        <2>4. owner' \in [Conns -> {{}} \cup {{q} : q \in Procs}]
            BY <1>1, <2>1 DEF TypeInv
        <2>5. TypeInv'
            BY <1>1, <1>2, <1>6, <2>1, <2>2, <2>3, <2>4 DEF TypeInv
        <2>6. step[p] \in {4, 6, 9, 10} /\ (query \in {"views", "partitions"} <=> step[p] \in {4, 9})
            BY <1>2, <1>3, <1>10, QueriesAre DEF Lists
        <2>7. ASSUME NEW o \in Objects
              PROVE  o \in pending'[p] <=> ShowPos(o) = step[p] /\ Selected(query, o) # 0
            <3>1. CASE query = "partitions"
                BY <1>2, <1>3, <2>3, <3>1, ShowPosIs, QueriesAre DEF ShownOf
            <3>2. CASE query # "partitions"
                <4>1. Selected(query, o) # 0 => KindOf[o] \in KindsOf(query)
                    BY <1>10 DEF Selected, Lists
                <4>2. KindOf[o] \in KindsOf(query) <=> ShowPos(o) = step[p]
                    BY <1>2, <2>6, <3>2, ShowPosIs, QueriesAre
                <4> QED
                    BY <2>3, <3>2, <4>1, <4>2 DEF ShownOf
            <3> QED
                BY <3>1, <3>2
        <2>8. \A i \in 1..13 : Passed(p, i)' <=> Passed(p, i) \/ i = step[p]
            BY <1>2, <1>3, <2>1, <2>2 DEF Passed
        <2>9. StepInv(p)'
            BY <2>1, <2>2, <2>6 DEF StepInv
        <2>10. pending'[p] \subseteq Objects
            BY <2>3
        <2> QED
            BY <1>2, <1>3, <1>4, <1>5, <1>6, <1>8, <2>1, <2>2, <2>3, <2>5, <2>7, <2>8, <2>9, <2>10
    <1> QED
        BY <1>9, <1>10

LEMMA ListIsExact ==
    ASSUME ExactInv, NEW p \in Procs, NEW query, Reading(p, query)
    PROVE  TypeInv' /\ \A q \in Procs : CallInv(q)'
    <1> DEFINE n == step[p]
    <1>1. /\ TypeInv /\ StepInv(p) /\ ReadIsCurrent(p) /\ ShownIsCurrent(p)
          /\ phase[p] = "read" /\ Queries[n] = query
          /\ UNCHANGED <<catalog, refused, touched>>
        BY DEF ExactInv, CallInv, Reading
    <1>2. Active(p) /\ n \in 1..11
        BY <1>1, ReadingAdvances DEF Active
    <1>3. /\ \A i \in 1..13 : Passed(p, i)' <=> Passed(p, i) \/ i = n
          /\ ~Passed(p, n) /\ pending[p] = {} /\ StepInv(p)' /\ TypeInv'
          /\ \A o : o \in pending'[p] <=>
                o \in Objects /\ ShowPos(o) = n /\ Selected(query, o) # 0
          /\ pending'[p] # {} => step'[p] = n
          /\ \A o \in Objects : seen'[p][query][o] = Selected(query, o)
          /\ query \in AllQueries /\ query # "show"
          /\ \A other \in AllQueries \ {query} : seen'[p][other] = seen[p][other]
        BY ReadingAdvances
    <1>4. \A i \in 1..11 : i # n => seen'[p][Queries[i]] = seen[p][Queries[i]]
        <2> SUFFICES ASSUME NEW i \in 1..11, i # n
                     PROVE  seen'[p][Queries[i]] = seen[p][Queries[i]]
            OBVIOUS
        <2>1. Queries[i] \in AllQueries /\ Queries[i] # query
            BY <1>1, <1>2, QueriesAre DEF AllQueries
        <2> QED
            BY <1>3, <2>1
    <1>5. seen'[p]["show"] = seen[p]["show"]
        BY <1>3 DEF AllQueries
    <1> HIDE DEF n
    <1>6. ReadIsCurrent(p)'
        <2> SUFFICES ASSUME NEW i \in 1..11, NEW o \in Objects \ touched[p], Passed(p, i)'
                     PROVE  seen'[p][Queries[i]][o] = Selected(Queries[i], o)
            BY <1>1 DEF ReadIsCurrent, Selected
        <2>1. CASE i = n
            BY <1>1, <1>3, <2>1
        <2>2. CASE i # n
            <3>1. Passed(p, i)
                BY <1>3, <2>2
            <3> QED
                BY <1>1, <1>2, <1>4, <2>2, <3>1 DEF ReadIsCurrent
        <2> QED
            BY <2>1, <2>2
    <1>7. ShownIsCurrent(p)'
        <2> SUFFICES ASSUME NEW o \in Objects
                     PROVE
            /\ o \in pending'[p] => step'[p] = ShowPos(o) /\ seen'[p][Queries[step'[p]]][o] # 0
            /\ ~Passed(p, ShowPos(o))' \/ o \in pending'[p] =>
                    seen'[p]["show"][o] = 0 /\ o \notin refused[p]
            /\ Passed(p, ShowPos(o))' /\ o \notin pending'[p] =>
                /\ o \notin touched[p] \cup refused[p] => seen'[p]["show"][o] = catalog[o]
                /\ KindOf[o] # "table" /\ seen'[p][Queries[ShowPos(o)]][o] # 0
                        => (seen'[p]["show"][o] = 0 <=> o \in refused[p])
            BY <1>1 DEF ShownIsCurrent, ShowPos, Passed
        <2>1. ShowPos(o) \in 1..13 /\ (ShowPos(o) = 13 \/ ShowPos(o) \in 1..11)
            BY ShowPosIs
        <2>2. /\ ~Passed(p, ShowPos(o)) => seen[p]["show"][o] = 0 /\ o \notin refused[p]
              /\ Passed(p, ShowPos(o)) =>
                    /\ o \notin touched[p] \cup refused[p] => seen[p]["show"][o] = catalog[o]
                    /\ KindOf[o] # "table" /\ seen[p][Queries[ShowPos(o)]][o] # 0
                            => (seen[p]["show"][o] = 0 <=> o \in refused[p])
            BY <1>1, <1>2, <1>3 DEF ShownIsCurrent
        <2>3. CASE ShowPos(o) = n
            <3>1. seen'[p]["show"][o] = 0 /\ o \notin refused[p] /\ Passed(p, ShowPos(o))'
                BY <1>3, <1>5, <2>1, <2>2, <2>3
            <3>2. o \in pending'[p] <=> Selected(query, o) # 0
                BY <1>3, <2>3
            <3>3. seen'[p][query][o] = Selected(query, o)
                BY <1>3
            <3>4. Selected(query, o) = catalog[o]
                <4>1. KindOf[o] \in KindsOf(query) /\ query # "checks"
                    BY <1>1, <1>2, <2>3, ShowPosIs, QueriesAre
                <4> QED
                    BY <4>1 DEF Selected
            <3> QED
                BY <1>1, <1>3, <2>3, <3>1, <3>2, <3>3, <3>4
        <2>4. CASE ShowPos(o) # n
            <3>1. o \notin pending'[p] /\ (Passed(p, ShowPos(o))' <=> Passed(p, ShowPos(o)))
                BY <1>3, <2>1, <2>4
            <3>2. KindOf[o] # "table" => ShowPos(o) \in 1..11
                BY <2>1, ShowPosIs
            <3> QED
                BY <1>4, <1>5, <2>2, <2>4, <3>1, <3>2
        <2> QED
            BY <2>3, <2>4
    <1>8. ASSUME NEW q \in Procs \ {p}
          PROVE  CallInv(q)'
        BY <1>1, ReadingAdvances, OthersKept DEF ExactInv
    <1> QED
        BY <1>3, <1>6, <1>7, <1>8 DEF CallInv

\* One SHOW CREATE: of an object nobody touched it reads the current version, and of an
\* object that is not a table never none.
LEMMA ShowIsExact ==
    ASSUME ExactInv, NEW p \in Procs, phase[p] \in {"shows", "rows"},
           NEW o \in pending[p], NEW v \in 0..Mixed, Shown(p, o, v),
           o \notin touched[p] => v = catalog[o],
           KindOf[o] # "table" => v # 0
    PROVE  TypeInv' /\ \A q \in Procs : CallInv(q)'
    <1>1. /\ TypeInv /\ StepInv(p) /\ ReadIsCurrent(p) /\ ShownIsCurrent(p)
        BY DEF ExactInv, CallInv
    <1>2. /\ seen' = [seen EXCEPT ![p]["show"][o] = v]
          /\ pending' = [pending EXCEPT ![p] = pending[p] \ {o}]
          /\ UNCHANGED <<catalog, dropped, owner, phase, step, refused, touched, failures>>
        BY DEF Shown, server
    <1>3. o \in Objects /\ "show" \in AllQueries
        BY <1>1 DEF TypeInv, AllQueries
    <1>4. /\ seen' \in [Procs -> [AllQueries -> [Objects -> 0..Mixed]]]
          /\ seen'[p]["show"][o] = v
          /\ \A m \in Objects \ {o} : seen'[p]["show"][m] = seen[p]["show"][m]
          /\ \A other \in AllQueries \ {"show"} : seen'[p][other] = seen[p][other]
          /\ \A q \in Procs \ {p} : seen'[q] = seen[q]
        BY <1>1, <1>2, <1>3 DEF TypeInv
    <1>5. /\ pending' \in [Procs -> SUBSET Objects]
          /\ pending'[p] = pending[p] \ {o}
          /\ \A q \in Procs \ {p} : pending'[q] = pending[q]
        BY <1>1, <1>2 DEF TypeInv
    <1>6. TypeInv'
        BY <1>1, <1>2, <1>4, <1>5 DEF TypeInv
    <1>7. \A i \in 1..12 : seen'[p][Queries[i]] = seen[p][Queries[i]]
        BY <1>4, QueriesAre DEF AllQueries
    <1>8. /\ Active(p) /\ Active(p)' /\ StepInv(p)'
          /\ \A i : Passed(p, i)' <=> Passed(p, i)
        BY <1>1, <1>2 DEF Active, Passed, StepInv
    <1>9. ReadIsCurrent(p)'
        BY <1>1, <1>2, <1>7, <1>8 DEF ReadIsCurrent, Selected
    <1>10. step[p] \in 1..12
        BY <1>1 DEF TypeInv
    <1>11. ShownIsCurrent(p)'
        <2> SUFFICES ASSUME NEW m \in Objects
                     PROVE
            /\ m \in pending'[p] => step[p] = ShowPos(m) /\ seen'[p][Queries[step[p]]][m] # 0
            /\ ~Passed(p, ShowPos(m)) \/ m \in pending'[p] =>
                    seen'[p]["show"][m] = 0 /\ m \notin refused[p]
            /\ Passed(p, ShowPos(m)) /\ m \notin pending'[p] =>
                /\ m \notin touched[p] \cup refused[p] => seen'[p]["show"][m] = catalog[m]
                /\ KindOf[m] # "table" /\ seen'[p][Queries[ShowPos(m)]][m] # 0
                        => (seen'[p]["show"][m] = 0 <=> m \in refused[p])
            BY <1>2, <1>8 DEF ShownIsCurrent, ShowPos
        <2>1. KindOf[m] # "table" => ShowPos(m) \in 1..12
            BY ShowPosIs
        <2>2. CASE m = o
            <3>1. Passed(p, ShowPos(o)) /\ o \notin refused[p]
                BY <1>1, <1>3, <1>8 DEF ShownIsCurrent, Passed
            <3> QED
                BY <1>4, <1>5, <2>2, <3>1
        <2>3. CASE m # o
            <3>1. seen'[p]["show"][m] = seen[p]["show"][m]
                  /\ (m \in pending'[p] <=> m \in pending[p])
                BY <1>4, <1>5, <2>3
            <3> QED
                BY <1>1, <1>7, <1>8, <1>10, <2>1, <3>1 DEF ShownIsCurrent
        <2> QED
            BY <2>2, <2>3
    <1>12. ASSUME NEW q \in Procs \ {p}
           PROVE  CallInv(q)'
        BY <1>2, <1>4, <1>5, OthersKept DEF ExactInv
    <1> QED
        BY <1>6, <1>8, <1>9, <1>11, <1>12 DEF CallInv

\* A SHOW CREATE that gives nothing leaves its object without what it would have given.
LEMMA RefusalIsExact ==
    ASSUME ExactInv, NEW p \in Procs, phase[p] \in {"shows", "rows"},
           NEW o \in pending[p] \cap Refusable,
           pending' = [pending EXCEPT ![p] = @ \ {o}],
           refused' = [refused EXCEPT ![p] = @ \cup {o}],
           UNCHANGED <<catalog, dropped, owner, phase, step, seen, touched>>,
           failures' \in Nat
    PROVE  TypeInv' /\ \A q \in Procs : CallInv(q)'
    <1>1. TypeInv /\ StepInv(p) /\ ReadIsCurrent(p) /\ ShownIsCurrent(p)
        BY DEF ExactInv, CallInv
    <1>2. /\ catalog' = catalog /\ phase' = phase /\ step' = step /\ seen' = seen
          /\ touched' = touched
        OBVIOUS
    <1>4. /\ pending' \in [Procs -> SUBSET Objects] /\ pending'[p] = pending[p] \ {o}
          /\ refused' \in [Procs -> SUBSET Refusable] /\ refused'[p] = refused[p] \cup {o}
          /\ \A q \in Procs \ {p} : pending'[q] = pending[q] /\ refused'[q] = refused[q]
        BY <1>1 DEF TypeInv
    <1>5. TypeInv'
        BY <1>1, <1>4 DEF TypeInv
    <1>6. /\ Active(p) /\ Active(p)' /\ StepInv(p)'
          /\ \A i : Passed(p, i)' <=> Passed(p, i)
        BY <1>1, <1>4 DEF Active, Passed, StepInv
    <1>7. ReadIsCurrent(p)'
        BY <1>1, <1>6 DEF ReadIsCurrent, Selected
    <1>8. ShownIsCurrent(p)'
        <2> SUFFICES ASSUME NEW m \in Objects
                     PROVE
            /\ m \in pending'[p] => step[p] = ShowPos(m) /\ seen[p][Queries[step[p]]][m] # 0
            /\ ~Passed(p, ShowPos(m)) \/ m \in pending'[p] =>
                    seen[p]["show"][m] = 0 /\ m \notin refused'[p]
            /\ Passed(p, ShowPos(m)) /\ m \notin pending'[p] =>
                /\ m \notin touched[p] \cup refused'[p] => seen[p]["show"][m] = catalog[m]
                /\ KindOf[m] # "table" /\ seen[p][Queries[ShowPos(m)]][m] # 0
                        => (seen[p]["show"][m] = 0 <=> m \in refused'[p])
            BY <1>2, <1>6 DEF ShownIsCurrent, ShowPos
        <2>1. /\ m \in pending[p] => step[p] = ShowPos(m) /\ seen[p][Queries[step[p]]][m] # 0
              /\ ~Passed(p, ShowPos(m)) \/ m \in pending[p] =>
                    seen[p]["show"][m] = 0 /\ m \notin refused[p]
              /\ Passed(p, ShowPos(m)) /\ m \notin pending[p] =>
                    /\ m \notin touched[p] \cup refused[p] => seen[p]["show"][m] = catalog[m]
                    /\ KindOf[m] # "table" /\ seen[p][Queries[ShowPos(m)]][m] # 0
                            => (seen[p]["show"][m] = 0 <=> m \in refused[p])
            BY <1>1, <1>6 DEF ShownIsCurrent
        <2>2. CASE m = o
            <3>1. Passed(p, ShowPos(o)) /\ seen[p]["show"][o] = 0
                BY <2>1, <2>2 DEF Passed
            <3> QED
                BY <1>4, <2>2, <3>1
        <2>3. CASE m # o
            <3>1. /\ m \in pending'[p] <=> m \in pending[p]
                  /\ m \in refused'[p] <=> m \in refused[p]
                BY <1>4, <2>3
            <3> QED
                BY <2>1, <3>1
        <2> QED
            BY <2>2, <2>3
    <1>9. ASSUME NEW q \in Procs \ {p}
          PROVE  CallInv(q)'
        BY <1>4, OthersKept DEF ExactInv
    <1> QED
        BY <1>5, <1>6, <1>7, <1>8, <1>9 DEF CallInv

\* What the three kinds of SHOW CREATE read.
LEMMA EveryShow ==
    ASSUME ExactInv, NEW p \in Procs,
           ReconcileViewDefinition(p) \/ GetCreateStmt(p) \/ GetPartitionDefaults(p)
    PROVE  TypeInv' /\ \A q \in Procs : CallInv(q)'
    <1>1. TypeInv /\ StepInv(p) /\ ReadIsCurrent(p) /\ ShownIsCurrent(p)
        BY DEF ExactInv, CallInv
    <1>2. \A o \in pending[p] : o \in Objects /\ catalog[o] \in 0..Mixed
        BY <1>1, CatalogsAssumption DEF TypeInv, Mixed
    <1>3. CASE ReconcileViewDefinition(p)
        <2>1. phase[p] = "shows" /\ Queries[step[p]] = "views"
            BY <1>3 DEF ReconcileViewDefinition
        <2>7. PICK o \in pending[p] :
                catalog[o] # 0 /\ \E v \in {catalog[o], seen[p]["views"][o]} : Shown(p, o, v)
            BY <1>3 DEF ReconcileViewDefinition
        <2>2. PICK v \in {catalog[o], seen[p]["views"][o]} : catalog[o] # 0 /\ Shown(p, o, v)
            BY <2>7
        <2>3. step[p] = 4 /\ Passed(p, 4) /\ Active(p)
            BY <1>1, <2>1, QueriesAre DEF StepInv, Passed, Active
        <2>4. ShowPos(o) = 4 /\ seen[p]["views"][o] # 0
            BY <1>1, <1>2, <2>1, <2>3 DEF ShownIsCurrent
        <2>5. o \notin touched[p] => seen[p]["views"][o] = catalog[o]
            <3>1. Selected("views", o) = catalog[o]
                BY <1>2, <2>4, ShowPosIs DEF Selected
            <3> QED
                BY <1>1, <1>2, <2>3, <3>1, QueriesAre DEF ReadIsCurrent
        <2>6. v \in 0..Mixed
            <3>1. "views" \in AllQueries
                BY QueriesAre DEF AllQueries
            <3> QED
                BY <1>1, <1>2, <2>2, <3>1 DEF TypeInv
        <2> QED
            BY <2>1, <2>2, <2>4, <2>5, <2>6, ShowIsExact
    <1>4. CASE GetCreateStmt(p)
        <2>1. PICK o \in pending[p] :
                catalog[o] # 0 /\ (Shown(p, o, catalog[o]) \/ ShownAsNull(p, o))
            BY <1>4 DEF GetCreateStmt
        <2>2. phase[p] = "rows"
            BY <1>4 DEF GetCreateStmt
        <2>3. CASE Shown(p, o, catalog[o])
            BY <1>2, <2>1, <2>2, <2>3, ShowIsExact
        <2>4. CASE ShownAsNull(p, o)
            <3>1. step[p] \in {6, 10}
                BY <1>1, <2>2 DEF StepInv
            <3>2. ShowPos(o) = step[p] /\ o \in Objects
                BY <1>1, <1>2, <2>2 DEF ShownIsCurrent, Active
            <3>3. o \in Refusable
                BY <3>1, <3>2, ShowPosIs DEF Refusable, KindsOf
            <3>4. UNCHANGED <<catalog, dropped, owner, phase, step, seen, touched, failures>>
                BY <2>4 DEF ShownAsNull, server
            <3>5. failures' \in Nat
                BY <1>1, <3>4 DEF TypeInv
            <3> QED
                BY <2>2, <2>4, <3>3, <3>4, <3>5, RefusalIsExact DEF ShownAsNull
        <2> QED
            BY <2>1, <2>3, <2>4
    <1>5. CASE GetPartitionDefaults(p)
        <2>1. phase[p] = "shows" /\ Queries[step[p]] = "partitions"
            BY <1>5 DEF GetPartitionDefaults
        <2>2. PICK o \in pending[p] : Shown(p, o, catalog[o])
            BY <1>5 DEF GetPartitionDefaults
        <2>3. KindOf[o] = "table"
            <3>1. step[p] = 9
                BY <1>1, <2>1, QueriesAre DEF StepInv
            <3>2. ShowPos(o) = 9
                BY <1>1, <1>2, <2>1, <3>1 DEF ShownIsCurrent, Active
            <3> QED
                BY <1>2, <3>2, ShowPosIs
        <2> QED
            BY <1>2, <2>1, <2>2, <2>3, ShowIsExact
    <1> QED
        BY <1>3, <1>4, <1>5

\* No row is left to be shown: the next query may follow.
LEMMA FinishIsExact ==
    ASSUME ExactInv, NEW p \in Procs, FinishRows(p)
    PROVE  TypeInv' /\ \A q \in Procs : CallInv(q)'
    <1>1. TypeInv /\ StepInv(p) /\ ReadIsCurrent(p) /\ ShownIsCurrent(p)
        BY DEF ExactInv, CallInv
    <1>2. /\ phase[p] \in {"shows", "rows"} /\ pending[p] = {}
          /\ owner' = Released(p)
          /\ phase' = [phase EXCEPT ![p] = "read"]
          /\ step' = [step EXCEPT ![p] = step[p] + 1]
          /\ UNCHANGED <<catalog, dropped, pending, seen, refused, touched, failures>>
        BY DEF FinishRows, server
    <1>3. step[p] \in 1..10
        BY <1>1, <1>2 DEF StepInv
    <1>4. /\ phase' \in [Procs -> Phases] /\ phase'[p] = "read"
          /\ step' \in [Procs -> 1..12] /\ step'[p] = step[p] + 1
          /\ \A q \in Procs \ {p} : phase'[q] = phase[q] /\ step'[q] = step[q]
        BY <1>1, <1>2, <1>3 DEF TypeInv, Phases
    <1>5. owner' \in [Conns -> {{}} \cup {{q} : q \in Procs}]
        BY <1>1, <1>2 DEF TypeInv, Released
    <1>6. TypeInv'
        BY <1>1, <1>2, <1>4, <1>5 DEF TypeInv
    <1>7. /\ Active(p) /\ Active(p)' /\ StepInv(p)'
          /\ \A i \in 1..13 : Passed(p, i)' <=> Passed(p, i)
        BY <1>2, <1>3, <1>4 DEF Active, Passed, StepInv
    <1>8. ReadIsCurrent(p)'
        BY <1>1, <1>2, <1>7 DEF ReadIsCurrent, Selected
    <1>9. ShownIsCurrent(p)'
        <2> SUFFICES ASSUME NEW m \in Objects
                     PROVE
            /\ ~Passed(p, ShowPos(m))' => seen[p]["show"][m] = 0 /\ m \notin refused[p]
            /\ Passed(p, ShowPos(m))' =>
                /\ m \notin touched[p] \cup refused[p] => seen[p]["show"][m] = catalog[m]
                /\ KindOf[m] # "table" /\ seen[p][Queries[ShowPos(m)]][m] # 0
                        => (seen[p]["show"][m] = 0 <=> m \in refused[p])
            BY <1>2 DEF ShownIsCurrent, ShowPos, Passed
        <2>1. ShowPos(m) \in 1..13
            BY ShowPosIs
        <2>2. Passed(p, ShowPos(m))' <=> Passed(p, ShowPos(m))
            BY <1>7, <2>1
        <2> QED
            BY <1>1, <1>2, <1>7, <2>2 DEF ShownIsCurrent
    <1>10. ASSUME NEW q \in Procs \ {p}
           PROVE  CallInv(q)'
        BY <1>2, <1>4, OthersKept DEF ExactInv
    <1> QED
        BY <1>6, <1>7, <1>8, <1>9, <1>10 DEF CallInv

\* The end of a call: it returns, or it fails.
LEMMA ReturnIsExact ==
    ASSUME ExactInv, NEW p \in Procs,
           \/ GetDatabase(p)
           \/ ReturnError(p) /\ failures' \in Nat
    PROVE  TypeInv' /\ \A q \in Procs : CallInv(q)'
    <1>1. TypeInv /\ StepInv(p) /\ ReadIsCurrent(p) /\ ShownIsCurrent(p)
        BY DEF ExactInv, CallInv
    <1>2. /\ UNCHANGED <<catalog, dropped, step, seen, refused, touched>> /\ failures' \in Nat
          /\ owner' \in [Conns -> {{}} \cup {{q} : q \in Procs}]
          /\ \E s \in {"failed", "done"} : phase' = [phase EXCEPT ![p] = s]
          /\ pending' = [pending EXCEPT ![p] = {}]
        <2>1. CASE GetDatabase(p)
            <3>1. phase[p] = "read" /\ pending' = pending
                BY <2>1 DEF GetDatabase
            <3>2. pending' = [pending EXCEPT ![p] = {}]
                BY <1>1, <3>1 DEF StepInv, TypeInv
            <3> QED
                BY <1>1, <2>1, <3>2 DEF GetDatabase, TypeInv, server
        <2>2. CASE ReturnError(p) /\ failures' \in Nat
            BY <1>1, <2>2 DEF ReturnError, Released, TypeInv, server
        <2> QED
            BY <2>1, <2>2
    <1>3. PICK s \in {"failed", "done"} : phase' = [phase EXCEPT ![p] = s]
        BY <1>2
    <1>4. /\ phase' \in [Procs -> Phases] /\ phase'[p] = s
          /\ pending' \in [Procs -> SUBSET Objects] /\ pending'[p] = {}
          /\ \A q \in Procs \ {p} : phase'[q] = phase[q] /\ pending'[q] = pending[q]
        BY <1>1, <1>2, <1>3 DEF TypeInv, Phases
    <1>5. TypeInv'
        BY <1>1, <1>2, <1>4 DEF TypeInv
    <1>6. ASSUME phase'[p] = "failed"
          PROVE  CallInv(p)'
        BY <1>4, <1>6 DEF CallInv, StepInv, ReadIsCurrent, ShownIsCurrent, Active
    <1>7. ASSUME phase'[p] = "done"
          PROVE  CallInv(p)'
        <2>1. phase[p] = "read" /\ step[p] = 12 /\ pending[p] = {}
            <3>1. GetDatabase(p)
                <4>1. CASE ReturnError(p)
                    BY <1>1, <1>7, <4>1 DEF ReturnError, TypeInv
                <4> QED
                    BY <4>1
            <3>2. phase[p] = "read" /\ Queries[step[p]] = "database"
                BY <3>1 DEF GetDatabase
            <3> QED
                BY <1>1, <3>2, QueriesAre DEF TypeInv, StepInv
        <2>2. /\ Active(p) /\ StepInv(p)'
              /\ \A i : Passed(p, i)' <=> Passed(p, i)
            BY <1>2, <1>4, <1>7, <2>1 DEF Active, Passed, StepInv
        <2>3. ReadIsCurrent(p)'
            BY <1>1, <1>2, <2>2 DEF ReadIsCurrent, Selected
        <2>4. ShownIsCurrent(p)'
            <3> SUFFICES ASSUME NEW m \in Objects
                         PROVE
                /\ ~Passed(p, ShowPos(m)) => seen[p]["show"][m] = 0 /\ m \notin refused[p]
                /\ Passed(p, ShowPos(m)) =>
                    /\ m \notin touched[p] \cup refused[p] => seen[p]["show"][m] = catalog[m]
                    /\ KindOf[m] # "table" /\ seen[p][Queries[ShowPos(m)]][m] # 0
                            => (seen[p]["show"][m] = 0 <=> m \in refused[p])
                BY <1>2, <1>4, <2>2 DEF ShownIsCurrent, ShowPos
            <3> QED
                BY <1>1, <2>1, <2>2 DEF ShownIsCurrent
        <2> QED
            BY <2>2, <2>3, <2>4 DEF CallInv
    <1>8. ASSUME NEW q \in Procs \ {p}
          PROVE  CallInv(q)'
        BY <1>2, <1>4, OthersKept DEF ExactInv
    <1>9. CallInv(p)'
        BY <1>4, <1>6, <1>7
    <1> QED
        BY <1>5, <1>8, <1>9

\* A new call has read nothing yet.
LEMMA BeginIsExact ==
    ASSUME ExactInv, NEW p \in Procs, GetVersion(p)
    PROVE  TypeInv' /\ \A q \in Procs : CallInv(q)'
    <1>1. TypeInv /\ StepInv(p)
        BY DEF ExactInv, CallInv
    <1>2. /\ phase[p] \in {"idle", "done", "failed"}
          /\ phase' = [phase EXCEPT ![p] = "read"]
          /\ step' = [step EXCEPT ![p] = 1]
          /\ seen' = [seen EXCEPT ![p] = NoRows]
          /\ refused' = [refused EXCEPT ![p] = {}]
          /\ touched' = [touched EXCEPT ![p] = {}]
          /\ UNCHANGED <<catalog, dropped, owner, pending, failures>>
        BY DEF GetVersion, server
    <1>3. /\ phase' \in [Procs -> Phases] /\ phase'[p] = "read"
          /\ step' \in [Procs -> 1..12] /\ step'[p] = 1
          /\ \A q \in Procs \ {p} : phase'[q] = phase[q] /\ step'[q] = step[q]
        BY <1>1, <1>2 DEF TypeInv, Phases
    <1>4. /\ refused' \in [Procs -> SUBSET Refusable]
          /\ touched' \in [Procs -> SUBSET Objects]
          /\ \A q \in Procs \ {p} : refused'[q] = refused[q] /\ touched'[q] = touched[q]
        BY <1>1, <1>2 DEF TypeInv
    <1>5. /\ seen' \in [Procs -> [AllQueries -> [Objects -> 0..Mixed]]]
          /\ seen'[p] = NoRows
          /\ \A q \in Procs \ {p} : seen'[q] = seen[q]
        BY <1>1, <1>2, NoRowsTyped DEF TypeInv
    <1>6. TypeInv'
        BY <1>1, <1>2, <1>3, <1>4, <1>5 DEF TypeInv
    <1>7. pending'[p] = {} /\ StepInv(p)'
        BY <1>1, <1>2, <1>3 DEF StepInv
    <1>8. \A i \in 1..13 : ~Passed(p, i)'
        BY <1>3 DEF Passed
    <1>9. ReadIsCurrent(p)'
        BY <1>8 DEF ReadIsCurrent
    <1>10. \A o \in Objects : ShowPos(o) \in 1..13 /\ NoRows["show"][o] = 0
        BY ShowPosIs, NoRowsTyped DEF AllQueries
    <1>11. ShownIsCurrent(p)'
        <2>1. \A o \in Objects : ~Passed(p, ShowPos(o))'
            BY <1>8, <1>10 DEF ShowPos
        <2>2. refused'[p] = {}
            BY <1>1, <1>2 DEF TypeInv
        <2> QED
            BY <1>5, <1>7, <1>10, <2>1, <2>2 DEF ShownIsCurrent, ShowPos
    <1>12. ASSUME NEW q \in Procs \ {p}
           PROVE  CallInv(q)'
        BY <1>2, <1>3, <1>4, <1>5, OthersKept DEF ExactInv
    <1> QED
        BY <1>6, <1>7, <1>9, <1>11, <1>12 DEF CallInv

\* What another session changes counts as touched for every call.
LEMMA ChangeIsExact ==
    ASSUME ExactInv, ChangeCatalog \/ DropDatabase
    PROVE  TypeInv' /\ \A q \in Procs : CallInv(q)'
    <1>1. TypeInv /\ \A q \in Procs : CallInv(q)
        BY DEF ExactInv
    <1>2. /\ UNCHANGED <<owner, phase, step, pending, seen, refused, failures>>
          /\ dropped' \in BOOLEAN
        BY <1>1 DEF ChangeCatalog, DropDatabase, TypeInv
    <1>3. PICK S \in SUBSET Objects :
                /\ catalog' \in [Objects -> 0..MaxVersion]
                /\ \A o \in Objects \ S : catalog'[o] = catalog[o]
                /\ touched' = [p \in Procs |-> touched[p] \cup S]
        <2>1. CASE ChangeCatalog
            <3>1. PICK o \in Objects, v \in 0..MaxVersion :
                    /\ catalog' = [catalog EXCEPT ![o] = v]
                    /\ touched' = [p \in Procs |-> touched[p] \cup {o}]
                BY <2>1 DEF ChangeCatalog
            <3>2. {o} \in SUBSET Objects
                OBVIOUS
            <3> QED
                BY <1>1, <3>1, <3>2 DEF TypeInv
        <2>2. CASE DropDatabase
            <3>1. /\ catalog' = [o \in Objects |-> 0]
                  /\ touched' = [p \in Procs |-> Objects]
                BY <2>2 DEF DropDatabase
            <3>2. \A p \in Procs : touched[p] \cup Objects = Objects
                BY <1>1 DEF TypeInv
            <3>3. touched' = [p \in Procs |-> touched[p] \cup Objects]
                BY <3>1, <3>2
            <3>4. catalog' \in [Objects -> 0..MaxVersion] /\ Objects \in SUBSET Objects
                BY <3>1, CatalogsAssumption
            <3> QED
                BY <3>3, <3>4
        <2> QED
            BY <2>1, <2>2
    <1>4. /\ touched' \in [Procs -> SUBSET Objects]
          /\ \A p \in Procs : touched'[p] = touched[p] \cup S
        BY <1>1, <1>3 DEF TypeInv
    <1>5. TypeInv'
        BY <1>1, <1>2, <1>3, <1>4 DEF TypeInv
    <1>6. ASSUME NEW q \in Procs
          PROVE  CallInv(q)'
        <2>1. StepInv(q) /\ ReadIsCurrent(q) /\ ShownIsCurrent(q)
            BY <1>1 DEF CallInv
        <2>2. (\A i : Passed(q, i)' <=> Passed(q, i)) /\ (Active(q)' <=> Active(q))
            BY <1>2 DEF Passed, Active
        <2>3. StepInv(q)'
            BY <1>2, <2>1 DEF StepInv
        <2>4. \A o \in Objects \ touched'[q] : o \notin touched[q] /\ catalog'[o] = catalog[o]
            BY <1>3, <1>4
        <2>5. ReadIsCurrent(q)'
            BY <1>2, <2>1, <2>2, <2>4 DEF ReadIsCurrent, Selected
        <2>6. ShownIsCurrent(q)'
            BY <1>2, <2>1, <2>2, <2>4 DEF ShownIsCurrent, ShowPos
        <2> QED
            BY <2>3, <2>5, <2>6 DEF CallInv
    <1> QED
        BY <1>5, <1>6

\* The object of a list's row that is gone was changed since the call began, and it is
\* no table.
LEMMA MissingWasDropped ==
    ASSUME ExactInv, NEW p \in Procs, FailMissing(p)
    PROVE  \E o \in touched[p] :
                /\ KindOf[o] # "table" /\ catalog[o] = 0
                /\ seen[p][Queries[step[p]]][o] # 0
    <1>1. TypeInv /\ CallInv(p)
        BY DEF ExactInv
    <1>2. phase[p] \in {"shows", "rows"} /\ Queries[step[p]] # "partitions"
        BY DEF FailMissing
    <1>3. PICK o \in pending[p] : catalog[o] = 0
        BY DEF FailMissing
    <1>4. o \in Objects /\ step[p] \in {4, 6, 10} /\ Active(p) /\ Passed(p, step[p])
        BY <1>1, <1>2, QueriesAre DEF TypeInv, CallInv, StepInv, Active, Passed
    <1>5. ShowPos(o) = step[p] /\ seen[p][Queries[step[p]]][o] # 0
        BY <1>1, <1>4 DEF CallInv, ShownIsCurrent
    <1>6. KindOf[o] # "table"
        BY <1>4, <1>5, ShowPosIs DEF KindsOf
    <1>7. o \in touched[p]
        <2>1. Selected(Queries[step[p]], o) = 0
            BY <1>3 DEF Selected
        <2> QED
            BY <1>1, <1>4, <1>5, <2>1 DEF CallInv, ReadIsCurrent
    <1> QED
        BY <1>3, <1>5, <1>6, <1>7

\* The steps after which a call has failed that had not.
LEMMA WhatFails ==
    ASSUME ExactInv, Next, NEW q \in Procs, phase[q] # "failed", phase'[q] = "failed"
    PROVE  FailStatement(q) \/ FailMissing(q) \/ (GetDatabase(q) /\ dropped)
    <1>1. phase \in [Procs -> Phases]
        BY DEF ExactInv, TypeInv
    <1>2. ASSUME NEW p \in Procs, NEW s, phase' = [phase EXCEPT ![p] = s], s # "failed"
          PROVE  FALSE
        BY <1>1, <1>2
    <1>3. ASSUME NEW p \in Procs, phase' = [phase EXCEPT ![p] = "failed"]
          PROVE  q = p
        BY <1>1, <1>3
    <1>4. phase' # phase
        OBVIOUS
    <1>5. ASSUME NEW p \in Procs, CallStep(p)
          PROVE  FailMissing(q) \/ (GetDatabase(q) /\ dropped)
        <2>1. CASE ListStep(p)
            <3>1. PICK query : Reading(p, query)
                BY <2>1, EveryList
            <3> QED
                BY <3>1, <1>2, <1>4 DEF Reading
        <2>2. CASE ReconcileViewDefinition(p) \/ GetCreateStmt(p) \/ GetPartitionDefaults(p)
            BY <2>2, <1>4 DEF ReconcileViewDefinition, GetCreateStmt, GetPartitionDefaults,
                              Shown, ShownAsNull
        <2>3. CASE FinishRows(p)
            BY <2>3, <1>2 DEF FinishRows
        <2>4. CASE GetDatabase(p)
            <3>1. phase' = [phase EXCEPT ![p] = IF dropped THEN "failed" ELSE "done"]
                BY <2>4 DEF GetDatabase
            <3>2. CASE dropped
                <4>1. q = p
                    BY <3>1, <3>2, <1>3
                <4> QED
                    BY <2>4, <3>2, <4>1
            <3>3. CASE ~dropped
                BY <3>1, <3>3, <1>2
            <3> QED
                BY <3>2, <3>3
        <2>5. CASE FailMissing(p)
            <3>1. q = p
                BY <2>5, <1>3 DEF FailMissing, ReturnError
            <3> QED
                BY <2>5, <3>1
        <2> QED
            BY <1>5, <2>1, <2>2, <2>3, <2>4, <2>5 DEF CallStep, ListStep
    <1>6. ASSUME NEW p \in Procs, FailStatement(p)
          PROVE  FailStatement(q)
        <2>1. q = p
            BY <1>6, <1>3 DEF FailStatement, ReturnError
        <2> QED
            BY <1>6, <2>1
    <1>7. \A p \in Procs : ~GetVersion(p)
        BY <1>2 DEF GetVersion
    <1>8. \A p \in Procs : ~RefusePartitionDefaults(p)
        BY <1>4 DEF RefusePartitionDefaults
    <1>9. ~ChangeCatalog /\ ~DropDatabase
        BY <1>4 DEF ChangeCatalog, DropDatabase
    <1> QED
        BY <1>5, <1>6, <1>7, <1>8, <1>9 DEF Next

LEMMA ExactKept == ExactInv /\ [Next]_vars => ExactInv'
    <1> SUFFICES ASSUME ExactInv, [Next]_vars PROVE ExactInv'
        OBVIOUS
    <1> DEFINE Kept == TypeInv' /\ \A q \in Procs : CallInv(q)'
    <1> SUFFICES Kept
        BY DEF ExactInv
    <1>1. ASSUME NEW p \in Procs, CallStep(p)
          PROVE  Kept
        <2>1. CASE ListStep(p)
            BY <2>1, EveryList, ListIsExact
        <2>2. CASE ReconcileViewDefinition(p) \/ GetCreateStmt(p) \/ GetPartitionDefaults(p)
            BY <2>2, EveryShow
        <2>3. CASE FinishRows(p)
            BY <2>3, FinishIsExact
        <2>4. CASE GetDatabase(p)
            BY <2>4, ReturnIsExact
        <2>5. CASE FailMissing(p)
            BY <2>5, ReturnIsExact DEF FailMissing, ExactInv, TypeInv
        <2> QED
            BY <1>1, <2>1, <2>2, <2>3, <2>4, <2>5 DEF CallStep, ListStep
    <1>2. ASSUME NEW p \in Procs, GetVersion(p) \/ FailStatement(p) \/ RefusePartitionDefaults(p)
          PROVE  Kept
        <2>1. CASE FailStatement(p)
            <3>1. ReturnError(p) /\ failures' = failures + 1 /\ failures \in Nat
                BY <2>1 DEF FailStatement, ExactInv, TypeInv
            <3>2. failures' \in Nat
                BY <3>1
            <3> QED
                BY <3>1, <3>2, ReturnIsExact
        <2>2. CASE GetVersion(p)
            BY <2>2, BeginIsExact
        <2>3. CASE RefusePartitionDefaults(p)
            <3>1. PICK o \in pending[p] \cap Partitioned :
                    /\ pending' = [pending EXCEPT ![p] = @ \ {o}]
                    /\ refused' = [refused EXCEPT ![p] = @ \cup {o}]
                BY <2>3 DEF RefusePartitionDefaults
            <3>2. /\ phase[p] = "shows" /\ failures' = failures + 1 /\ failures \in Nat
                  /\ UNCHANGED <<catalog, dropped, owner, phase, step, seen, touched>>
                BY <2>3 DEF RefusePartitionDefaults, server, ExactInv, TypeInv
            <3>3. o \in pending[p] \cap Refusable /\ failures' \in Nat
                BY <3>2 DEF Refusable
            <3> QED
                BY <3>1, <3>2, <3>3, RefusalIsExact
        <2> QED
            BY <1>2, <2>1, <2>2, <2>3
    <1>3. CASE ChangeCatalog \/ DropDatabase
        BY <1>3, ChangeIsExact
    <1>4. CASE UNCHANGED vars
        <2>1. UNCHANGED <<catalog, dropped, owner, phase, step, pending, seen, refused, touched,
                          failures>>
            BY <1>4 DEF vars, server
        <2>2. TypeInv'
            BY <2>1 DEF ExactInv, TypeInv
        <2>3. \A q \in Procs : CallInv(q)'
            BY <2>1, OthersKept DEF ExactInv
        <2> QED
            BY <2>2, <2>3
    <1> QED
        BY <1>1, <1>2, <1>3, <1>4 DEF Next

LEMMA ExactHolds == Spec => []ExactInv
    BY ExactInitially, ExactKept, PTL DEF Spec

\* Every variable of an extraction has its type.
THEOREM ExtractionTypesHold == Spec => []TypeOK
    <1>1. ExactInv => TypeOK
        BY QueriesAre DEF ExactInv, TypeInv, TypeOK, AllQueries, Phases
    <1> QED
        BY <1>1, ExactHolds, PTL

\* For every database, every number of goroutines and any changes between two queries:
\* what nobody changed since a call began is extracted if and only if it exists, and all
\* its parts that SourcesOf names are of its version, though the queries of the call share
\* no transaction (extractor.go 65-171).  The checks of a table with a homonymous check,
\* the partition counts of a refused SHOW CREATE TABLE and definitions sent as NULL are
\* not among those parts.
THEOREM UntouchedIsExtracted == Spec => []UntouchedIsExact
    <1>1. ExactInv => UntouchedIsExact
        <2> SUFFICES ASSUME ExactInv, NEW p \in Procs, phase[p] = "done",
                            NEW o \in Objects \ touched[p]
                     PROVE  /\ o \in Extracted(p) <=> catalog[o] # 0
                            /\ o \in Extracted(p) => VersionsOf(p, o) = {catalog[o]}
            BY DEF UntouchedIsExact
        <2>1. CallInv(p) /\ Active(p) /\ TypeInv
            BY DEF ExactInv, Active
        <2>2. step[p] = 12 /\ pending[p] = {} /\ \A i \in 1..11 : Passed(p, i)
            BY <2>1 DEF CallInv, StepInv, Passed
        <2>3. \A i \in 1..11 : seen[p][Queries[i]][o] = Selected(Queries[i], o)
            BY <2>1, <2>2 DEF CallInv, ReadIsCurrent
        <2>4. ShowPos(o) \in 1..11 /\ o \notin refused[p] => seen[p]["show"][o] = catalog[o]
            BY <2>1, <2>2 DEF CallInv, ShownIsCurrent
        <2>5. KindOf[o] \in Kinds /\ (o \in refused[p] => KindOf[o] # "view")
            BY <2>1, ObjectsAssumption DEF TypeInv, Refusable
        <2>6. ASSUME NEW i \in 1..11, KindOf[o] \in KindsOf(Queries[i]),
                     Queries[i] # "checks" \/ o \notin Homonyms
              PROVE  seen[p][Queries[i]][o] = catalog[o]
            BY <2>3, <2>6 DEF Selected
        <2>7. CASE KindOf[o] = "table"
            <3> DEFINE checks == IF o \in Homonyms THEN {"checks"} ELSE {}
                       show == IF o \in Partitioned \ refused[p] THEN {"show"} ELSE {}
            <3>1. \A q \in TableQueries \ checks : seen[p][q][o] = catalog[o]
                <4>1. \A q \in TableQueries : \E i \in 1..11 : Queries[i] = q /\ "table" \in KindsOf(q)
                    BY QueriesAre DEF TableQueries, KindsOf
                <4> SUFFICES ASSUME NEW q \in TableQueries, q # "checks" \/ o \notin Homonyms
                             PROVE  seen[p][q][o] = catalog[o]
                    OBVIOUS
                <4>2. PICK i \in 1..11 : Queries[i] = q /\ "table" \in KindsOf(q)
                    BY <4>1
                <4> QED
                    BY <4>2, <2>6, <2>7
            <3>2. o \in Partitioned \ refused[p] => seen[p]["show"][o] = catalog[o]
                BY <2>4, ShowPosIs
            <3>3. SourcesOf(p, o) = (TableQueries \ checks) \cup show
                BY <2>7 DEF SourcesOf
            <3>4. "tables" \in TableQueries \ checks
                BY DEF TableQueries
            <3>5. \A q \in SourcesOf(p, o) : seen[p][q][o] = catalog[o]
                BY <3>1, <3>2, <3>3
            <3>6. VersionsOf(p, o) = {catalog[o]}
                BY <3>3, <3>4, <3>5 DEF VersionsOf
            <3> QED
                BY <2>7, <3>1, <3>4, <3>6 DEF Extracted
        <2>8. CASE KindOf[o] = "view"
            <3>1. /\ seen[p]["columns"][o] = catalog[o] /\ seen[p]["views"][o] = catalog[o]
                  /\ seen[p]["tables"][o] = catalog[o]
                BY <2>6, <2>8, QueriesAre DEF KindsOf
            <3>2. seen[p]["show"][o] = catalog[o]
                BY <2>4, <2>5, <2>8, ShowPosIs DEF KindsOf
            <3>3. VersionsOf(p, o) = {catalog[o]}
                BY <2>8, <3>1, <3>2 DEF VersionsOf, SourcesOf
            <3> QED
                BY <2>8, <3>1, <3>3 DEF Extracted
        <2>9. ASSUME NEW list, list = IF KindOf[o] = "event" THEN "events" ELSE "routines",
                     KindOf[o] \in {"event", "function", "procedure"}
              PROVE  /\ o \in Extracted(p) <=> catalog[o] # 0
                     /\ o \in Extracted(p) => VersionsOf(p, o) = {catalog[o]}
            <3>1. seen[p][list][o] = catalog[o]
                BY <2>6, <2>9, QueriesAre DEF KindsOf
            <3>2. o \notin refused[p] => seen[p]["show"][o] = catalog[o]
                BY <2>4, <2>9, ShowPosIs DEF KindsOf
            <3>3. SourcesOf(p, o) = {list} \cup (IF o \in refused[p] THEN {} ELSE {"show"})
                BY <2>9 DEF SourcesOf
            <3>4. VersionsOf(p, o) = {catalog[o]}
                BY <3>1, <3>2, <3>3 DEF VersionsOf
            <3>5. o \in Extracted(p) <=> seen[p][list][o] # 0
                BY <2>9 DEF Extracted
            <3> QED
                BY <3>1, <3>4, <3>5
        <2> QED
            BY <2>5, <2>7, <2>8, <2>9 DEF Kinds
    <1> QED
        BY <1>1, ExactHolds, PTL

\* No view is ever returned without a definition, and an event or routine only if the
\* server sent NULL for it; none is that was dropped between its list and its SHOW CREATE
\* (extractor.go 647-655, 774-777, 841-844, 1118-1135, 1199-1215, 1263-1273).
THEOREM NoDefinitionIsMissing == Spec => []DefinitionsAreReal
    <1>1. ExactInv => DefinitionsAreReal
        <2> SUFFICES ASSUME ExactInv, NEW p \in Procs, phase[p] = "done",
                            NEW o \in Extracted(p), KindOf[o] # "table"
                     PROVE  seen[p]["show"][o] = 0 <=> o \in refused[p]
            BY DEF DefinitionsAreReal
        <2>1. CallInv(p) /\ Active(p) /\ o \in Objects /\ KindOf[o] \in Kinds
            BY ObjectsAssumption DEF ExactInv, Active, Extracted
        <2>2. step[p] = 12 /\ pending[p] = {} /\ \A i \in 1..11 : Passed(p, i)
            BY <2>1 DEF CallInv, StepInv, Passed
        <2>3. ShowPos(o) \in {4, 6, 10}
            BY <2>1, ShowPosIs
        <2>4. seen[p][Queries[ShowPos(o)]][o] # 0
            BY <2>1, <2>3, ShowPosIs, QueriesAre DEF Extracted, KindsOf
        <2> QED
            BY <2>1, <2>2, <2>3, <2>4 DEF CallInv, ShownIsCurrent
    <1> QED
        BY <1>1, ExactHolds, PTL

\* A call fails only at a statement of its own that fails, at the row of a dropped
\* database, or at a listed view, event or routine that was dropped since the call began,
\* whatever happens to the tables (extractor.go 1019-1023, 1353-1356).
THEOREM NoCallFailsForNothing == Spec => ErrorsHaveCause
    <1> DEFINE Caused ==
            \A p \in Procs : phase[p] # "failed" /\ phase'[p] = "failed" =>
                \/ failures' > failures
                \/ dropped /\ Queries[step[p]] = "database"
                \/ \E o \in touched[p] :
                        /\ KindOf[o] # "table" /\ catalog[o] = 0
                        /\ seen[p][Queries[step[p]]][o] # 0
    <1>1. ExactInv /\ [Next]_vars => [Caused]_vars
        <2> SUFFICES ASSUME ExactInv, Next, NEW q \in Procs,
                            phase[q] # "failed", phase'[q] = "failed"
                     PROVE  \/ failures' > failures
                            \/ dropped /\ Queries[step[q]] = "database"
                            \/ \E o \in touched[q] :
                                    /\ KindOf[o] # "table" /\ catalog[o] = 0
                                    /\ seen[q][Queries[step[q]]][o] # 0
            OBVIOUS
        <2>1. CASE FailStatement(q)
            <3>1. failures \in Nat /\ failures' = failures + 1
                BY <2>1 DEF FailStatement, ExactInv, TypeInv
            <3> QED
                BY <3>1
        <2>2. CASE FailMissing(q)
            BY <2>2, MissingWasDropped
        <2>3. CASE GetDatabase(q) /\ dropped
            BY <2>3 DEF GetDatabase
        <2> QED
            BY <2>1, <2>2, <2>3, WhatFails
    <1>2. []ExactInv /\ [][Next]_vars => ErrorsHaveCause
        BY <1>1, PTL DEF ErrorsHaveCause
    <1> QED
        BY <1>2, ExactHolds, PTL DEF Spec
=============================================================================

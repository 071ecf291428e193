------------------------------ MODULE PgProofs ------------------------------
(***************************************************************************)
(* Proofs about ExtractSchema of extractor/postgres, for every pool, every *)
(* number of goroutines and every database: no connection is lost, and     *)
(* what nobody changes during a transaction is extracted exactly.          *)
(***************************************************************************)
EXTENDS PgExtract, TLAPS

Phases == {"idle", "path", "begin", "set", "read", "commit", "done", "failed"}
Open == {"set", "read", "commit"}

\* The connections on loan are those of the open transactions.
LoanInv ==
    /\ owner \in [Conns -> {{}} \cup {{p} : p \in Procs}]
    /\ phase \in [Procs -> Phases]
    /\ ConnectionsAreReturned

\* A step that lends nothing and gives nothing back keeps the loans right when it
\* leaves the set of open transactions as it is.
LEMMA SameLoans ==
    ASSUME LoanInv, NEW p \in Procs, NEW s \in Phases,
           owner' = owner, phase' = [phase EXCEPT ![p] = s],
           phase[p] \in Open <=> s \in Open
    PROVE  LoanInv'
    <1>1. \A q \in Procs : InTransaction(q)' <=> InTransaction(q)
        BY DEF LoanInv, InTransaction, Open
    <1>2. phase' \in [Procs -> Phases]
        BY DEF LoanInv
    <1>3. ConnectionsAreReturned'
        BY <1>1 DEF LoanInv, ConnectionsAreReturned, Held
    <1> QED
        BY <1>2, <1>3 DEF LoanInv

\* Ending the transaction, if any, gives back what the goroutine holds.
LEMMA Returned ==
    ASSUME LoanInv, NEW p \in Procs, NEW s \in Phases \ Open,
           owner' = Released(p), phase' = [phase EXCEPT ![p] = s]
    PROVE  LoanInv'
    <1>1. /\ owner' \in [Conns -> {{}} \cup {{q} : q \in Procs}]
          /\ phase' \in [Procs -> Phases]
        BY DEF LoanInv, Released
    <1>2. \A c \in Conns : ~Held(p, c)'
        BY DEF LoanInv, Released, Held
    <1>3. ASSUME NEW q \in Procs \ {p}
          PROVE  /\ InTransaction(q)' <=> InTransaction(q)
                 /\ \A c \in Conns : Held(q, c)' <=> Held(q, c)
        BY <1>3 DEF LoanInv, Released, Held, InTransaction
    <1>4. ~InTransaction(p)'
        BY DEF LoanInv, InTransaction, Open
    <1>5. ConnectionsAreReturned'
        <2> SUFFICES ASSUME NEW q \in Procs
                     PROVE  /\ InTransaction(q)' => \E c \in Conns : Held(q, c)'
                            /\ \A c, d \in Conns : Held(q, c)' /\ Held(q, d)' => c = d
                            /\ ~InTransaction(q)' => \A c \in Conns : ~Held(q, c)'
            BY DEF ConnectionsAreReturned, Held, InTransaction
        <2>1. CASE q = p
            BY <2>1, <1>2, <1>4
        <2>2. CASE q # p
            BY <2>2, <1>3 DEF LoanInv, ConnectionsAreReturned
        <2> QED
            BY <2>1, <2>2
    <1> QED
        BY <1>1, <1>5 DEF LoanInv

\* BeginTx borrows one connection.
LEMMA Lent ==
    ASSUME LoanInv, NEW p \in Procs, BeginTx(p)
    PROVE  LoanInv'
    <1>1. PICK b \in Conns : Free(b) /\ owner' = [owner EXCEPT ![b] = {p}]
        BY DEF BeginTx
    <1>2. phase[p] = "begin" /\ phase' = [phase EXCEPT ![p] = "set"]
        BY DEF BeginTx
    <1>3. /\ owner' \in [Conns -> {{}} \cup {{q} : q \in Procs}]
          /\ phase' \in [Procs -> Phases]
        BY <1>1, <1>2 DEF LoanInv, Phases
    <1>4. \A c \in Conns : Held(p, c)' <=> c = b
        BY <1>1, <1>2 DEF LoanInv, ConnectionsAreReturned, InTransaction, Held, Free
    <1>5. InTransaction(p)'
        BY <1>2 DEF LoanInv, InTransaction
    <1>6. ASSUME NEW q \in Procs \ {p}
          PROVE  /\ InTransaction(q)' <=> InTransaction(q)
                 /\ \A c \in Conns : Held(q, c)' <=> Held(q, c)
        BY <1>1, <1>2, <1>6 DEF LoanInv, Held, Free, InTransaction
    <1>7. ConnectionsAreReturned'
        <2> SUFFICES ASSUME NEW q \in Procs
                     PROVE  /\ InTransaction(q)' => \E c \in Conns : Held(q, c)'
                            /\ \A c, d \in Conns : Held(q, c)' /\ Held(q, d)' => c = d
                            /\ ~InTransaction(q)' => \A c \in Conns : ~Held(q, c)'
            BY DEF ConnectionsAreReturned, Held, InTransaction
        <2>1. CASE q = p
            BY <2>1, <1>4, <1>5
        <2>2. CASE q # p
            BY <2>2, <1>6 DEF LoanInv, ConnectionsAreReturned
        <2> QED
            BY <2>1, <2>2
    <1> QED
        BY <1>3, <1>7 DEF LoanInv

-----------------------------------------------------------------------------
\* The kinds of objects each query of the transaction selects.
KindsOf(query) ==
    CASE query = "extensionDepend" -> {"function", "procedure"}
      [] query = "schemas" -> {"schema"}
      [] query = "columns" -> {"table", "view", "mview"}
      [] query \in {"indexes", "triggers", "checks", "fks", "partitions", "tables"} -> {"table"}
      [] query = "views" -> {"view"}
      [] query = "mviews" -> {"mview"}
      [] query = "functions" -> {"function"}
      [] query = "procedures" -> {"procedure"}
      [] query = "sequences" -> {"sequence"}
      [] query = "extensions" -> {"extension"}
      [] query = "enums" -> {"enum"}

\* What a query returns of an object at this moment.
Selected(query, o) ==
    IF query = "fks" /\ o \in Unparsed /\ catalog[o] # 0 THEN Partial
    ELSE IF KindOf[o] \in KindsOf(query) THEN catalog[o] ELSE 0

\* What the code keeps of what a query returns.
Found(query) == [o \in Objects |-> Selected(query, o)]

\* What every step of ReadStep does, whichever query it is.
LEMMA EveryQuery ==
    ASSUME NEW p, ReadStep(p)
    PROVE  \E query \in ToSet(Queries) : Query(p, query, Found(query))
    <1>1. \A q \in {"extensionDepend", "schemas", "columns", "indexes", "triggers",
                    "checks", "fks", "partitions", "tables", "views", "mviews",
                    "functions", "procedures", "sequences", "extensions", "enums"} :
                q \in ToSet(Queries)
        BY DEF Queries, ToSet
    <1> DEFINE Plain(query) == Found(query) = Rows(KindsOf(query))
    <1>18. \A q : q # "fks" => Plain(q)
        BY DEF Found, Selected, Rows
    <1> HIDE DEF Plain
    <1>2. CASE GetExtensionDepend(p)
        <2>1. Plain("extensionDepend")
            BY <1>18
        <2> QED
            BY <1>1, <1>2, <2>1 DEF GetExtensionDepend, KindsOf, Plain
    <1>3. CASE GetSchemas(p)
        <2>1. Plain("schemas")
            BY <1>18
        <2> QED
            BY <1>1, <1>3, <2>1 DEF GetSchemas, KindsOf, Plain
    <1>4. CASE GetTableColumns(p)
        <2>1. Plain("columns")
            BY <1>18
        <2> QED
            BY <1>1, <1>4, <2>1 DEF GetTableColumns, KindsOf, Plain
    <1>5. CASE GetIndexes(p)
        <2>1. Plain("indexes")
            BY <1>18
        <2> QED
            BY <1>1, <1>5, <2>1 DEF GetIndexes, KindsOf, Plain
    <1>6. CASE GetTriggers(p)
        <2>1. Plain("triggers")
            BY <1>18
        <2> QED
            BY <1>1, <1>6, <2>1 DEF GetTriggers, KindsOf, Plain
    <1>7. CASE GetChecks(p)
        <2>1. Plain("checks")
            BY <1>18
        <2> QED
            BY <1>1, <1>7, <2>1 DEF GetChecks, KindsOf, Plain
    <1>8. CASE GetForeignKeys(p)
        <2>1. ForeignKeysParsed = Found("fks")
            BY DEF ForeignKeysParsed, Found, Selected, Rows, KindsOf
        <2> QED
            BY <1>1, <1>8, <2>1 DEF GetForeignKeys
    <1>9. CASE GetTablePartitions(p)
        <2>1. Plain("partitions")
            BY <1>18
        <2> QED
            BY <1>1, <1>9, <2>1 DEF GetTablePartitions, KindsOf, Plain
    <1>10. CASE GetTables(p)
        <2>1. Plain("tables")
            BY <1>18
        <2> QED
            BY <1>1, <1>10, <2>1 DEF GetTables, KindsOf, Plain
    <1>11. CASE GetViews(p)
        <2>1. Plain("views")
            BY <1>18
        <2> QED
            BY <1>1, <1>11, <2>1 DEF GetViews, KindsOf, Plain
    <1>12. CASE GetMaterializedViews(p)
        <2>1. Plain("mviews")
            BY <1>18
        <2> QED
            BY <1>1, <1>12, <2>1 DEF GetMaterializedViews, KindsOf, Plain
    <1>13. CASE GetFunctions(p)
        <2>1. Plain("functions")
            BY <1>18
        <2> QED
            BY <1>1, <1>13, <2>1 DEF GetFunctions, KindsOf, Plain
    <1>14. CASE GetProcedures(p)
        <2>1. Plain("procedures")
            BY <1>18
        <2> QED
            BY <1>1, <1>14, <2>1 DEF GetProcedures, KindsOf, Plain
    <1>15. CASE GetSequences(p)
        <2>1. Plain("sequences")
            BY <1>18
        <2> QED
            BY <1>1, <1>15, <2>1 DEF GetSequences, KindsOf, Plain
    <1>16. CASE GetExtensions(p)
        <2>1. Plain("extensions")
            BY <1>18
        <2> QED
            BY <1>1, <1>16, <2>1 DEF GetExtensions, KindsOf, Plain
    <1>17. CASE GetEnumTypes(p)
        <2>1. Plain("enums")
            BY <1>18
        <2> QED
            BY <1>1, <1>17, <2>1 DEF GetEnumTypes, KindsOf, Plain
    <1> QED
        BY <1>2, <1>3, <1>4, <1>5, <1>6, <1>7, <1>8, <1>9, <1>10, <1>11, <1>12, <1>13,
           <1>14, <1>15, <1>16, <1>17 DEF ReadStep
-----------------------------------------------------------------------------
LEMMA LoansInitially == Init => LoanInv
    BY DEF Init, LoanInv, ConnectionsAreReturned, InTransaction, Held, Phases

LEMMA LoansKept == LoanInv /\ [Next]_vars => LoanInv'
    <1> SUFFICES ASSUME LoanInv, [Next]_vars
                 PROVE  LoanInv'
        OBVIOUS
    <1>1. ASSUME NEW p \in Procs, GetVersion(p)
          PROVE  LoanInv'
        BY <1>1, SameLoans DEF GetVersion, Phases, Open
    <1>2. ASSUME NEW p \in Procs, GetSearchPath(p)
          PROVE  LoanInv'
        BY <1>2, SameLoans DEF GetSearchPath, Phases, Open
    <1>3. ASSUME NEW p \in Procs, SetTxSearchPath(p)
          PROVE  LoanInv'
        BY <1>3, SameLoans DEF SetTxSearchPath, Phases, Open
    <1>4. ASSUME NEW p \in Procs, ReadStep(p)
          PROVE  LoanInv'
        <2>1. PICK query \in ToSet(Queries) : Query(p, query, Found(query))
            BY <1>4, EveryQuery
        <2>2. PICK s \in {"read", "commit"} : phase' = [phase EXCEPT ![p] = s]
            BY <2>1 DEF Query
        <2>3. owner' = owner /\ phase[p] = "read"
            BY <2>1 DEF Query
        <2> QED
            BY <2>2, <2>3, SameLoans DEF Phases, Open
    <1>5. ASSUME NEW p \in Procs, Commit(p)
          PROVE  LoanInv'
        BY <1>5, Returned DEF Commit, Phases, Open
    <1>6. ASSUME NEW p \in Procs, FailStatement(p) \/ FailUnsupported(p)
          PROVE  LoanInv'
        BY <1>6, Returned DEF FailStatement, FailUnsupported, ReturnError, Phases, Open
    <1>7. CASE ChangeCatalog \/ UNCHANGED vars
        BY <1>7 DEF ChangeCatalog, vars, LoanInv, ConnectionsAreReturned, InTransaction, Held
    <1> QED
        BY <1>1, <1>2, <1>3, <1>4, <1>5, <1>6, <1>7, Lent DEF Next

\* Every goroutine holds the connection of its open transaction and no other, after
\* every return and on every error path (extractor.go 91-95, 202).
THEOREM NoConnectionIsLost == Spec => []ConnectionsAreReturned
    <1>1. LoanInv => ConnectionsAreReturned
        BY DEF LoanInv
    <1> QED
        BY <1>1, LoansInitially, LoansKept, PTL DEF Spec

-----------------------------------------------------------------------------
\* The position in the queries and the phase agree.
StepInv ==
    \A p \in Procs :
        /\ phase[p] \in {"path", "begin", "set"} => step[p] = 1
        /\ phase[p] = "read" => step[p] \in 1..Len(Queries)
        /\ phase[p] \in {"commit", "done"} => step[p] = Len(Queries) + 1

\* An object exists in a schema that exists.
SchemasExist == \A o \in Objects : catalog[o] # 0 => catalog[SchemaOf[o]] # 0

\* What a transaction has read of an object nobody touched is what it would read now.
ReadIsCurrent ==
    \A p \in Procs : phase[p] \in {"read", "commit", "done"} =>
        \A i \in 1..step[p] - 1 : \A o \in Objects \ touched[p] :
            seen[p][Queries[i]][o] = Selected(Queries[i], o)

ExactInv == TypeOK /\ StepInv /\ SchemasExist /\ ReadIsCurrent

LEMMA QueriesFact ==
    /\ Len(Queries) = 16
    /\ \A i \in 1..16 : Queries[i] \in ToSet(Queries)
    /\ \A q \in ToSet(Queries) : \E i \in 1..16 : Queries[i] = q
    BY DEF Queries, ToSet

LEMMA ExactInitially == Init => ExactInv
    <1> SUFFICES ASSUME Init PROVE ExactInv
        OBVIOUS
    <1> USE ObjectsAssumption, QueriesFact
    <1>1. catalog \in [Objects -> 0..MaxVersion] /\ SchemasExist
        BY DEF Init, SchemasExist
    <1>2. NoRows \in [ToSet(Queries) -> [Objects -> 0..Partial]]
        BY DEF NoRows, Partial
    <1>3. TypeOK
        BY <1>1, <1>2 DEF Init, TypeOK
    <1>4. StepInv /\ ReadIsCurrent
        BY DEF Init, StepInv, ReadIsCurrent
    <1> QED
        BY <1>1, <1>3, <1>4 DEF ExactInv

\* A step that reads nothing and begins no transaction's reading.
LEMMA ExactUnread ==
    ASSUME ExactInv, NEW p \in Procs, NEW s, TypeOK',
           phase' = [phase EXCEPT ![p] = s],
           s \in {"read", "commit", "done"} =>
                phase[p] \in {"read", "commit", "done"} \/ step[p] = 1,
           UNCHANGED <<catalog, step, seen, touched>>
    PROVE  SchemasExist' /\ ReadIsCurrent'
    <1> USE DEF ExactInv
    <1>1. SchemasExist'
        BY DEF SchemasExist
    <1>2. ReadIsCurrent'
        <2> SUFFICES ASSUME NEW q \in Procs, phase'[q] \in {"read", "commit", "done"},
                            NEW i \in 1..step[q] - 1, NEW o \in Objects \ touched[q]
                     PROVE  seen[q][Queries[i]][o] = Selected(Queries[i], o)
            BY DEF ReadIsCurrent, Selected
        <2>1. phase[q] \in {"read", "commit", "done"}
            BY DEF TypeOK
        <2> QED
            BY <2>1 DEF ReadIsCurrent
    <1> QED
        BY <1>1, <1>2

\* A query returns what is in the catalog, and the earlier ones are as before.
LEMMA ExactQuery ==
    ASSUME ExactInv, NEW p \in Procs, NEW query \in ToSet(Queries),
           Query(p, query, Found(query))
    PROVE  ExactInv'
    <1> USE DEF ExactInv
    <1> DEFINE rows == [o \in Objects |-> Selected(query, o)]
    <1>1. /\ phase[p] = "read" /\ Queries[step[p]] = query
          /\ seen' = [seen EXCEPT ![p][query] = rows]
          /\ step' = [step EXCEPT ![p] = step[p] + 1]
          /\ phase' = [phase EXCEPT ![p] = IF step[p] = Len(Queries) THEN "commit" ELSE "read"]
          /\ UNCHANGED <<catalog, path, owner, saved, reported, touched>>
        BY DEF Query, Found, server
    <1>2. rows \in [Objects -> 0..Partial] /\ \A o \in Objects : rows[o] = Selected(query, o)
        BY ObjectsAssumption DEF Selected, Partial, TypeOK
    <1> HIDE DEF rows
    <1>3. step[p] \in 1..16 /\ Len(Queries) = 16
        BY <1>1, QueriesFact DEF StepInv
    <1>4. /\ step' \in [Procs -> 1..Len(Queries) + 1]
          /\ step'[p] = step[p] + 1
          /\ \A q \in Procs \ {p} : step'[q] = step[q]
        BY <1>1, <1>3 DEF TypeOK
    <1>5. /\ phase' \in [Procs -> {"idle", "path", "begin", "set", "read", "commit", "done", "failed"}]
          /\ phase'[p] = IF step[p] = 16 THEN "commit" ELSE "read"
          /\ \A q \in Procs \ {p} : phase'[q] = phase[q]
        BY <1>1, <1>3 DEF TypeOK
    <1>6. /\ seen' \in [Procs -> [ToSet(Queries) -> [Objects -> 0..Partial]]]
          /\ seen'[p][query] = rows
          /\ \A other \in ToSet(Queries) \ {query} : seen'[p][other] = seen[p][other]
          /\ \A q \in Procs \ {p} : seen'[q] = seen[q]
        BY <1>1, <1>2 DEF TypeOK
    <1>7. TypeOK'
        BY <1>1, <1>4, <1>5, <1>6 DEF TypeOK
    <1>8. StepInv'
        BY <1>3, <1>4, <1>5 DEF StepInv
    <1>9. SchemasExist'
        BY <1>1 DEF SchemasExist
    <1>10. ReadIsCurrent'
        <2> SUFFICES ASSUME NEW q \in Procs, phase'[q] \in {"read", "commit", "done"},
                            NEW i \in 1..step'[q] - 1, NEW o \in Objects \ touched[q]
                     PROVE  seen'[q][Queries[i]][o] = Selected(Queries[i], o)
            BY <1>1 DEF ReadIsCurrent, Selected
        <2>1. CASE q # p
            <3>1. phase'[q] = phase[q] /\ step'[q] = step[q] /\ seen'[q] = seen[q]
                BY <1>4, <1>5, <1>6, <2>1
            <3> QED
                BY <3>1 DEF ReadIsCurrent
        <2>2. CASE q = p
            <3>1. i \in 1..16 /\ i \in 1..step[p]
                BY <1>3, <1>4, <2>2
            <3>2. CASE Queries[i] = query
                BY <1>2, <1>6, <2>2, <3>2
            <3>3. CASE Queries[i] # query
                <4>1. i \in 1..step[p] - 1
                    BY <1>1, <1>3, <3>1, <3>3
                <4>2. seen'[p][Queries[i]] = seen[p][Queries[i]]
                    BY <1>6, <3>1, <3>3, QueriesFact
                <4> QED
                    BY <1>1, <2>2, <4>1, <4>2 DEF ReadIsCurrent
            <3> QED
                BY <3>2, <3>3
        <2> QED
            BY <2>1, <2>2
    <1> QED
        BY <1>7, <1>8, <1>9, <1>10

\* A change by another session is added to what every transaction has seen touched.
LEMMA ExactChange ==
    ASSUME ExactInv, ChangeCatalog
    PROVE  ExactInv'
    <1> USE DEF ExactInv
    <1>1. PICK o \in Objects, v \in 0..MaxVersion :
                /\ v # 0 => KindOf[o] = "schema" \/ catalog[SchemaOf[o]] # 0
                /\ v = 0 => \A m \in Objects \ {o} : SchemaOf[m] = o => catalog[m] = 0
                /\ catalog' = [catalog EXCEPT ![o] = v]
                /\ touched' = [p \in Procs |-> touched[p] \cup {o}]
        BY DEF ChangeCatalog
    <1>2. UNCHANGED <<path, owner, phase, step, saved, reported, seen>>
        BY DEF ChangeCatalog
    <1>3. /\ catalog' \in [Objects -> 0..MaxVersion]
          /\ catalog'[o] = v
          /\ \A m \in Objects \ {o} : catalog'[m] = catalog[m]
        BY <1>1 DEF TypeOK
    <1>4. TypeOK'
        <2>1. touched' \in [Procs -> SUBSET Objects]
            BY <1>1 DEF TypeOK
        <2> QED
            BY <1>2, <1>3, <2>1 DEF TypeOK
    <1>5. StepInv'
        BY <1>2 DEF StepInv
    <1>6. SchemasExist'
        <2> SUFFICES ASSUME NEW m \in Objects, catalog'[m] # 0
                     PROVE  catalog'[SchemaOf[m]] # 0
            BY DEF SchemasExist
        <2>1. SchemaOf[m] \in Objects
            BY ObjectsAssumption
        <2>2. CASE m = o
            BY <1>1, <1>3, <2>1, <2>2, ObjectsAssumption
        <2>3. CASE m # o
            BY <1>1, <1>3, <2>1, <2>3 DEF SchemasExist
        <2> QED
            BY <2>2, <2>3
    <1>7. ReadIsCurrent'
        <2> SUFFICES ASSUME NEW q \in Procs, phase[q] \in {"read", "commit", "done"},
                            NEW i \in 1..step[q] - 1, NEW m \in Objects \ touched'[q]
                     PROVE  seen[q][Queries[i]][m] = Selected(Queries[i], m)'
            BY <1>2 DEF ReadIsCurrent, Selected
        <2>1. m \in Objects \ touched[q] /\ m # o
            BY <1>1
        <2> QED
            BY <1>3, <2>1 DEF ReadIsCurrent, Selected
    <1> QED
        BY <1>4, <1>5, <1>6, <1>7

\* The steps before the first query.
LEMMA ExactBegin ==
    ASSUME ExactInv, NEW p \in Procs,
           GetVersion(p) \/ GetSearchPath(p) \/ BeginTx(p) \/ SetTxSearchPath(p)
    PROVE  ExactInv'
    <1> USE DEF ExactInv
    <1>1. NoRows \in [ToSet(Queries) -> [Objects -> 0..Partial]] /\ Len(Queries) = 16
        BY ObjectsAssumption, QueriesFact DEF NoRows, Partial
    <1>2. TypeOK'
        <2>1. CASE GetVersion(p)
            <3>1. /\ phase' = [phase EXCEPT ![p] = "path"]
                  /\ step' = [step EXCEPT ![p] = 1]
                  /\ seen' = [seen EXCEPT ![p] = NoRows]
                  /\ UNCHANGED <<catalog, path, owner, saved, reported, touched>>
                BY <2>1 DEF GetVersion, server
            <3>2. 1 \in 1..Len(Queries) + 1
                BY <1>1
            <3>3. seen' \in [Procs -> [ToSet(Queries) -> [Objects -> 0..Partial]]]
                BY <1>1, <3>1 DEF TypeOK
            <3>4. step' \in [Procs -> 1..Len(Queries) + 1]
                BY <3>1, <3>2 DEF TypeOK
            <3> QED
                BY <3>1, <3>3, <3>4 DEF TypeOK
        <2>2. CASE GetSearchPath(p)
            BY <2>2 DEF GetSearchPath, TypeOK, server
        <2>3. CASE BeginTx(p)
            <3>1. PICK c \in Conns : /\ owner' = [owner EXCEPT ![c] = {p}]
                                     /\ saved' = [saved EXCEPT ![p] = path[c]]
                BY <2>3 DEF BeginTx
            <3>2. /\ phase' = [phase EXCEPT ![p] = "set"]
                  /\ touched' = [touched EXCEPT ![p] = {}]
                  /\ UNCHANGED <<catalog, path, step, reported, seen>>
                BY <2>3 DEF BeginTx, server
            <3>3. owner' \in [Conns -> {{}} \cup {{q} : q \in Procs}]
                BY <3>1 DEF TypeOK
            <3>4. saved' \in [Procs -> {"default", "empty"}]
                BY <3>1 DEF TypeOK
            <3> QED
                BY <3>2, <3>3, <3>4 DEF TypeOK
        <2>4. CASE SetTxSearchPath(p)
            BY <2>4 DEF SetTxSearchPath, TypeOK, server
        <2> QED
            BY <2>1, <2>2, <2>3, <2>4
    <1>3. StepInv'
        <2> SUFFICES ASSUME NEW q \in Procs
                     PROVE  /\ phase'[q] \in {"path", "begin", "set"} => step'[q] = 1
                            /\ phase'[q] = "read" => step'[q] \in 1..Len(Queries)
                            /\ phase'[q] \in {"commit", "done"} => step'[q] = Len(Queries) + 1
            BY DEF StepInv
        <2>1. CASE q = p
            <3>1. step[p] = 1 \/ GetVersion(p)
                BY DEF StepInv, GetSearchPath, BeginTx, SetTxSearchPath
            <3>2. step'[p] = 1
                BY <3>1 DEF TypeOK, GetVersion, GetSearchPath, BeginTx, SetTxSearchPath
            <3>3. phase'[p] \in {"path", "begin", "set", "read"}
                BY DEF TypeOK, GetVersion, GetSearchPath, BeginTx, SetTxSearchPath
            <3> QED
                BY <1>1, <2>1, <3>2, <3>3
        <2>2. CASE q # p
            <3>1. phase'[q] = phase[q] /\ step'[q] = step[q]
                BY <2>2 DEF TypeOK, GetVersion, GetSearchPath, BeginTx, SetTxSearchPath
            <3> QED
                BY <3>1 DEF StepInv
        <2> QED
            BY <2>1, <2>2
    <1>4. SchemasExist'
        BY DEF SchemasExist, GetVersion, GetSearchPath, BeginTx, SetTxSearchPath, server
    <1>5. ReadIsCurrent'
        <2> SUFFICES ASSUME NEW q \in Procs, phase'[q] \in {"read", "commit", "done"},
                            NEW i \in 1..step'[q] - 1, NEW o \in Objects \ touched'[q]
                     PROVE  seen'[q][Queries[i]][o] = Selected(Queries[i], o)'
            BY DEF ReadIsCurrent
        <2>1. catalog' = catalog
            BY DEF GetVersion, GetSearchPath, BeginTx, SetTxSearchPath, server
        <2>2. CASE q = p
            <3>1. phase'[p] = "read" => step'[p] = 1
                <4>1. CASE SetTxSearchPath(p)
                    BY <4>1 DEF StepInv, TypeOK, SetTxSearchPath
                <4>2. CASE GetVersion(p) \/ GetSearchPath(p) \/ BeginTx(p)
                    BY <4>2 DEF TypeOK, GetVersion, GetSearchPath, BeginTx
                <4> QED
                    BY <4>1, <4>2
            <3>2. phase'[p] \in {"path", "begin", "set", "read"}
                BY DEF TypeOK, GetVersion, GetSearchPath, BeginTx, SetTxSearchPath
            <3> QED
                BY <2>2, <3>1, <3>2
        <2>3. CASE q # p
            <3>1. /\ phase'[q] = phase[q] /\ step'[q] = step[q]
                  /\ seen'[q] = seen[q] /\ touched'[q] = touched[q]
                BY <2>3 DEF TypeOK, GetVersion, GetSearchPath, BeginTx, SetTxSearchPath
            <3> QED
                BY <2>1, <3>1 DEF ReadIsCurrent, Selected
        <2> QED
            BY <2>2, <2>3
    <1> QED
        BY <1>2, <1>3, <1>4, <1>5

\* The steps after the last query, and the failures.
LEMMA ExactEnd ==
    ASSUME ExactInv, NEW p \in Procs, Commit(p) \/ FailStatement(p) \/ FailUnsupported(p)
    PROVE  ExactInv'
    <1> USE DEF ExactInv
    <1>1. Released(p) \in [Conns -> {{}} \cup {{q} : q \in Procs}]
        BY DEF Released, TypeOK
    <1>2. \E s \in {"done", "failed"} :
                /\ phase' = [phase EXCEPT ![p] = s]
                /\ s = "done" => phase[p] = "commit"
        BY DEF Commit, FailStatement, FailUnsupported, ReturnError
    <1>3. UNCHANGED <<catalog, step, seen, touched, saved, reported>> /\ owner' = Released(p)
        BY DEF Commit, FailStatement, FailUnsupported, ReturnError, server
    <1>4. path' \in [Conns -> {"default", "empty"}]
        BY DEF Commit, FailStatement, FailUnsupported, ReturnError, TypeOK
    <1>5. TypeOK'
        BY <1>1, <1>2, <1>3, <1>4 DEF TypeOK
    <1>6. StepInv'
        BY <1>2, <1>3 DEF StepInv, TypeOK
    <1>7. SchemasExist' /\ ReadIsCurrent'
        BY <1>2, <1>3, <1>5, ExactUnread
    <1> QED
        BY <1>5, <1>6, <1>7

LEMMA ExactKept == ExactInv /\ [Next]_vars => ExactInv'
    <1> SUFFICES ASSUME ExactInv, [Next]_vars
                 PROVE  ExactInv'
        OBVIOUS
    <1>1. ASSUME NEW p \in Procs, ReadStep(p)
          PROVE  ExactInv'
        BY <1>1, EveryQuery, ExactQuery
    <1>2. CASE UNCHANGED vars
        BY <1>2 DEF vars, server, ExactInv, TypeOK, StepInv, SchemasExist, ReadIsCurrent, Selected
    <1> QED
        BY <1>1, <1>2, ExactBegin, ExactEnd, ExactChange DEF Next

\* Every variable keeps its type.
THEOREM TypesHold == Spec => []TypeOK
    <1>1. ExactInv => TypeOK
        BY DEF ExactInv
    <1> QED
        BY <1>1, ExactInitially, ExactKept, PTL DEF Spec

-----------------------------------------------------------------------------
\* The queries an object is assembled from all select its kind.
LEMMA SourcesSelect ==
    ASSUME NEW o \in Objects
    PROVE  /\ ListedBy(KindOf[o]) \in SourcesOf(o)
           /\ \A q \in SourcesOf(o) : q \in ToSet(Queries) /\ KindOf[o] \in KindsOf(q)
           /\ o \in Unparsed => "fks" \notin SourcesOf(o)
    <1>1. KindOf[o] \in Kinds /\ (o \in Unparsed => KindOf[o] = "table")
        BY ObjectsAssumption
    <1>2. \A q \in {"schemas", "columns", "indexes", "triggers", "checks", "fks",
                    "partitions", "tables", "views", "mviews", "functions",
                    "procedures", "sequences", "extensions", "enums"} : q \in ToSet(Queries)
        BY DEF Queries, ToSet
    <1>3. CASE KindOf[o] = "table"
        <2>1. /\ SourcesOf(o) = {"tables"} \cup (PartQueries \ IF o \in Unparsed THEN {"fks"} ELSE {})
              /\ ListedBy(KindOf[o]) = "tables"
            BY <1>3 DEF SourcesOf, ListedBy
        <2> QED
            BY <1>2, <1>3, <2>1 DEF PartQueries, KindsOf
    <1>4. CASE KindOf[o] \in {"view", "mview"}
        <2>1. /\ SourcesOf(o) = {ListedBy(KindOf[o])} \cup {"columns"}
              /\ ListedBy(KindOf[o]) = IF KindOf[o] = "view" THEN "views" ELSE "mviews"
            BY <1>4 DEF SourcesOf, ListedBy
        <2> QED
            BY <1>1, <1>2, <1>4, <2>1 DEF KindsOf
    <1>5. CASE KindOf[o] \in {"schema", "function", "procedure", "sequence", "extension", "enum"}
        <2>1. SourcesOf(o) = {ListedBy(KindOf[o])}
            BY <1>5 DEF SourcesOf
        <2>2. ListedBy(KindOf[o]) \in ToSet(Queries) /\ KindOf[o] \in KindsOf(ListedBy(KindOf[o]))
            BY <1>2, <1>5 DEF ListedBy, KindsOf
        <2> QED
            BY <1>1, <1>5, <2>1, <2>2
    <1> QED
        BY <1>1, <1>3, <1>4, <1>5 DEF Kinds

\* What nobody changed during a transaction is extracted exactly, whatever else
\* changes between two of its queries (extractor.go 91-229), except the routines the name
\* filters confuse with others and the foreign keys of a table one of whose cannot be parsed.
THEOREM UntouchedIsExtracted == Spec => []UntouchedIsExact
    <1>1. ExactInv => UntouchedIsExact
        <2> SUFFICES ASSUME ExactInv, NEW p \in Procs, phase[p] = "done", NEW o \in Objects,
                            o \notin touched[p], SchemaOf[o] \notin touched[p], ~Confused(o)
                     PROVE  /\ o \in Extracted(p) <=> catalog[o] # 0
                            /\ o \in Extracted(p) => VersionsOf(p, o) = {catalog[o]}
            BY DEF UntouchedIsExact
        <2>1. \A q \in ToSet(Queries) : \A m \in Objects \ touched[p] :
                    seen[p][q][m] = Selected(q, m)
            BY QueriesFact DEF ExactInv, StepInv, ReadIsCurrent
        <2>2. \A q \in SourcesOf(o) : seen[p][q][o] = catalog[o]
            BY <2>1, SourcesSelect DEF Selected
        <2>3. VersionsOf(p, o) = {catalog[o]}
            BY <2>2, SourcesSelect DEF VersionsOf
        <2>4. seen[p]["schemas"][SchemaOf[o]] = catalog[SchemaOf[o]]
            <3>1. SchemaOf[o] \in Objects /\ KindOf[SchemaOf[o]] = "schema"
                BY ObjectsAssumption
            <3>2. "schemas" \in ToSet(Queries) /\ KindsOf("schemas") = {"schema"}
                BY DEF Queries, ToSet, KindsOf
            <3> QED
                BY <2>1, <3>1, <3>2 DEF Selected
        <2>5. catalog[o] # 0 => catalog[SchemaOf[o]] # 0
            BY DEF ExactInv, SchemasExist
        <2>6. ~Skipped(p, o)
            BY DEF Skipped, Confused
        <2> QED
            BY <2>2, <2>3, <2>4, <2>5, <2>6, SourcesSelect DEF Extracted
    <1> QED
        BY <1>1, ExactInitially, ExactKept, PTL DEF Spec
=============================================================================

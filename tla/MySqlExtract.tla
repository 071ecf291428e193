---------------------------- MODULE MySqlExtract ----------------------------
(***************************************************************************)
(* extractor/mysql Extractor.ExtractSchema, run by several goroutines on   *)
(* one sql.DB while other sessions change the database.  There is no       *)
(* transaction: each query takes a connection of the pool and gives it     *)
(* back when its rows are read.  Two methods, getEvents and getRoutines,   *)
(* ask for a second connection for every row while the rows of their list  *)
(* are still open; getViews and getPartitions ask after their list is      *)
(* read to the end.                                                        *)
(*                                                                         *)
(* External, modelled from how the extractor uses them: the server, whose  *)
(* catalog gives every object a version, 0 when it does not exist, and     *)
(* database/sql's pool of connections.                                     *)
(***************************************************************************)
EXTENDS Naturals, Sequences, FiniteSets, SequencesExt

CONSTANTS
    Procs,        \* goroutines that call ExtractSchema
    Conns,        \* the connections of the pool
    Objects,      \* everything that may exist in the database
    KindOf,       \* its kind, a member of Kinds
    Partitioned,  \* the tables that have partitions
    Homonyms,     \* the tables a check of which has a namesake in another database
    Catalogs,     \* the contents the catalog may have at first
    MaxVersion,   \* bound: versions an object goes through
    MaxDDL,       \* bound: changes to the catalog
    MaxRuns,      \* bound: calls of ExtractSchema a goroutine makes
    MaxFailures   \* bound: statements that fail

Kinds == {"table", "view", "event", "function", "procedure"}

\* The objects whose SHOW CREATE may give nothing without failing the call.
Refusable == Partitioned \cup {o \in Objects : KindOf[o] \in {"event", "function", "procedure"}}

ASSUME ObjectsAssumption ==
    /\ KindOf \in [Objects -> Kinds]
    /\ Partitioned \cup Homonyms \subseteq {o \in Objects : KindOf[o] = "table"}

ASSUME PoolAssumption == IsFiniteSet(Procs) /\ IsFiniteSet(Conns)

ASSUME CatalogsAssumption == MaxVersion \in Nat /\ Catalogs \subseteq [Objects -> 0..MaxVersion]

VARIABLES
    catalog,    \* version of every object, 0 if it does not exist
    dropped,    \* the whole database was dropped
    ddls,       \* changes made so far
    owner,      \* the goroutine each connection is lent to, or {}
    phase,      \* what each goroutine is doing
    step,       \* position in Queries of the query a goroutine runs next or is running
    pending,    \* rows of its list whose SHOW CREATE is still to run
    seen,       \* what each of its queries returned
    refused,    \* objects whose SHOW CREATE gave nothing: a table's failed, with a
                \* warning only; an event's or routine's definition was NULL
    touched,    \* objects changed since its call began
    runs,       \* calls made by each goroutine
    failures    \* statements that failed so far

server == <<catalog, dropped, ddls>>
vars == <<server, owner, phase, step, pending, seen, refused, touched, runs, failures>>

\* The queries of a call, in order; "show" stands for the SHOW CREATE statements.
Queries == <<"indexes", "columns", "checks", "views", "triggers", "events", "fks",
             "fkcolumns", "partitions", "routines", "tables", "database">>
TableQueries == {"indexes", "columns", "checks", "triggers", "fks", "fkcolumns",
                 "partitions", "tables"}

\* What a query returns of a table's checks when those of another database's namesake
\* are among them: no version of the table.
Mixed == MaxVersion + 1

NoRows == [q \in ToSet(Queries) \cup {"show"} |-> [o \in Objects |-> 0]]

TypeOK ==
    /\ catalog \in [Objects -> 0..MaxVersion]
    /\ dropped \in BOOLEAN
    /\ owner \in [Conns -> {{}} \cup {{p} : p \in Procs}]
    /\ phase \in [Procs -> {"idle", "read", "shows", "rows", "done", "failed"}]
    /\ step \in [Procs -> 1..Len(Queries)]
    /\ pending \in [Procs -> SUBSET Objects]
    /\ DOMAIN seen = Procs
    /\ \A p \in Procs : \A q \in ToSet(Queries) \cup {"show"} :
           seen[p][q] \in [Objects -> 0..Mixed]
    /\ refused \in [Procs -> SUBSET Refusable]
    /\ touched \in [Procs -> SUBSET Objects]

Init ==
    /\ catalog \in Catalogs
    /\ dropped = FALSE
    /\ ddls = 0
    /\ owner = [c \in Conns |-> {}]
    /\ phase = [p \in Procs |-> "idle"]
    /\ step = [p \in Procs |-> 1]
    /\ pending = [p \in Procs |-> {}]
    /\ seen = [p \in Procs |-> NoRows]
    /\ refused = [p \in Procs |-> {}]
    /\ touched = [p \in Procs |-> {}]
    /\ runs = [p \in Procs |-> 0]
    /\ failures = 0

-----------------------------------------------------------------------------
Free(c) == owner[c] = {}
Held(p, c) == owner[c] = {p}
Released(p) == [c \in Conns |-> IF Held(p, c) THEN {} ELSE owner[c]]
ConnectionIsFree == \E c \in Conns : Free(c)

\* Rows a query returns of the objects of some kinds.
Rows(kinds) == [o \in Objects |-> IF KindOf[o] \in kinds THEN catalog[o] ELSE 0]
Listed(kinds) == {o \in Objects : Rows(kinds)[o] # 0}

\* SELECT VERSION(): which columns the next queries name.  A goroutine may call
\* again, whatever became of its last call.
GetVersion(p) ==
    /\ phase[p] \in {"idle", "done", "failed"} /\ runs[p] < MaxRuns
    /\ ConnectionIsFree
    /\ runs' = [runs EXCEPT ![p] = @ + 1]
    /\ phase' = [phase EXCEPT ![p] = "read"]
    /\ step' = [step EXCEPT ![p] = 1]
    /\ seen' = [seen EXCEPT ![p] = NoRows]
    /\ refused' = [refused EXCEPT ![p] = {}]
    /\ touched' = [touched EXCEPT ![p] = {}]
    /\ UNCHANGED <<server, owner, pending, failures>>

\* A query whose rows are read to the end at once: its connection is back in the
\* pool before the next one is asked for.
Query(p, query, rows) ==
    /\ phase[p] = "read" /\ Queries[step[p]] = query
    /\ ConnectionIsFree
    /\ seen' = [seen EXCEPT ![p][query] = rows]
    /\ step' = [step EXCEPT ![p] = @ + 1]
    /\ UNCHANGED <<server, owner, phase, pending, refused, touched, runs, failures>>

GetIndexes(p) == Query(p, "indexes", Rows({"table"}))
GetColumns(p) == Query(p, "columns", Rows({"table", "view"}))
GetTriggers(p) == Query(p, "triggers", Rows({"table"}))
GetTables(p) == Query(p, "tables", Rows({"table", "view"}))

\* The join is by the names of the checks, whatever database they are in: the checks of
\* a namesake come with a table's own.
ChecksFound ==
    [o \in Objects |-> IF o \in Homonyms /\ catalog[o] # 0 THEN Mixed ELSE Rows({"table"})[o]]
GetCheckConstraints(p) == Query(p, "checks", ChecksFound)

\* Two queries, the foreign keys first and then their columns.
GetForeignKeys(p) == Query(p, "fks", Rows({"table"}))
GetForeignKeyColumns(p) == Query(p, "fkcolumns", Rows({"table"}))

\* A list read to the end, followed by a SHOW CREATE for each of some of its rows.
ListThenShow(p, query, kinds, show) ==
    /\ phase[p] = "read" /\ Queries[step[p]] = query
    /\ ConnectionIsFree
    /\ seen' = [seen EXCEPT ![p][query] = Rows(kinds)]
    /\ pending' = [pending EXCEPT ![p] = Listed(kinds) \cap show]
    /\ phase' = [phase EXCEPT ![p] = "shows"]
    /\ UNCHANGED <<server, owner, step, refused, touched, runs, failures>>

GetViews(p) == ListThenShow(p, "views", {"view"}, Objects)
GetPartitions(p) == ListThenShow(p, "partitions", {"table"}, Partitioned)

\* A list whose rows stay open, with their connection, while the SHOW CREATE of
\* each row runs on another connection.
ListWhileShowing(p, query, kinds) ==
    /\ phase[p] = "read" /\ Queries[step[p]] = query
    /\ \E c \in Conns : Free(c) /\ owner' = [owner EXCEPT ![c] = {p}]
    /\ seen' = [seen EXCEPT ![p][query] = Rows(kinds)]
    /\ pending' = [pending EXCEPT ![p] = Listed(kinds)]
    /\ phase' = [phase EXCEPT ![p] = "rows"]
    /\ UNCHANGED <<server, step, refused, touched, runs, failures>>

GetEvents(p) == ListWhileShowing(p, "events", {"event"})

\* Faulty variant: the procedures are left out of the list.
GetRoutinesFunctionsOnly(p) == ListWhileShowing(p, "routines", {"function"})

GetRoutines(p) == ListWhileShowing(p, "routines", {"function", "procedure"})

-----------------------------------------------------------------------------
\* One SHOW CREATE, which reads version v of o.
Shown(p, o, v) ==
    /\ ConnectionIsFree
    /\ seen' = [seen EXCEPT ![p]["show"][o] = v]
    /\ pending' = [pending EXCEPT ![p] = @ \ {o}]
    /\ UNCHANGED <<server, owner, phase, step, refused, touched, runs, failures>>

\* SHOW CREATE VIEW: the definition the list gave is kept when the statement does
\* not have the expected form.
ReconcileViewDefinition(p) ==
    /\ phase[p] = "shows" /\ Queries[step[p]] = "views"
    /\ \E o \in pending[p] :
        /\ catalog[o] # 0
        /\ \E v \in {catalog[o], seen[p]["views"][o]} : Shown(p, o, v)

\* One SHOW CREATE that gives no row, or NULL: o is kept without a definition.
ShownAsNull(p, o) ==
    /\ ConnectionIsFree
    /\ refused' = [refused EXCEPT ![p] = @ \cup {o}]
    /\ pending' = [pending EXCEPT ![p] = @ \ {o}]
    /\ UNCHANGED <<server, owner, phase, step, seen, touched, runs, failures>>

\* SHOW CREATE EVENT, FUNCTION or PROCEDURE, while the list is open.  The server may send
\* NULL for the definition, as it does to a user who may not see it.
GetCreateStmt(p) ==
    /\ phase[p] = "rows"
    /\ \E o \in pending[p] :
        /\ catalog[o] # 0
        /\ Shown(p, o, catalog[o]) \/ ShownAsNull(p, o)

\* Faulty variant: a table that is gone fails the call.
GetPartitionDefaultsOrFail(p) ==
    /\ phase[p] = "shows" /\ Queries[step[p]] = "partitions"
    /\ ConnectionIsFree
    /\ \E o \in pending[p] :
        /\ seen' = [seen EXCEPT ![p]["show"][o] = catalog[o]]
        /\ pending' = [pending EXCEPT ![p] = @ \ {o}]
        /\ phase' = [phase EXCEPT ![p] = IF catalog[o] = 0 THEN "failed" ELSE "shows"]
    /\ UNCHANGED <<server, owner, step, refused, touched, runs, failures>>

\* SHOW CREATE TABLE: a table that is gone loses its default partition counts.
GetPartitionDefaults(p) ==
    /\ phase[p] = "shows" /\ Queries[step[p]] = "partitions"
    /\ \E o \in pending[p] : Shown(p, o, catalog[o])

\* Faulty variant: the rows of the list stay open.
FinishRowsOpen(p) ==
    /\ phase[p] \in {"shows", "rows"} /\ pending[p] = {}
    /\ phase' = [phase EXCEPT ![p] = "read"]
    /\ step' = [step EXCEPT ![p] = @ + 1]
    /\ UNCHANGED <<server, owner, pending, seen, refused, touched, runs, failures>>

\* No row is left: Next closes the list, its connection goes back to the pool.
FinishRows(p) ==
    /\ phase[p] \in {"shows", "rows"} /\ pending[p] = {}
    /\ owner' = Released(p)
    /\ phase' = [phase EXCEPT ![p] = "read"]
    /\ step' = [step EXCEPT ![p] = @ + 1]
    /\ UNCHANGED <<server, pending, seen, refused, touched, runs, failures>>

\* The schema is assembled; the database's own row is read last.
GetDatabase(p) ==
    /\ phase[p] = "read" /\ Queries[step[p]] = "database"
    /\ ConnectionIsFree
    /\ phase' = [phase EXCEPT ![p] = IF dropped THEN "failed" ELSE "done"]
    /\ UNCHANGED <<server, owner, step, pending, seen, refused, touched, runs, failures>>

-----------------------------------------------------------------------------
\* A call returns an error; the deferred Close gives the connection of an open list
\* back.
ReturnError(p) ==
    /\ phase' = [phase EXCEPT ![p] = "failed"]
    /\ owner' = Released(p)
    /\ pending' = [pending EXCEPT ![p] = {}]
    /\ UNCHANGED <<server, step, seen, refused, touched, runs>>

\* Faulty variant: the object is kept with an empty definition.
FailMissingSkipped(p) ==
    /\ phase[p] \in {"shows", "rows"} /\ Queries[step[p]] # "partitions"
    /\ \E o \in pending[p] : catalog[o] = 0 /\ Shown(p, o, 0)

\* The object a row of the list names was dropped meanwhile: SHOW CREATE fails, and
\* with it the call.
FailMissing(p) ==
    /\ phase[p] \in {"shows", "rows"} /\ Queries[step[p]] # "partitions"
    /\ \E o \in pending[p] : catalog[o] = 0
    /\ ConnectionIsFree
    /\ ReturnError(p)
    /\ UNCHANGED failures

\* Faulty variant: without the deferred Close the list stays open.
FailStatementLeaking(p) ==
    /\ phase[p] \in {"read", "shows", "rows"}
    /\ Queries[step[p]] = "partitions" => phase[p] = "read"
    /\ failures < MaxFailures
    /\ failures' = failures + 1
    /\ phase' = [phase EXCEPT ![p] = "failed"]
    /\ pending' = [pending EXCEPT ![p] = {}]
    /\ UNCHANGED <<server, owner, step, seen, refused, touched, runs>>

\* A statement fails: the context is cancelled, the server refuses it.
FailStatement(p) ==
    /\ phase[p] \in {"read", "shows", "rows"}
    /\ Queries[step[p]] = "partitions" => phase[p] = "read"
    /\ failures < MaxFailures
    /\ failures' = failures + 1
    /\ ReturnError(p)

\* SHOW CREATE TABLE fails: a warning is logged and the call goes on.
RefusePartitionDefaults(p) ==
    /\ phase[p] = "shows" /\ Queries[step[p]] = "partitions"
    /\ failures < MaxFailures
    /\ failures' = failures + 1
    /\ \E o \in pending[p] \cap Partitioned :
        /\ pending' = [pending EXCEPT ![p] = @ \ {o}]
        /\ refused' = [refused EXCEPT ![p] = @ \cup {o}]
    /\ UNCHANGED <<server, owner, phase, step, seen, touched, runs>>

\* Another session creates, alters or drops an object.
ChangeCatalog ==
    /\ ddls < MaxDDL /\ ~dropped
    /\ \E o \in Objects, v \in 0..MaxVersion :
        /\ v # catalog[o]
        /\ catalog' = [catalog EXCEPT ![o] = v]
        /\ touched' = [p \in Procs |-> touched[p] \cup {o}]
    /\ ddls' = ddls + 1
    /\ UNCHANGED <<dropped, owner, phase, step, pending, seen, refused, runs, failures>>

\* Another session drops the database.
DropDatabase ==
    /\ ddls < MaxDDL /\ ~dropped
    /\ dropped' = TRUE
    /\ catalog' = [o \in Objects |-> 0]
    /\ touched' = [p \in Procs |-> Objects]
    /\ ddls' = ddls + 1
    /\ UNCHANGED <<owner, phase, step, pending, seen, refused, runs, failures>>

\* The next step of the code of a call.
CallStep(p) ==
    \/ GetIndexes(p) \/ GetColumns(p) \/ GetCheckConstraints(p) \/ GetViews(p)
    \/ ReconcileViewDefinition(p) \/ GetTriggers(p) \/ GetEvents(p) \/ GetCreateStmt(p)
    \/ GetForeignKeys(p) \/ GetForeignKeyColumns(p) \/ GetPartitions(p)
    \/ GetPartitionDefaults(p) \/ GetRoutines(p) \/ FinishRows(p) \/ GetTables(p)
    \/ GetDatabase(p) \/ FailMissing(p)

Next ==
    \/ \E p \in Procs :
        GetVersion(p) \/ CallStep(p) \/ FailStatement(p) \/ RefusePartitionDefaults(p)
    \/ ChangeCatalog \/ DropDatabase

\* A goroutine that waits for a connection is served in turn, because database/sql
\* queues the requests: it cannot be passed over for ever.
Spec == Init /\ [][Next]_vars /\ \A p \in Procs : SF_vars(CallStep(p))

-----------------------------------------------------------------------------
(***************************************************************************)
(* The schema a call returns, assembled from the rows of its queries.      *)
(***************************************************************************)
Extracted(p) ==
    {o \in Objects :
        CASE KindOf[o] = "table" -> seen[p]["tables"][o] # 0
          [] KindOf[o] = "view" -> seen[p]["tables"][o] # 0 /\ seen[p]["views"][o] # 0
          [] KindOf[o] = "event" -> seen[p]["events"][o] # 0
          [] OTHER -> seen[p]["routines"][o] # 0}

\* The queries the parts of an object come from.  Three parts are not what the database
\* holds, however quiet it is: the checks of a table with a homonymous check, the partition
\* counts of a table whose SHOW CREATE failed, a definition sent as NULL.
SourcesOf(p, o) ==
    CASE KindOf[o] = "table" ->
            (TableQueries \ IF o \in Homonyms THEN {"checks"} ELSE {})
                \cup (IF o \in Partitioned \ refused[p] THEN {"show"} ELSE {})
      [] KindOf[o] = "view" -> {"columns", "show"}
      [] KindOf[o] = "event" -> {"events"} \cup (IF o \in refused[p] THEN {} ELSE {"show"})
      [] OTHER -> {"routines"} \cup (IF o \in refused[p] THEN {} ELSE {"show"})
VersionsOf(p, o) == {seen[p][q][o] : q \in SourcesOf(p, o)}

\* What nobody changed since the call began is extracted exactly: it is there if it
\* exists, and all its parts are of its one version, whatever else changes between two of
\* the queries (extractor.go 65-171).  Excepted are the three parts SourcesOf leaves out.
UntouchedIsExact ==
    \A p \in Procs : phase[p] = "done" =>
        \A o \in Objects \ touched[p] :
            /\ o \in Extracted(p) <=> catalog[o] # 0
            /\ o \in Extracted(p) => VersionsOf(p, o) = {catalog[o]}

\* A view, event or routine that is returned has a definition unless the server sent
\* NULL for that of an event or routine.  One dropped after it was listed is never
\* returned without: it fails the call instead (extractor.go 647-655, 774-777, 841-844,
\* 1118-1121, 1132-1135, 1199-1215, 1263-1273).
DefinitionsAreReal ==
    \A p \in Procs : phase[p] = "done" =>
        \A o \in Extracted(p) :
            KindOf[o] # "table" => (seen[p]["show"][o] = 0 <=> o \in refused[p])

\* A call fails only at a statement of its own that fails, at the row of the database when
\* that is gone, or at a view, event or routine of the list it works on that was dropped
\* since the call began: no change to a table makes it fail (extractor.go 1019-1023,
\* 1353-1356).
ErrorsHaveCause ==
    [][\A p \in Procs : phase[p] # "failed" /\ phase'[p] = "failed" =>
        \/ failures' > failures
        \/ dropped /\ Queries[step[p]] = "database"
        \/ \E o \in touched[p] :
                /\ KindOf[o] # "table" /\ catalog[o] = 0
                /\ seen[p][Queries[step[p]]][o] # 0]_vars

\* The connections on loan are those of the lists being read, one per goroutine: none
\* is lost on an error path (extractor.go 765, 1104).
ConnectionsAreReturned ==
    \A p \in Procs :
        /\ phase[p] = "rows" => \E c \in Conns : Held(p, c)
        /\ \A c, d \in Conns : Held(p, c) /\ Held(p, d) => c = d
        /\ phase[p] # "rows" => \A c \in Conns : ~Held(p, c)

\* With more connections than goroutines, the goroutines that hold a list's connection
\* and wait for a second one never all wait: a connection is left for one of them.
PoolNeverExhausted == Cardinality(Conns) > Cardinality(Procs) => ConnectionIsFree

\* Every call returns.
EveryCallReturns == \A p \in Procs : phase[p] = "read" ~> phase[p] \in {"done", "failed"}
=============================================================================

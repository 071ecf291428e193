----------------------------- MODULE PgExtract -----------------------------
(***************************************************************************)
(* extractor/postgres Extractor.ExtractSchema, run by several goroutines   *)
(* on one sql.DB while other sessions change the database.  The server's   *)
(* catalog gives every object a version, 0 when it does not exist; a table *)
(* is read by eight queries, each of which sees the version of its moment: *)
(* BeginTx asks for a read-only transaction and leaves the isolation level *)
(* at the server's default, READ COMMITTED.                                *)
(*                                                                         *)
(* External, modelled from how the extractor uses them: the server (its    *)
(* catalog, the session's search_path, which SET changes for the session   *)
(* when the transaction commits and ROLLBACK restores, the catalog columns *)
(* a release has) and database/sql's pool of connections.                  *)
(***************************************************************************)
EXTENDS Naturals, Sequences, FiniteSets, SequencesExt

CONSTANTS
    Procs,        \* goroutines that call ExtractSchema
    Conns,        \* the connections of the pool
    Objects,      \* everything that may exist in the database, schemas included
    KindOf,       \* its kind, a member of Kinds
    SchemaOf,     \* its schema, itself for a schema
    NameOf,       \* its name, shared by overloaded functions
    Owned,        \* the objects an extension owns
    SystemNames,  \* names in systemFunctions
    Unparsed,     \* the tables with a foreign key between quoted names
    Catalogs,     \* the contents the catalog may have at first
    Releases,     \* major versions of the server, from 10 on
    MaxVersion,   \* bound: versions an object goes through
    MaxDDL,       \* bound: changes to the catalog
    MaxRuns,      \* bound: calls of ExtractSchema a goroutine makes
    MaxFailures   \* bound: statements that fail

Kinds == {"schema", "table", "view", "mview", "function", "procedure",
          "sequence", "extension", "enum"}

ASSUME ObjectsAssumption ==
    /\ KindOf \in [Objects -> Kinds]
    /\ SchemaOf \in [Objects -> Objects]
    /\ \A o \in Objects : KindOf[SchemaOf[o]] = "schema"
    /\ \A o \in Objects : KindOf[o] = "schema" => SchemaOf[o] = o
    /\ Unparsed \subseteq {o \in Objects : KindOf[o] = "table"}
    /\ MaxVersion \in Nat
    /\ \A c \in Catalogs :
        /\ c \in [Objects -> 0..MaxVersion]
        /\ \A o \in Objects : c[o] # 0 => c[SchemaOf[o]] # 0
    /\ Releases \subseteq Nat \ 0..9

VARIABLES
    release,    \* the server's major version
    catalog,    \* version of every object, 0 if it does not exist
    ddls,       \* changes made so far
    path,       \* search_path of each connection's session
    owner,      \* the goroutine each connection is lent to, or {}
    phase,      \* what each goroutine is doing
    step,       \* position in Queries of a goroutine's next query
    saved,      \* search_path of its connection when its transaction began
    reported,   \* the search path it read at the start
    seen,       \* what each of its queries returned
    touched,    \* objects changed since its transaction began
    runs,       \* calls made by each goroutine
    failures    \* statements that failed so far

server == <<release, catalog, ddls>>
vars == <<server, path, owner, phase, step, saved, reported, seen, touched, runs, failures>>

\* The queries of the transaction, in order.
Queries == <<"extensionDepend", "schemas", "columns", "indexes", "triggers", "checks",
             "fks", "partitions", "tables", "views", "mviews", "functions",
             "procedures", "sequences", "extensions", "enums">>
PartQueries == {"columns", "indexes", "triggers", "checks", "fks", "partitions"}

\* What is kept of a table's foreign keys when one of them cannot be parsed: not those of
\* any version of the table.
Partial == MaxVersion + 1

NoRows == [q \in ToSet(Queries) |-> [o \in Objects |-> 0]]

TypeOK ==
    /\ catalog \in [Objects -> 0..MaxVersion]
    /\ path \in [Conns -> {"default", "empty"}]
    /\ owner \in [Conns -> {{}} \cup {{p} : p \in Procs}]
    /\ phase \in [Procs -> {"idle", "path", "begin", "set", "read", "commit", "done", "failed"}]
    /\ step \in [Procs -> 1..Len(Queries) + 1]
    /\ saved \in [Procs -> {"default", "empty"}]
    /\ reported \in [Procs -> {"default", "empty"}]
    /\ seen \in [Procs -> [ToSet(Queries) -> [Objects -> 0..Partial]]]
    /\ touched \in [Procs -> SUBSET Objects]

Init ==
    /\ release \in Releases
    /\ catalog \in Catalogs
    /\ ddls = 0
    /\ path = [c \in Conns |-> "default"]
    /\ owner = [c \in Conns |-> {}]
    /\ phase = [p \in Procs |-> "idle"]
    /\ step = [p \in Procs |-> 1]
    /\ saved = [p \in Procs |-> "default"]
    /\ reported = [p \in Procs |-> "default"]
    /\ seen = [p \in Procs |-> NoRows]
    /\ touched = [p \in Procs |-> {}]
    /\ runs = [p \in Procs |-> 0]
    /\ failures = 0

-----------------------------------------------------------------------------
Free(c) == owner[c] = {}
Held(p, c) == owner[c] = {p}

\* SHOW server_version on any idle connection, which goes back to the pool.
GetVersion(p) ==
    /\ phase[p] \in {"idle", "done", "failed"} /\ runs[p] < MaxRuns
    /\ \E c \in Conns : Free(c)
    /\ runs' = [runs EXCEPT ![p] = @ + 1]
    /\ phase' = [phase EXCEPT ![p] = "path"]
    /\ step' = [step EXCEPT ![p] = 1]
    /\ seen' = [seen EXCEPT ![p] = NoRows]
    /\ UNCHANGED <<server, path, owner, saved, reported, touched, failures>>

\* Faulty variant: the path is taken for granted.
GetSearchPathFixed(p) ==
    /\ phase[p] = "path"
    /\ \E c \in Conns : Free(c)
    /\ reported' = [reported EXCEPT ![p] = "public"]
    /\ phase' = [phase EXCEPT ![p] = "begin"]
    /\ UNCHANGED <<server, path, owner, step, saved, seen, touched, runs, failures>>

\* SHOW search_path, likewise: what is reported is that session's path.
GetSearchPath(p) ==
    /\ phase[p] = "path"
    /\ \E c \in Conns :
        /\ Free(c)
        /\ reported' = [reported EXCEPT ![p] = path[c]]
    /\ phase' = [phase EXCEPT ![p] = "begin"]
    /\ UNCHANGED <<server, path, owner, step, saved, seen, touched, runs, failures>>

\* BeginTx lends a connection to the goroutine until the transaction ends.
BeginTx(p) ==
    /\ phase[p] = "begin"
    /\ \E c \in Conns :
        /\ Free(c)
        /\ owner' = [owner EXCEPT ![c] = {p}]
        /\ saved' = [saved EXCEPT ![p] = path[c]]
    /\ phase' = [phase EXCEPT ![p] = "set"]
    /\ touched' = [touched EXCEPT ![p] = {}]
    /\ UNCHANGED <<server, path, step, reported, seen, runs, failures>>

\* SET search_path TO '' inside the transaction.
SetTxSearchPath(p) ==
    /\ phase[p] = "set"
    /\ path' = [c \in Conns |-> IF Held(p, c) THEN "empty" ELSE path[c]]
    /\ phase' = [phase EXCEPT ![p] = "read"]
    /\ UNCHANGED <<server, owner, step, saved, reported, seen, touched, runs, failures>>

\* The first release whose catalog has every column a query names: prokind came
\* with 11, attgenerated with 12.
Since(query) ==
    CASE query \in {"extensionDepend", "functions", "procedures"} -> 11
      [] query = "columns" -> 12
      [] OTHER -> 10

\* What a query returns of the objects of the given kinds.
Rows(kinds) == [o \in Objects |-> IF KindOf[o] \in kinds THEN catalog[o] ELSE 0]

\* One query, and what the code keeps of what it returns.
Query(p, query, rows) ==
    /\ phase[p] = "read" /\ Queries[step[p]] = query
    /\ release >= Since(query)
    /\ seen' = [seen EXCEPT ![p][query] = rows]
    /\ step' = [step EXCEPT ![p] = @ + 1]
    /\ phase' = [phase EXCEPT ![p] = IF step[p] = Len(Queries) THEN "commit" ELSE "read"]
    /\ UNCHANGED <<server, path, owner, saved, reported, touched, runs, failures>>

\* Faulty variant: columns of views are not read.
GetTableColumnsOnly(p) == Query(p, "columns", Rows({"table"}))

GetExtensionDepend(p) == Query(p, "extensionDepend", Rows({"function", "procedure"}))
GetSchemas(p) == Query(p, "schemas", Rows({"schema"}))
GetTableColumns(p) == Query(p, "columns", Rows({"table", "view", "mview"}))
GetIndexes(p) == Query(p, "indexes", Rows({"table"}))
GetTriggers(p) == Query(p, "triggers", Rows({"table"}))
GetChecks(p) == Query(p, "checks", Rows({"table"}))
GetTablePartitions(p) == Query(p, "partitions", Rows({"table"}))
GetTables(p) == Query(p, "tables", Rows({"table"}))
GetViews(p) == Query(p, "views", Rows({"view"}))
GetMaterializedViews(p) == Query(p, "mviews", Rows({"mview"}))
GetFunctions(p) == Query(p, "functions", Rows({"function"}))
GetProcedures(p) == Query(p, "procedures", Rows({"procedure"}))
GetSequences(p) == Query(p, "sequences", Rows({"sequence"}))
GetExtensions(p) == Query(p, "extensions", Rows({"extension"}))
GetEnumTypes(p) == Query(p, "enums", Rows({"enum"}))

\* A foreign key whose definition the regular expression does not match, which knows no
\* quoted name, is left out with a warning.
ForeignKeysParsed ==
    [o \in Objects |-> IF o \in Unparsed /\ catalog[o] # 0 THEN Partial ELSE Rows({"table"})[o]]
GetForeignKeys(p) == Query(p, "fks", ForeignKeysParsed)

Released(p) == [c \in Conns |-> IF Held(p, c) THEN {} ELSE owner[c]]

\* Faulty variant: the transaction is never ended.
CommitNothing(p) ==
    /\ phase[p] = "commit"
    /\ phase' = [phase EXCEPT ![p] = "done"]
    /\ UNCHANGED <<server, path, owner, step, saved, reported, seen, touched, runs, failures>>

\* The transaction commits: the session keeps the empty search path.
Commit(p) ==
    /\ phase[p] = "commit"
    /\ owner' = Released(p)
    /\ phase' = [phase EXCEPT ![p] = "done"]
    /\ UNCHANGED <<server, path, step, saved, reported, seen, touched, runs, failures>>

\* A call returns an error; the deferred Rollback restores the session's path and
\* gives the connection back.
ReturnError(p) ==
    /\ phase' = [phase EXCEPT ![p] = "failed"]
    /\ path' = [c \in Conns |-> IF Held(p, c) THEN saved[p] ELSE path[c]]
    /\ owner' = Released(p)
    /\ UNCHANGED <<server, step, saved, reported, seen, touched, runs>>

\* Faulty variant: without the deferred Rollback the connection stays lent.
FailStatementLeaking(p) ==
    /\ phase[p] \in {"path", "begin", "set", "read", "commit"}
    /\ failures < MaxFailures
    /\ failures' = failures + 1
    /\ phase' = [phase EXCEPT ![p] = "failed"]
    /\ UNCHANGED <<server, path, owner, step, saved, reported, seen, touched, runs>>

\* A statement fails: the context is cancelled, the server refuses it.
FailStatement(p) ==
    /\ phase[p] \in {"path", "begin", "set", "read", "commit"}
    /\ failures < MaxFailures
    /\ failures' = failures + 1
    /\ ReturnError(p)

\* A query names a column the server's release does not have.
FailUnsupported(p) ==
    /\ phase[p] = "read" /\ release < Since(Queries[step[p]])
    /\ ReturnError(p)
    /\ UNCHANGED failures

\* Another session changes an object; a schema exists while its objects do.
ChangeCatalog ==
    /\ ddls < MaxDDL
    /\ \E o \in Objects, v \in 0..MaxVersion :
        /\ v # catalog[o]
        /\ v # 0 => KindOf[o] = "schema" \/ catalog[SchemaOf[o]] # 0
        /\ v = 0 => \A m \in Objects \ {o} : SchemaOf[m] = o => catalog[m] = 0
        /\ catalog' = [catalog EXCEPT ![o] = v]
        /\ touched' = [p \in Procs |-> touched[p] \cup {o}]
    /\ ddls' = ddls + 1
    /\ UNCHANGED <<release, path, owner, phase, step, saved, reported, seen, runs, failures>>

ReadStep(p) ==
    \/ GetExtensionDepend(p) \/ GetSchemas(p) \/ GetTableColumns(p) \/ GetIndexes(p)
    \/ GetTriggers(p) \/ GetChecks(p) \/ GetForeignKeys(p) \/ GetTablePartitions(p)
    \/ GetTables(p) \/ GetViews(p) \/ GetMaterializedViews(p) \/ GetFunctions(p)
    \/ GetProcedures(p) \/ GetSequences(p) \/ GetExtensions(p) \/ GetEnumTypes(p)

Next ==
    \/ \E p \in Procs :
        \/ GetVersion(p) \/ GetSearchPath(p) \/ BeginTx(p) \/ SetTxSearchPath(p)
        \/ ReadStep(p) \/ Commit(p) \/ FailStatement(p) \/ FailUnsupported(p)
    \/ ChangeCatalog

\* A goroutine that has its connection goes on; one that waits for a connection is
\* served in turn, because database/sql queues the requests.
Spec ==
    /\ Init /\ [][Next]_vars
    /\ \A p \in Procs :
        /\ SF_vars(GetSearchPath(p)) /\ SF_vars(BeginTx(p))
        /\ WF_vars(SetTxSearchPath(p)) /\ WF_vars(ReadStep(p))
        /\ WF_vars(Commit(p)) /\ WF_vars(FailUnsupported(p))

-----------------------------------------------------------------------------
(***************************************************************************)
(* The schema a call returns, assembled from the rows of its queries.      *)
(***************************************************************************)
ListedBy(kind) ==
    CASE kind = "schema" -> "schemas" [] kind = "table" -> "tables" [] kind = "view" -> "views"
      [] kind = "mview" -> "mviews" [] kind = "function" -> "functions"
      [] kind = "procedure" -> "procedures" [] kind = "sequence" -> "sequences"
      [] kind = "extension" -> "extensions" [] kind = "enum" -> "enums"

\* The queries the parts of an object come from; the foreign keys of a table one of whose
\* cannot be parsed are not what the database holds, however quiet it is.
SourcesOf(o) ==
    {ListedBy(KindOf[o])} \cup
        (CASE KindOf[o] = "table" -> PartQueries \ (IF o \in Unparsed THEN {"fks"} ELSE {})
           [] KindOf[o] \in {"view", "mview"} -> {"columns"}
           [] OTHER -> {})

\* The routines left out: an extension's, which are known by kind and name alone,
\* and functions with the name of a built-in one.
Skipped(p, o) ==
    \/ \E d \in Owned : /\ seen[p]["extensionDepend"][d] # 0
                        /\ <<KindOf[d], SchemaOf[d], NameOf[d]>> = <<KindOf[o], SchemaOf[o], NameOf[o]>>
    \/ KindOf[o] = "function" /\ NameOf[o] \in SystemNames

Extracted(p) ==
    {o \in Objects : /\ seen[p][ListedBy(KindOf[o])][o] # 0
                     /\ seen[p]["schemas"][SchemaOf[o]] # 0
                     /\ ~Skipped(p, o)}
VersionsOf(p, o) == {seen[p][q][o] : q \in SourcesOf(o)}

\* What nobody changed since the transaction began is extracted exactly: it is there
\* if it exists, and all its parts are of its one version, whatever else changes between
\* two queries (extractor.go 91-229).  Excepted are the routines the name filters confuse
\* with others, some of which the code loses (1118), and the foreign keys of a table one
\* of whose cannot be parsed (699-702).
Confused(o) ==
    \/ NameOf[o] \in SystemNames
    \/ \E d \in Owned : KindOf[d] = KindOf[o] /\ NameOf[d] = NameOf[o]
UntouchedIsExact ==
    \A p \in Procs : phase[p] = "done" =>
        \A o \in Objects : {o, SchemaOf[o]} \cap touched[p] = {} /\ ~Confused(o) =>
            /\ o \in Extracted(p) <=> catalog[o] # 0
            /\ o \in Extracted(p) => VersionsOf(p, o) = {catalog[o]}

InTransaction(p) == phase[p] \in {"set", "read", "commit"}

\* A goroutine holds one connection while its transaction is open and none before
\* or after, on every error path (extractor.go 91-95, 202).
ConnectionsAreReturned ==
    \A p \in Procs :
        /\ InTransaction(p) => \E c \in Conns : Held(p, c)
        /\ \A c, d \in Conns : Held(p, c) /\ Held(p, d) => c = d
        /\ ~InTransaction(p) => \A c \in Conns : ~Held(p, c)

\* Every call returns, however few connections the goroutines share.
EveryCallReturns == \A p \in Procs : phase[p] = "path" ~> phase[p] \in {"done", "failed"}

-----------------------------------------------------------------------------
(***************************************************************************)
(* What the repository says of the extraction and its code does not do.    *)
(***************************************************************************)
\* The extraction is a consistent snapshot even while the database is being
\* modified (extractor/postgres/README.md 826): no table mixes two versions.
SnapshotIsConsistent ==
    \A p \in Procs : phase[p] = "done" =>
        \A o \in Extracted(p) : Cardinality(VersionsOf(p, o)) = 1

\* SearchPath is the search path of the database (README.md 198), whatever was
\* extracted before.
SearchPathIsReported == \A p \in Procs : phase[p] = "done" => reported[p] = "default"
=============================================================================

-------------------------------- MODULE Dump --------------------------------
(***************************************************************************)
(* filter.FilterSchema and exporter.ExportSQL one after the other, as a    *)
(* caller chains them: the filtered copy is exported in the dialect of the *)
(* database's engine and the script is run.                                *)
(***************************************************************************)
EXTENDS Filter

CONSTANT MySqlDatabases     \* the databases extracted from MySQL

\* What a table consists of are lists.
ASSUME DumpAssumption ==
    /\ MySqlDatabases \subseteq Databases
    /\ \A d \in Databases : \A i \in DOMAIN d : \A t \in ToSet(d[i].lists["table"]) :
        /\ IsList(t.columns) /\ IsList(t.fks) /\ IsList(t.checks)
        /\ IsList(t.indexes) /\ IsList(t.triggers)

\* What the engines keep unique: the schemas of a database (a database of MySQL is one,
\* one of PostgreSQL has named ones only), extensions, the objects of a schema of one
\* kind, name and signature, the indexes and the triggers of a table.
ASSUME NamesAssumption ==
    \A d \in Databases :
        /\ \A i, j \in DOMAIN d : d \in MySqlDatabases \/ d[i].name = d[j].name => i = j
        /\ \A i \in DOMAIN d : d \in MySqlDatabases \/ d[i].name # ""
        /\ \A i, j \in DOMAIN d :
            \A x \in ToSet(d[i].lists["extension"]), y \in ToSet(d[j].lists["extension"]) :
                x.name = y.name => i = j
        /\ \A i \in DOMAIN d : \A k \in Kinds : \A a, b \in DOMAIN d[i].lists[k] :
            LET x == d[i].lists[k][a]
                y == d[i].lists[k][b]
            IN  /\ x.name = y.name
                /\ k \in {"function", "procedure", "rule"} => x.signature = y.signature
                => a = b
        /\ \A i \in DOMAIN d : \A t \in ToSet(d[i].lists["table"]) :
            /\ \A a, b \in DOMAIN t.indexes : t.indexes[a].name = t.indexes[b].name => a = b
            /\ \A a, b \in DOMAIN t.triggers : t.triggers[a].name = t.triggers[b].name => a = b

VARIABLES dialect, script, pos, catalog, failures

exportVars == <<dialect, script, pos, catalog, failures>>
dumpVars == <<db, filters, calls, opts, filtered, step, dialect, script, pos, catalog, failures>>

Export == INSTANCE SqlExport WITH source <- filtered, Sources <- Databases

\* DialectFromEngine.
DialectFromEngine == IF db \in MySqlDatabases THEN "mysql" ELSE "postgres"

DumpInit ==
    /\ Init
    /\ dialect = "postgres" /\ script = <<>> /\ pos = 0 /\ catalog = {} /\ failures = {}

FilterStep == Next /\ UNCHANGED exportVars

ExportStep ==
    /\ step = "filtered"
    /\ Export!ExportSQL(DialectFromEngine)
    /\ UNCHANGED <<db, filters, calls, opts, step>>

ReplayStep == Export!RunStatement /\ UNCHANGED <<db, filters, calls, opts, step>>

DumpNext == FilterStep \/ ExportStep \/ ReplayStep

DumpSpec == DumpInit /\ [][DumpNext]_dumpVars

-----------------------------------------------------------------------------
\* Stated in SqlExport: what a script that runs leaves, what is created whatever fails,
\* and what the comment on primary keys says.
ReplayRebuilds == Export!ReplayRebuilds
EarlierKindsSuffice == Export!EarlierKindsSuffice
PrimaryKeysRecreated == Export!PrimaryKeysRecreated

\* What running a script without stopping leaves after each of its statements.
Run(statements) ==
    LET ran[i \in 0..Len(statements)] ==
            IF i = 0 THEN {}
            ELSE IF Export!Succeeds(statements[i], ran[i - 1])
                 THEN ran[i - 1] \cup statements[i].makes
                 ELSE ran[i - 1]
    IN  ran
Clean(statements) ==
    \A i \in DOMAIN statements : Export!Succeeds(statements[i], Run(statements)[i - 1])

\* What the script of schemas makes, and what it needs.
Made(statements) == UNION {statements[i].makes : i \in DOMAIN statements}
Needed(statements) == UNION {statements[i].needs : i \in DOMAIN statements}

\* A filter that keeps all that the kept objects need keeps a script that runs: the
\* copy is in the order of the original (filter.go 50-103 appends in order), so if
\* the whole database's script runs, so does the filtered one.
ClosedFilterReplays ==
    Export!Replayed =>
        (Clean(Export!GenerateDDL(db, dialect)) /\ Needed(script) \subseteq Made(script)
            => failures = {})
=============================================================================

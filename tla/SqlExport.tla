----------------------------- MODULE SqlExport -----------------------------
(***************************************************************************)
(* exporter.GenerateDDL: the script for a database, and what a server      *)
(* makes of it.  A statement is the identifiers it creates, those it needs *)
(* and those that must not be there yet; an identifier is a kind and the   *)
(* parts of a name.  What a definition taken from the server needs, and    *)
(* what tells it apart from another of its name (the signature: argument   *)
(* types of a routine, table of a rule), is part of the object; the rest   *)
(* of a statement's text is left out, except the commas between the items  *)
(* of a table and the clauses of its columns.                              *)
(*                                                                         *)
(* A table also has columns, checks (their names), foreign keys (each with *)
(* the parts of the name it refers to), indexes and triggers.  The body of *)
(* a trigger is a whole CREATE TRIGGER statement when it comes from        *)
(* PostgreSQL, and only what is to be done when it comes from MySQL.  The  *)
(* default of a column is "" for none, "AUTO_INCREMENT" where the MySQL    *)
(* extractor found that, or "value"; a generated column may have one too,  *)
(* as both extractors give it (the expression, or NULL).                   *)
(*                                                                         *)
(* External: a server runs the statements in order against an empty        *)
(* database; a statement it cannot parse, that needs what is not there or  *)
(* creates what is there already fails as a whole.                         *)
(***************************************************************************)
EXTENDS Lists, FiniteSets, SequencesExt

CONSTANT Sources    \* the databases that may be exported, each a list of schemas

VARIABLES
    source,     \* the schemas being exported
    dialect,    \* "mysql" or "postgres"
    script,     \* the statements generated
    pos,        \* position of the next one to run, 0 before there is a script
    catalog,    \* what the server has created
    failures    \* positions of the statements that failed

vars == <<source, dialect, script, pos, catalog, failures>>

Dialects == {"mysql", "postgres"}

\* Unqualified names are looked up in the default schema.
DefaultSchema(d) == IF d = "postgres" THEN "public" ELSE ""
Id(kind, parts) == [kind |-> kind, parts |-> parts]

\* QualifiedName, and what the server resolves it to.
QualifiedName(schema, name, d) ==
    IF schema = "" \/ d = "mysql" THEN <<DefaultSchema(d), name>> ELSE <<schema, name>>
\* QuoteIdentifier of the name a foreign key refers to: a name the extractor has
\* qualified becomes one identifier, dot included.
QuotedReference(parts, d) == <<DefaultSchema(d)>> \o parts

\* The schema a statement creates its object in must be there.
InSchema(schema, d) ==
    IF d = "mysql" \/ schema \in {"", "public"} THEN {} ELSE {Id("schema", <<schema>>)}

\* CREATE, and what leaves alone or replaces what is there: IF NOT EXISTS, OR REPLACE
\* and COMMENT ON.
Create(makes, needs) == [makes |-> makes, needs |-> needs, fresh |-> makes, parses |-> TRUE]
CreateAnyway(makes, needs) == [Create(makes, needs) EXCEPT !.fresh = {}]

-----------------------------------------------------------------------------
(***************************************************************************)
(* Tables.                                                                 *)
(***************************************************************************)
\* The items between the parentheses, each with whether a comma follows.
ColumnCommas(t) ==
    [i \in DOMAIN t.columns |-> i < Len(t.columns) \/ t.fks # <<>> \/ t.checks # <<>>]
CheckCommas(t) ==
    [i \in DOMAIN t.checks |-> i < Len(t.checks) \/ t.fks # <<>>]
ForeignKeyCommas(t) == [i \in DOMAIN t.fks |-> i < Len(t.fks)]
ItemCommas(t) == ColumnCommas(t) \o CheckCommas(t) \o ForeignKeyCommas(t)
\* A server wants a comma after every item but the last.
WellSeparated(commas) == \A i \in DOMAIN commas : commas[i] = (i < Len(commas))

\* What is written of how a column gets its values: GENERATED, DEFAULT.
GenerateColumnDDL(c) ==
    (IF c.generated THEN {"GENERATED"} ELSE {}) \cup (IF c.default # "" THEN {c.default} ELSE {})
\* A server has no DEFAULT AUTO_INCREMENT and no generated column with a default.
AcceptsColumn(clauses) ==
    "AUTO_INCREMENT" \notin clauses /\ \A x, y \in clauses : x = y
ColumnsAccepted(t) == \A c \in ToSet(t.columns) : AcceptsColumn(GenerateColumnDDL(c))

References(t, d) == {Id("table", QuotedReference(fk.to, d)) : fk \in ToSet(t.fks)}

\* A part of a table, named after the table and its own name.
PartId(kind, tableName, name) == Id(kind, tableName \o <<name>>)

\* Column comments are for MySQL, table comments for PostgreSQL.
CreateTable(t, schema, d) ==
    LET name == QualifiedName(schema, t.name, d)
        comments == IF d = "mysql"
                    THEN {PartId("comment", name, c.name) : c \in {c \in ToSet(t.columns) : c.comment}}
                    ELSE {}
    IN  [makes |-> {Id("table", name)} \cup comments
                    \cup {PartId("column", name, c.name) : c \in ToSet(t.columns)}
                    \cup {PartId("check", name, c) : c \in ToSet(t.checks)}
                    \cup {PartId("fk", name, fk.name) : fk \in ToSet(t.fks)},
         needs |-> InSchema(schema, d) \cup t.needs \cup References(t, d),
         fresh |-> {Id("table", name)},
         parses |-> WellSeparated(ItemCommas(t)) /\ ColumnsAccepted(t)]

TableComment(t, schema, d) ==
    IF t.comment /\ d = "postgres"
    THEN <<CreateAnyway({Id("comment", QualifiedName(schema, t.name, d))},
                        {Id("table", QualifiedName(schema, t.name, d))})>>
    ELSE <<>>

\* The primary key's index is left out.
TableIndexes(t, schema, d) ==
    LET kept == KeepOnly(t.indexes, {x \in ToSet(t.indexes) : ~x.primary})
        name == QualifiedName(schema, t.name, d)
    IN  [i \in DOMAIN kept |-> Create({PartId("index", name, kept[i].name)},
                                      {Id("table", name)} \cup kept[i].needs)]

\* The body itself; only a whole statement creates a trigger.
TableTriggers(t, schema, d) ==
    LET name == QualifiedName(schema, t.name, d)
    IN  [i \in DOMAIN t.triggers |->
            IF t.triggers[i].statement
            THEN Create({PartId("trigger", name, t.triggers[i].name)},
                        {Id("table", name)} \cup t.triggers[i].needs)
            ELSE Create({}, t.triggers[i].needs)]

GenerateTableDDL(t, schema, d) ==
    <<CreateTable(t, schema, d)>> \o TableComment(t, schema, d)
        \o TableIndexes(t, schema, d) \o TableTriggers(t, schema, d)

-----------------------------------------------------------------------------
(***************************************************************************)
(* The other objects: for kinds a dialect does not have nothing is written. *)
(***************************************************************************)
WrittenIn(d, kind) ==
    CASE kind \in {"extension", "enum", "sequence", "mview", "rule"} -> d = "postgres"
      [] kind = "event" -> d = "mysql"
      [] OTHER -> TRUE

\* An extension has no qualified name; routines and rules of one name are told apart by
\* their definitions.
Signature(kind, x) ==
    IF kind \in {"function", "procedure", "rule"} THEN <<x.signature>> ELSE <<>>
NameOf(kind, x, schema, d) ==
    IF kind = "extension" THEN <<x.name>> ELSE QualifiedName(schema, x.name, d) \o Signature(kind, x)

\* The schema an extension is made in is its own field.  PostgreSQL's definition of a
\* routine is CREATE OR REPLACE, MySQL's is CREATE.
CreateObject(kind, x, schema, d) ==
    LET makes == {Id(kind, NameOf(kind, x, schema, d))}
    IN  IF kind = "extension" THEN CreateAnyway(makes, InSchema(x.schema, d))
        ELSE IF kind \in {"function", "procedure"} /\ d = "postgres"
        THEN CreateAnyway(makes, InSchema(schema, d) \cup x.needs)
        ELSE Create(makes, InSchema(schema, d) \cup x.needs)

\* Faulty variant: of the objects of one name the last is written.
GenerateObjectDDLsByName(kind, s, d) ==
    LET list == s.lists[kind]
        last == {list[i] : i \in {i \in DOMAIN list :
                                    \A j \in DOMAIN list : list[j].name = list[i].name => j <= i}}
        kept == KeepOnly(list, last)
    IN  IF WrittenIn(d, kind)
        THEN [i \in DOMAIN kept |-> CreateObject(kind, kept[i], s.name, d)]
        ELSE <<>>

GenerateObjectDDLs(kind, s, d) ==
    IF WrittenIn(d, kind)
    THEN [i \in DOMAIN s.lists[kind] |-> CreateObject(kind, s.lists[kind][i], s.name, d)]
    ELSE <<>>

CreateSchema(s, d) ==
    IF d = "postgres" /\ s.name \notin {"", "public"}
    THEN <<CreateAnyway({Id("schema", <<s.name>>)}, {})>>
    ELSE <<>>

GenerateTables(s, d) ==
    FlattenSeq([i \in DOMAIN s.lists["table"] |->
                    GenerateTableDDL(s.lists["table"][i], s.name, d)])

\* Faulty variant: the views come before the tables.
GenerateSchemaViewsFirst(s, d) ==
    CreateSchema(s, d)
        \o GenerateObjectDDLs("extension", s, d) \o GenerateObjectDDLs("enum", s, d)
        \o GenerateObjectDDLs("sequence", s, d) \o GenerateObjectDDLs("view", s, d)
        \o GenerateTables(s, d) \o GenerateObjectDDLs("mview", s, d)
        \o GenerateObjectDDLs("function", s, d) \o GenerateObjectDDLs("procedure", s, d)
        \o GenerateObjectDDLs("event", s, d) \o GenerateObjectDDLs("rule", s, d)
\* Faulty variant: the loop over the procedures goes over the functions again.
GenerateSchemaFunctionsTwice(s, d) ==
    CreateSchema(s, d)
        \o GenerateObjectDDLs("extension", s, d) \o GenerateObjectDDLs("enum", s, d)
        \o GenerateObjectDDLs("sequence", s, d) \o GenerateTables(s, d)
        \o GenerateObjectDDLs("view", s, d) \o GenerateObjectDDLs("mview", s, d)
        \o GenerateObjectDDLs("function", s, d) \o GenerateObjectDDLs("function", s, d)
        \o GenerateObjectDDLs("event", s, d) \o GenerateObjectDDLs("rule", s, d)

GenerateSchema(s, d) ==
    CreateSchema(s, d)
        \o GenerateObjectDDLs("extension", s, d) \o GenerateObjectDDLs("enum", s, d)
        \o GenerateObjectDDLs("sequence", s, d) \o GenerateTables(s, d)
        \o GenerateObjectDDLs("view", s, d) \o GenerateObjectDDLs("mview", s, d)
        \o GenerateObjectDDLs("function", s, d) \o GenerateObjectDDLs("procedure", s, d)
        \o GenerateObjectDDLs("event", s, d) \o GenerateObjectDDLs("rule", s, d)

GenerateDDL(schemas, d) ==
    FlattenSeq([i \in DOMAIN schemas |-> GenerateSchema(schemas[i], d)])

-----------------------------------------------------------------------------
Init ==
    /\ source \in Sources
    /\ dialect = "postgres"
    /\ script = <<>>
    /\ pos = 0
    /\ catalog = {}
    /\ failures = {}

\* ExportSQL, in the dialect of the database.
ExportSQL(d) ==
    /\ pos = 0
    /\ dialect' = d
    /\ script' = GenerateDDL(source, d)
    /\ pos' = 1
    /\ UNCHANGED <<source, catalog, failures>>

\* External: a statement may need what it makes, as a table its own columns.
Succeeds(statement, present) ==
    /\ statement.parses
    /\ statement.needs \subseteq present \cup statement.makes
    /\ statement.fresh \cap present = {}

RunStatement ==
    /\ pos \in DOMAIN script
    /\ IF Succeeds(script[pos], catalog)
       THEN catalog' = catalog \cup script[pos].makes /\ UNCHANGED failures
       ELSE failures' = failures \cup {pos} /\ UNCHANGED catalog
    /\ pos' = pos + 1
    /\ UNCHANGED <<source, dialect, script>>

Next == (\E d \in Dialects : ExportSQL(d)) \/ RunStatement

Spec == Init /\ [][Next]_vars

-----------------------------------------------------------------------------
Replayed == pos > 0 /\ pos > Len(script)

\* The lists of a schema in the order their objects may build on each other.
KindOrder == <<"extension", "enum", "sequence", "table", "view", "mview", "function",
               "procedure", "event", "rule">>

\* A table and what stands in its definition.
TableIds(t, name) ==
    {Id("table", name)} \cup {PartId("column", name, c.name) : c \in ToSet(t.columns)}
        \cup {PartId("check", name, c) : c \in ToSet(t.checks)}
        \cup {PartId("fk", name, fk.name) : fk \in ToSet(t.fks)}
\* What a script leaves out of a table: its primary key, the comments the other dialect
\* writes, the triggers that are not whole statements.
AttachedIds(t, name, d) ==
    {PartId("index", name, x.name) : x \in {x \in ToSet(t.indexes) : ~x.primary}}
        \cup {PartId("trigger", name, x.name) : x \in {x \in ToSet(t.triggers) : x.statement}}
        \cup (IF d = "postgres"
              THEN (IF t.comment THEN {Id("comment", name)} ELSE {})
              ELSE {PartId("comment", name, c.name) : c \in {c \in ToSet(t.columns) : c.comment}})

\* The identifiers of a schema the dialect has a statement for.
Exported(s, d) ==
    InSchema(s.name, d) \cup
    UNION {UNION {IF k = "table"
                  THEN TableIds(x, NameOf(k, x, s.name, d)) \cup AttachedIds(x, NameOf(k, x, s.name, d), d)
                  ELSE {Id(k, NameOf(k, x, s.name, d))} : x \in ToSet(s.lists[k])} :
           k \in {k \in ToSet(KindOrder) : WrittenIn(d, k)}}

\* No two statements of a script make the same object, one of two overloads and the
\* parts of tables included; and a script that runs without a failure leaves exactly
\* what the dialect exports, nothing missing or under another name (sql.go 46-143).
ReplayRebuilds ==
    Replayed =>
        /\ \A i, j \in DOMAIN script : i # j => script[i].makes \cap script[j].makes = {}
        /\ failures = {} =>
            catalog = UNION {Exported(source[i], dialect) : i \in DOMAIN source}

\* What can be created in this order: level by level, the objects whose every need is
\* of an earlier kind of the schema or of an earlier schema, and is itself one of these;
\* tables only if the server accepts each of their columns (AcceptsColumn).
Levels == Len(source) * Len(KindOrder)
SchemaAt(level) == source[((level - 1) \div Len(KindOrder)) + 1]
KindAt(level) == KindOrder[((level - 1) % Len(KindOrder)) + 1]
NeedsOf(kind, x, d) ==
    CASE kind = "table" -> x.needs \cup References(x, d)
      [] kind = "extension" -> InSchema(x.schema, d)
      [] OTHER -> x.needs
Grounded ==
    LET g[level \in 0..Levels] ==
            IF level = 0 THEN {}
            ELSE LET s == SchemaAt(level)
                     k == KindAt(level)
                     before == g[level - 1] \cup InSchema(s.name, dialect)
                 IN  before \cup
                     {Id(k, NameOf(k, x, s.name, dialect)) :
                        x \in {x \in ToSet(s.lists[k]) :
                                /\ WrittenIn(dialect, k) /\ NeedsOf(k, x, dialect) \subseteq before
                                /\ k = "table" => ColumnsAccepted(x)}}
    IN  g[Levels]

\* Whatever else fails, an object that builds on earlier kinds only is created, tables
\* with a column no server accepts excepted: the statements come in an order in which
\* nothing needs a later kind, every list of a table is separated by commas, and names
\* are written where they are looked up (sql.go 62-140, 148-181).
EarlierKindsSuffice == Replayed => Grounded \subseteq catalog

\* VIOLATED.  The comment at sql.go 203 says the primary key is part of the column
\* definition: a table that is created would then have its primary key.
PrimaryKeysRecreated ==
    Replayed =>
        \A i \in DOMAIN source : \A t \in ToSet(source[i].lists["table"]) :
            LET name == QualifiedName(source[i].name, t.name, dialect)
            IN  Id("table", name) \in catalog =>
                    \A x \in ToSet(t.indexes) :
                        x.primary => PartId("index", name, x.name) \in catalog
=============================================================================

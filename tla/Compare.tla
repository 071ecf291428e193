------------------------------ MODULE Compare ------------------------------
(***************************************************************************)
(* comparer.CompareSchemasDetailed: the differences between two extracted  *)
(* databases.  A database is a list of schemas; a schema holds one list of *)
(* objects per kind.  Every compareX function has the same body: it indexes *)
(* both lists by key, ranges over the old map for what was dropped, then   *)
(* over the new map for what was created or altered.  Go ranges over a map *)
(* in any order, so each call may append its entries in several orders.    *)
(*                                                                         *)
(* An object is [name, arg, def]: arg tells overloaded routines apart, def *)
(* is what the code compares of it (of a trigger, only the body).  A table *)
(* has lists of parts and a record of properties instead.  A part is       *)
(* [name, def, role], the role "primary" or "unique" for such an index.    *)
(***************************************************************************)
EXTENDS Naturals, Sequences, FiniteSets, SequencesExt

CONSTANT Inputs   \* pairs of databases and the properties the options ignore

\* The lists of a schema in the order they are compared.
ObjectKinds == <<"table", "view", "mview", "function", "procedure",
                 "sequence", "enum", "event", "extension">>
TableParts == {"columns", "indexes", "fks", "checks", "triggers", "partitions", "rules"}
IgnorableProps == {"Comment", "Collation", "Charset"}
TableProps == IgnorableProps \cup {"Engine"}

VARIABLES
    old, new,     \* the databases, as lists of schemas
    ignored,      \* the table properties opts ignores
    phase,        \* "dropped", "created", "shared", "new", "sort" or "done"
    at,           \* position of the loop over the schemas
    stage,        \* position in ObjectKinds of the next comparison
    mdiff         \* result: a list of entries for each kind

vars == <<old, new, ignored, phase, at, stage, mdiff>>

Kinds == {"schema"} \cup ToSet(ObjectKinds)

\* findSchema: the schemas of that name, one at most.
Found(db, name) == {db[i] : i \in {i \in DOMAIN db : db[i].name = name}}

-----------------------------------------------------------------------------
ByName(o) == <<o.name>>
BySignature(o) == <<o.name, o.arg>>
\* Functions are indexed by signature, everything else by name, procedures too.
Key(kind, o) == IF kind = "function" THEN BySignature(o) ELSE ByName(o)

\* The map of a list by key: of the objects with one key the last is kept.
Indexed(kind, list) ==
    {list[i] : i \in {i \in DOMAIN list :
        \A j \in DOMAIN list : Key(kind, list[j]) = Key(kind, list[i]) => j <= i}}

\* What the extractors deliver: lists in which no two objects have one key, but for
\* the overloads of a procedure, whose definitions begin with their arguments; only
\* MySQL, whose databases are one schema, has events.
IsList(list) == list \in Seq(ToSet(list))
UniqueKeys(kind, list) ==
    \A i, j \in DOMAIN list : Key(kind, list[i]) = Key(kind, list[j]) => i = j
IsObject(o) == o = [name |-> o.name, arg |-> o.arg, def |-> o.def]
IsPart(part, x) ==
    /\ x = [name |-> x.name, def |-> x.def, role |-> x.role]
    /\ x.role \in IF part = "indexes" THEN {"", "primary", "unique"} ELSE {""}
IsTable(t) ==
    /\ t.name \in Nat
    /\ DOMAIN t.props = TableProps
    /\ \A p \in TableParts :
        /\ IsList(t.parts[p]) /\ UniqueKeys(p, t.parts[p])
        /\ \A x \in ToSet(t.parts[p]) : IsPart(p, x)
IsSchema(s) ==
    /\ s.name \in Nat \ {0}
    /\ \A k \in ToSet(ObjectKinds) :
        /\ IsList(s.lists[k])
        /\ k # "procedure" => UniqueKeys(k, s.lists[k])
        /\ \A o \in ToSet(s.lists[k]) : IF k = "table" THEN IsTable(o) ELSE IsObject(o)
IsDatabase(db) ==
    /\ IsList(db)
    /\ \A i, j \in DOMAIN db : db[i].name = db[j].name => i = j
    /\ \A i \in DOMAIN db : IsSchema(db[i]) /\ (db[i].lists["event"] # <<>> => Len(db) = 1)
DefinitionsTellArguments(olds, news) ==
    \A o \in ToSet(olds), n \in ToSet(news) : o.name = n.name /\ o.def = n.def => o.arg = n.arg

ASSUME InputsAssumption ==
    \A input \in Inputs :
        /\ IsDatabase(input.old) /\ IsDatabase(input.new)
        /\ input.ignored \subseteq IgnorableProps
        /\ \A i \in DOMAIN input.old, j \in DOMAIN input.new :
            \A k \in ToSet(ObjectKinds) \ {"table", "function"} :
                DefinitionsTellArguments(input.old[i].lists[k], input.new[j].lists[k])

Entry(action, was, is) == [action |-> action, was |-> was, is |-> is]

\* What the range over the old map appends, and the range over the new one.
Drops(kind, olds, news) ==
    {Entry("DROP", {o}, {}) : o \in {o \in Indexed(kind, olds) :
        \A n \in Indexed(kind, news) : Key(kind, n) # Key(kind, o)}}
\* Faulty variant: old and new object swapped.
CreatesSwapped(kind, olds, news) ==
    {Entry("CREATE", {n}, {}) : n \in {n \in Indexed(kind, news) :
        \A o \in Indexed(kind, olds) : Key(kind, n) # Key(kind, o)}}
Creates(kind, olds, news) ==
    {Entry("CREATE", {}, {n}) : n \in {n \in Indexed(kind, news) :
        \A o \in Indexed(kind, olds) : Key(kind, n) # Key(kind, o)}}
\* The objects both maps have, of which the changed ones are altered.
Shared(kind, olds, news) ==
    {p \in Indexed(kind, olds) \X Indexed(kind, news) : Key(kind, p[1]) = Key(kind, p[2])}
Alters(pairs) == {Entry("ALTER", {p[1]}, {p[2]}) : p \in pairs}

DefChanged(o, n) == o.def # n.def
RoleOrDefChanged(o, n) == o.def # n.def \/ o.role # n.role
PartChanged(part, o, n) ==
    IF part = "indexes" THEN RoleOrDefChanged(o, n) ELSE DefChanged(o, n)

\* The entries of one list of a TableDiff; their order, that of the map, is open.
PartDiffs(o, n, part) ==
    LET olds == o.parts[part]
        news == n.parts[part]
    IN  Drops(part, olds, news) \cup Creates(part, olds, news)
            \cup Alters({p \in Shared(part, olds, news) : PartChanged(part, p[1], p[2])})

ColumnDiffs(o, n) == PartDiffs(o, n, "columns")
IndexDiffs(o, n) == PartDiffs(o, n, "indexes")
ForeignKeyDiffs(o, n) == PartDiffs(o, n, "fks")
CheckDiffs(o, n) == PartDiffs(o, n, "checks")
TriggerDiffs(o, n) == PartDiffs(o, n, "triggers")
PartitionDiffs(o, n) == PartDiffs(o, n, "partitions")
RuleDiffs(o, n) == PartDiffs(o, n, "rules")

\* splitIndexDiffs: the index entries of one role.
OfRole(entries, role) ==
    {e \in entries :
        LET roles == {i.role : i \in e.was \cup e.is}
        IN  role = IF "primary" \in roles THEN "primary"
                   ELSE IF "unique" \in roles THEN "unique" ELSE ""}

\* Faulty variant: changes of check constraints are forgotten.
TableDiffUnchecked(o, n) ==
    [columns |-> ColumnDiffs(o, n), indexes |-> OfRole(IndexDiffs(o, n), ""),
     pk |-> OfRole(IndexDiffs(o, n), "primary"), unique |-> OfRole(IndexDiffs(o, n), "unique"),
     fks |-> ForeignKeyDiffs(o, n), checks |-> {}, triggers |-> TriggerDiffs(o, n),
     partitions |-> PartitionDiffs(o, n), rules |-> RuleDiffs(o, n),
     props |-> {p \in DOMAIN o.props \ ignored : o.props[p] # n.props[p]}]

\* compareTableDetails.
TableDiff(o, n) ==
    [columns |-> ColumnDiffs(o, n), indexes |-> OfRole(IndexDiffs(o, n), ""),
     pk |-> OfRole(IndexDiffs(o, n), "primary"), unique |-> OfRole(IndexDiffs(o, n), "unique"),
     fks |-> ForeignKeyDiffs(o, n), checks |-> CheckDiffs(o, n), triggers |-> TriggerDiffs(o, n),
     partitions |-> PartitionDiffs(o, n), rules |-> RuleDiffs(o, n),
     props |-> {p \in DOMAIN o.props \ ignored : o.props[p] # n.props[p]}]

\* Faulty variant: changed properties do not count.
HasChangesOfParts(o, n) ==
    \E list \in DOMAIN TableDiff(o, n) \ {"props"} : TableDiff(o, n)[list] # {}

\* TableDiff.HasChanges of an altered table.
HasChanges(o, n) == \E list \in DOMAIN TableDiff(o, n) : TableDiff(o, n)[list] # {}

-----------------------------------------------------------------------------
Init ==
    /\ \E input \in Inputs : old = input.old /\ new = input.new /\ ignored = input.ignored
    /\ phase = "dropped"
    /\ at = 1
    /\ stage = 1
    /\ mdiff = [schema |-> <<>>, table |-> <<>>, view |-> <<>>, mview |-> <<>>,
                function |-> <<>>, procedure |-> <<>>, sequence |-> <<>>, enum |-> <<>>,
                event |-> <<>>, extension |-> <<>>]

\* An entry of a top-level list; schema is 0 where the code sets no SchemaName.
Placed(schema, entry) ==
    [schema |-> schema, action |-> entry.action, was |-> entry.was, is |-> entry.is]

\* compareSchemasLevel: an entry for each schema the other database has not.
CompareSchema(action, db, other) ==
    /\ at <= Len(db)
    /\ mdiff' = IF Found(other, db[at].name) = {}
                THEN [mdiff EXCEPT !["schema"] = Append(@, Placed(db[at].name, Entry(action, {}, {})))]
                ELSE mdiff
    /\ at' = at + 1
    /\ UNCHANGED <<old, new, ignored, phase, stage>>

DropSchema == phase = "dropped" /\ CompareSchema("DROP", old, new)
CreateSchema == phase = "created" /\ CompareSchema("CREATE", new, old)

DroppedDone ==
    /\ phase = "dropped" /\ at > Len(old)
    /\ phase' = "created"
    /\ at' = 1
    /\ UNCHANGED <<old, new, ignored, stage, mdiff>>

CreatedDone ==
    /\ phase = "created" /\ at > Len(new)
    /\ phase' = "shared"
    /\ at' = 1
    /\ UNCHANGED <<old, new, ignored, stage, mdiff>>

\* A dropped schema is skipped: no entry is made for its objects.
SkipDroppedSchema ==
    /\ phase = "shared" /\ at <= Len(old) /\ stage = 1
    /\ Found(new, old[at].name) = {}
    /\ at' = at + 1
    /\ UNCHANGED <<old, new, ignored, phase, stage, mdiff>>

\* compareEnumValues: what happened to the values of an enum.
EnumFlags(o, n) ==
    LET added == ToSet(n.def) \ ToSet(o.def)
        removed == ToSet(o.def) \ ToSet(n.def)
    IN  {f \in {"added", "removed", "reordered"} :
            \/ f = "added" /\ added # {}
            \/ f = "removed" /\ removed # {}
            \/ f = "reordered" /\ added = {} /\ removed = {} /\ o.def # n.def}
\* Whether a compareX call makes an ALTER entry for an object both maps have.
Changed(kind, o, n) ==
    CASE kind = "table" -> HasChanges(o, n)
      [] kind = "enum" -> EnumFlags(o, n) # {}
      [] OTHER -> DefChanged(o, n)

\* The schema an entry names: none for an event.
SchemaNamed(kind, schema) == IF kind = "event" THEN 0 ELSE schema.name

\* One compareX call on a schema both databases have.
CompareLists(kind) ==
    /\ phase = "shared" /\ at <= Len(old) /\ ObjectKinds[stage] = kind
    /\ \E n \in Found(new, old[at].name) :
        LET olds == old[at].lists[kind]
            news == n.lists[kind]
            altered == {p \in Shared(kind, olds, news) : Changed(kind, p[1], p[2])}
        IN  \E d \in SetToSeqs(Drops(kind, olds, news)),
               c \in SetToSeqs(Creates(kind, olds, news) \cup Alters(altered)) :
                mdiff' = [mdiff EXCEPT ![kind] = @ \o [i \in DOMAIN (d \o c) |->
                                Placed(SchemaNamed(kind, old[at]), (d \o c)[i])]]
    /\ stage' = IF stage = Len(ObjectKinds) THEN 1 ELSE stage + 1
    /\ at' = IF stage = Len(ObjectKinds) THEN at + 1 ELSE at
    /\ UNCHANGED <<old, new, ignored, phase>>

CompareTables == CompareLists("table")
CompareViews == CompareLists("view")
CompareMaterializedViews == CompareLists("mview")
CompareFunctions == CompareLists("function")
CompareProcedures == CompareLists("procedure")
CompareSequences == CompareLists("sequence")
CompareEnumTypes == CompareLists("enum")
CompareEvents == CompareLists("event")
CompareExtensions == CompareLists("extension")

SharedDone ==
    /\ phase = "shared" /\ at > Len(old)
    /\ phase' = "new"
    /\ at' = 1
    /\ UNCHANGED <<old, new, ignored, stage, mdiff>>

SkipSharedSchema ==
    /\ phase = "new" /\ at <= Len(new)
    /\ Found(old, new[at].name) # {}
    /\ at' = at + 1
    /\ UNCHANGED <<old, new, ignored, phase, stage, mdiff>>

\* Faulty variant: every schema of the new database is taken for a new one.
AddAnySchema ==
    /\ phase = "new" /\ at <= Len(new)
    /\ mdiff' = [mdiff EXCEPT !["table"] = @ \o
                    [i \in DOMAIN new[at].lists["table"] |->
                        Placed(new[at].name, Entry("CREATE", {}, {new[at].lists["table"][i]}))]]
    /\ at' = at + 1
    /\ UNCHANGED <<old, new, ignored, phase, stage>>

\* A new schema gets a second CREATE entry, and entries for its tables only.
AddNewSchema ==
    /\ phase = "new" /\ at <= Len(new)
    /\ Found(old, new[at].name) = {}
    /\ mdiff' = [mdiff EXCEPT
            !["schema"] = Append(@, Placed(new[at].name, Entry("CREATE", {}, {}))),
            !["table"] = @ \o [i \in DOMAIN new[at].lists["table"] |->
                Placed(new[at].name, Entry("CREATE", {}, {new[at].lists["table"][i]}))]]
    /\ at' = at + 1
    /\ UNCHANGED <<old, new, ignored, phase, stage>>

NewDone ==
    /\ phase = "new" /\ at > Len(new)
    /\ phase' = "sort"
    /\ UNCHANGED <<old, new, ignored, at, stage, mdiff>>

\* The names an entry is sorted by: the schema, and in it the object.
ObjectOf(entry) == CHOOSE o \in entry.was \cup entry.is : TRUE
Before(d, e) == d.schema < e.schema
BeforeTable(d, e) ==
    \/ d.schema < e.schema
    \/ d.schema = e.schema /\ ObjectOf(d).name < ObjectOf(e).name

\* The list in order; entries that compare equal here are equal.
Sorted(list, Less(_, _)) ==
    LET earlier(j) == {i \in DOMAIN list :
                        Less(list[i], list[j]) \/ (~Less(list[j], list[i]) /\ i < j)}
    IN  [n \in DOMAIN list |-> list[CHOOSE j \in DOMAIN list : Cardinality(earlier(j)) = n - 1]]

\* Faulty variant: the tables are sorted by schema only.
SortDiffsBySchema ==
    /\ phase = "sort"
    /\ mdiff' = [mdiff EXCEPT !["schema"] = Sorted(@, Before), !["table"] = Sorted(@, Before)]
    /\ phase' = "done"
    /\ UNCHANGED <<old, new, ignored, at, stage>>

\* sortMetadataDiff.
SortDiffs ==
    /\ phase = "sort"
    /\ mdiff' = [mdiff EXCEPT !["schema"] = Sorted(@, Before), !["table"] = Sorted(@, BeforeTable)]
    /\ phase' = "done"
    /\ UNCHANGED <<old, new, ignored, at, stage>>

Next ==
    \/ DropSchema \/ DroppedDone \/ CreateSchema \/ CreatedDone
    \/ SkipDroppedSchema
    \/ CompareTables \/ CompareViews \/ CompareMaterializedViews
    \/ CompareFunctions \/ CompareProcedures
    \/ CompareSequences \/ CompareEnumTypes \/ CompareEvents \/ CompareExtensions
    \/ SharedDone \/ SkipSharedSchema \/ AddNewSchema \/ NewDone \/ SortDiffs

Spec == Init /\ [][Next]_vars

-----------------------------------------------------------------------------
TypeOK ==
    /\ phase \in {"dropped", "created", "shared", "new", "sort", "done"}
    /\ at \in 1..Len(old) + Len(new) + 1
    /\ stage \in 1..Len(ObjectKinds)
    /\ \A k \in Kinds : \A i \in DOMAIN mdiff[k] :
        /\ mdiff[k][i].schema \in Nat
        /\ mdiff[k][i].action \in {"CREATE", "DROP", "ALTER"}
        /\ (mdiff[k][i].was = {}) = (k = "schema" \/ mdiff[k][i].action = "CREATE")
        /\ (mdiff[k][i].is = {}) = (k = "schema" \/ mdiff[k][i].action = "DROP")

\* What is compared of an object, and of a table.
Ignoring(props) == [p \in DOMAIN props \ ignored |-> props[p]]
Contents(kind, objects) ==
    IF kind = "table"
    THEN {[name |-> t.name, parts |-> [p \in TableParts |-> ToSet(t.parts[p])],
           props |-> Ignoring(t.props)] : t \in objects}
    ELSE objects
ListContents(kind, list) == Contents(kind, ToSet(list))

\* A table with the lists of its TableDiff applied.
WasIn(entries) == UNION {e.was : e \in entries}
IsIn(entries) == UNION {e.is : e \in entries}
Applied(o, n) ==
    LET d == TableDiff(o, n)
        entries == [columns |-> d.columns, indexes |-> d.indexes \cup d.pk \cup d.unique,
                    fks |-> d.fks, checks |-> d.checks, triggers |-> d.triggers,
                    partitions |-> d.partitions, rules |-> d.rules]
    IN  [name |-> o.name,
         parts |-> [p \in TableParts |->
                        (ToSet(o.parts[p]) \ WasIn(entries[p])) \cup IsIn(entries[p])],
         props |-> [p \in DOMAIN o.props \ ignored |->
                        IF p \in d.props THEN n.props[p] ELSE o.props[p]]]

\* A list of the old database with the entries for its schema applied.
Patched(kind, schema, list) ==
    LET entries == {e \in ToSet(mdiff[kind]) : e.schema = schema}
        altered == {e \in entries : e.action = "ALTER"}
        kept == {o \in ToSet(list) : \A e \in entries : o \notin e.was}
    IN  Contents(kind, kept \cup IsIn(entries \ altered))
            \cup (IF kind = "table"
                  THEN UNION {{Applied(o, n) : o \in e.was, n \in e.is} : e \in altered}
                  ELSE IsIn(altered))

\* What a comparison sees of a list: all of it, but of overloaded procedures the last
\* alone, as they are told apart by their names (compare.go 895-903).
LastOverloads(procedures) ==
    {procedures[i] : i \in {i \in DOMAIN procedures :
        \A j \in DOMAIN procedures : procedures[j].name = procedures[i].name => j <= i}}
Seen(kind, list) == IF kind = "procedure" THEN LastOverloads(list) ELSE ToSet(list)

\* A list that has become another as far as a comparison sees: what it does not see stays.
Reconciled(kind, olds, news) ==
    Contents(kind, Seen(kind, news) \cup (ToSet(olds) \ Seen(kind, olds)))

\* Applying the entries to a schema both databases have gives the new schema, and
\* the entries for a new schema give its tables: no change of an object, of a part
\* of a table or of a property the options do not ignore is missed, invented or
\* reported under the wrong object, in whatever order the maps are ranged over.  The
\* exception are the overloads of a procedure: the last of the old ones becomes the last
\* of the new ones, and the others stay what they were (compare.go 59-145, 886-950).
DiffReconciles ==
    phase = "done" =>
        \A i \in DOMAIN new :
            /\ \A o \in Found(old, new[i].name) : \A k \in ToSet(ObjectKinds) :
                    Patched(k, SchemaNamed(k, o), o.lists[k]) =
                        Reconciled(k, o.lists[k], new[i].lists[k])
            /\ Found(old, new[i].name) = {} =>
                    Patched("table", new[i].name, <<>>) = ListContents("table", new[i].lists["table"])

\* No object has two entries: nothing is both dropped and created, and the loop
\* over new schemas repeats nothing of the loop over shared ones (compare.go 59-139).
OneEntryPerObject ==
    \A k \in ToSet(ObjectKinds) : \A i, j \in DOMAIN mdiff[k] :
        /\ mdiff[k][i].schema = mdiff[k][j].schema
        /\ \E o \in mdiff[k][i].was \cup mdiff[k][i].is, n \in mdiff[k][j].was \cup mdiff[k][j].is :
                Key(k, o) = Key(k, n)
        => i = j

\* The entries of tables come out in one order whatever the maps do: by schema and
\* name, no two alike (compare.go 1245-1258).
TableOrderIsDetermined ==
    phase = "done" =>
        \A i, j \in DOMAIN mdiff["table"] : i < j => BeforeTable(mdiff["table"][i], mdiff["table"][j])

IsEmpty == \A k \in Kinds : mdiff[k] = <<>>
Same(one, other) ==
    /\ {one[i].name : i \in DOMAIN one} = {other[i].name : i \in DOMAIN other}
    /\ \A i \in DOMAIN one : \A o \in Found(other, one[i].name) : \A k \in ToSet(ObjectKinds) :
            Contents(k, Seen(k, one[i].lists[k])) = Contents(k, Seen(k, o.lists[k]))

\* The result is empty exactly when the databases are alike in everything that is
\* compared, which of overloaded procedures is the last (compare.go 54-150, 886-950,
\* diff/types.go 252-264).
EmptyIffSame == phase = "done" => (IsEmpty <=> Same(old, new))
=============================================================================

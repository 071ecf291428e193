----------------------------- MODULE Migration -----------------------------
(***************************************************************************)
(* A caller's way from two databases to a migration plan and a report:     *)
(* comparer.CompareSchemasDetailed (Compare), planner.AnalyzeStrategy      *)
(* (Planner, with Ordering) on its result, and the formatters on both.     *)
(***************************************************************************)
EXTENDS Compare, Report

CONSTANTS
    Ids,            \* the identifiers the operations may have
    NotNullDefs,    \* the definitions of columns that are NOT NULL
    DefaultDefs     \* and of those that have a default

ASSUME ColumnAssumption == DefaultDefs \subseteq Nat /\ NotNullDefs \subseteq Nat

VARIABLES
    handed,     \* the MetadataDiff as the planner sees it
    planStage, planAt, operations, highRiskOps, dataLossOps, outcome, reviewed,
    pos, visited, tempMark, stack, cursor, ordered, ordering    \* see Planner

planVars == <<planStage, planAt, operations, highRiskOps, dataLossOps, outcome, reviewed,
              pos, visited, tempMark, stack, cursor, ordered, ordering>>
migrationVars == <<vars, handed, planVars>>

Plan == INSTANCE Planner WITH
    mdiff <- handed, stage <- planStage, at <- planAt, Diffs <- {}

-----------------------------------------------------------------------------
(***************************************************************************)
(* What the planner reads of an entry, which Compare keeps as the objects. *)
(***************************************************************************)
NotNull(columns) == \E c \in columns : c.def \in NotNullDefs
HasDefault(columns) == \E c \in columns : c.def \in DefaultDefs
ColumnFlags(entry) ==
    {f \in {"required", "tightened"} :
        /\ NotNull(entry.is)
        /\ IF f = "required" THEN ~HasDefault(entry.is) ELSE entry.was # {} /\ ~NotNull(entry.was)}

Item(entry, flags) ==
    [action |-> entry.action, flags |-> flags, was |-> entry.was, is |-> entry.is]

\* The lists a set of entries may have come out as: Compare leaves their order open.
Lists(entries) ==
    {[i \in DOMAIN s |-> Item(s[i], {})] : s \in SetToSeqs(entries)}
ColumnLists(entries) ==
    {[i \in DOMAIN s |-> Item(s[i], ColumnFlags(s[i]))] : s \in SetToSeqs(entries)}

NoItems == [col |-> <<>>, idx |-> <<>>, fk |-> <<>>, chk |-> <<>>, pk |-> <<>>,
            unique |-> <<>>, trigger |-> <<>>, partition |-> <<>>, rule |-> <<>>]
TableLists(o, n) ==
    LET d == TableDiff(o, n)
    IN  {[col |-> c, idx |-> i, fk |-> f, chk |-> k, pk |-> p, unique |-> u,
          trigger |-> t, partition |-> q, rule |-> r] :
            c \in ColumnLists(d.columns), i \in Lists(d.indexes), f \in Lists(d.fks),
            k \in Lists(d.checks), p \in Lists(d.pk), u \in Lists(d.unique),
            t \in Lists(d.triggers), q \in Lists(d.partitions), r \in Lists(d.rules)}

\* The forms an entry may have, and a list of them; one form but for what is altered
\* in a table or an enum.
Bare(e) == [action |-> e.action, flags |-> {}, parts |-> NoItems]
Changes(kind, e) ==
    IF e.action # "ALTER"
    THEN {Bare(e)}
    ELSE UNION {{[action |-> "ALTER", flags |-> IF kind = "enum" THEN EnumFlags(o, n) ELSE {},
                  parts |-> l] : l \in IF kind = "table" THEN TableLists(o, n) ELSE {NoItems}} :
                o \in e.was, n \in e.is}
ChangeLists(kind, list) ==
    LET forms[i \in 0..Len(list)] ==
            IF i = 0 THEN {<<>>}
            ELSE {Append(s, c) : s \in forms[i - 1], c \in Changes(kind, list[i])}
    IN  forms[Len(list)]

\* The bound of the model: every entry has an identifier in Ids.
Numbered(diff) ==
    \A k \in Kinds : \A i \in DOMAIN diff[k] :
        /\ <<k, i>> \in Ids
        /\ \A p \in {"col", "idx", "fk", "chk"} : \A j \in DOMAIN diff[k][i].parts[p] :
               k = "table" => <<k, i, p, j>> \in Ids

MigrationInit ==
    /\ Init
    /\ handed = [k \in Kinds |-> <<>>]
    /\ planStage = 1 /\ planAt = 1 /\ operations = <<>> /\ highRiskOps = <<>>
    /\ dataLossOps = <<>> /\ outcome = "comparing" /\ reviewed = <<>>
    /\ pos = 1 /\ visited = {} /\ tempMark = {} /\ stack = <<>>
    /\ cursor = [id \in Ids |-> 1] /\ ordered = <<>> /\ ordering = "running"

CompareStep ==
    /\ Next
    /\ UNCHANGED <<handed, planVars>>

\* AnalyzeStrategy is called with the result of the comparison.
AnalyzeStrategy ==
    /\ phase = "done" /\ outcome = "comparing"
    /\ \E tables \in ChangeLists("table", mdiff["table"]), enums \in ChangeLists("enum", mdiff["enum"]) :
        handed' = [k \in Kinds |->
                    CASE k = "table" -> tables [] k = "enum" -> enums
                      [] OTHER -> [i \in DOMAIN mdiff[k] |-> Bare(mdiff[k][i])]]
    /\ Numbered(handed')
    /\ outcome' = "converting"
    /\ UNCHANGED <<vars, planStage, planAt, operations, highRiskOps, dataLossOps, reviewed,
                   pos, visited, tempMark, stack, cursor, ordered, ordering>>

\* Its steps; SortByRisk, a second view of the same operations, is Planner's alone.
PlanStep ==
    /\ \/ Plan!ConvertChange \/ Plan!PanicOnDrop \/ Plan!NextConverter
       \/ Plan!OrderOperations \/ Plan!OrderingReturns
       \/ Plan!CategorizeRisk \/ Plan!ReturnStrategy
    /\ UNCHANGED vars

MigrationNext == CompareStep \/ AnalyzeStrategy \/ PlanStep

MigrationSpec == MigrationInit /\ [][MigrationNext]_migrationVars

-----------------------------------------------------------------------------
Planned(id) == id \in ToSet(ordered)
PlannedEntries(kind) == {mdiff[kind][i] : i \in {i \in DOMAIN mdiff[kind] : Planned(<<kind, i>>)}}
PlannedItems(i, part) ==
    LET items == handed["table"][i].parts[part]
    IN  {items[j] : j \in {j \in DOMAIN items : Planned(<<"table", i, part, j>>)}}

\* A table after the planned changes of its parts.
AfterItems(t, i) ==
    LET items == [columns |-> PlannedItems(i, "col"), indexes |-> PlannedItems(i, "idx"),
                  fks |-> PlannedItems(i, "fk"), checks |-> PlannedItems(i, "chk"),
                  triggers |-> PlannedItems(i, "trigger"), rules |-> PlannedItems(i, "rule"),
                  partitions |-> PlannedItems(i, "partition")]
    IN  [name |-> t.name, props |-> Ignoring(t.props),
         parts |-> [p \in TableParts |-> (ToSet(t.parts[p]) \ WasIn(items[p])) \cup IsIn(items[p])]]

\* A list of a schema after the plan has been carried out.
AfterPlan(kind, schema, list) ==
    LET entries == {e \in PlannedEntries(kind) : e.schema = schema}
        kept == ToSet(list) \ WasIn(entries)
        alter(t) == {i \in DOMAIN mdiff["table"] :
                        mdiff["table"][i].schema = schema /\ mdiff["table"][i].action = "ALTER"
                            /\ t \in mdiff["table"][i].was}
    IN  IF kind = "table"
        THEN (UNION {{AfterItems(t, i) : i \in alter(t)} : t \in kept})
                \cup Contents(kind, {t \in kept : alter(t) = {}} \cup IsIn(entries))
        ELSE kept \cup IsIn(entries)

\* The table a plan makes of o on the way to n: the columns, foreign keys and checks
\* of n, and the indexes that are and were neither primary nor unique; everything
\* else stays as it was.
Special(x, indexes) == \E y \in ToSet(indexes) : y.name = x.name /\ y.role # ""
Midway(o, n) ==
    [name |-> n.name, props |-> Ignoring(o.props),
     parts |-> [p \in TableParts |->
        CASE p \in {"columns", "fks", "checks"} -> ToSet(n.parts[p])
          [] p = "indexes" ->
                {x \in ToSet(n.parts[p]) : ~Special(x, n.parts[p]) /\ ~Special(x, o.parts[p])}
                \cup {x \in ToSet(o.parts[p]) : Special(x, n.parts[p]) \/ Special(x, o.parts[p])}
          [] OTHER -> ToSet(o.parts[p])]]

\* The old tables of the same name, and what becomes of a new schema's list.
MidwayTables(olds, news) ==
    {Midway(p[1], p[2]) : p \in Shared("table", olds, news)}
        \cup Contents("table", {n \in ToSet(news) : \A o \in ToSet(olds) : o.name # n.name})

\* Carrying out a plan turns the old database into the new one, except for the overloads
\* of a procedure that are not compared and for what no operation is made of: primary
\* keys, unique indexes, triggers, partitions, rules and properties of an altered table,
\* and whatever a new schema holds besides tables (compare.go 127-139, 886-950,
\* strategy.go 297-441).
PlanReconciles ==
    outcome = "planned" =>
        \A i \in DOMAIN new : \A k \in ToSet(ObjectKinds) :
            LET news == new[i].lists[k]
            IN  /\ \A o \in Found(old, new[i].name) :
                    AfterPlan(k, SchemaNamed(k, o), o.lists[k]) =
                        IF k = "table" THEN MidwayTables(o.lists[k], news)
                        ELSE Reconciled(k, o.lists[k], news)
                /\ Found(old, new[i].name) = {} /\ k # "event" =>
                    AfterPlan(k, new[i].name, <<>>) =
                        IF k = "table" THEN ListContents(k, news) ELSE {}

\* There is a plan unless a sequence, function, procedure or event is dropped from a
\* schema both databases have; then AnalyzeStrategy panics.  Dropping the schema they
\* are in does not (compare.go 87-92, strategy.go 224-603).
PlannedUnlessDropped ==
    outcome \in {"planned", "failed", "panic"} =>
        (outcome = "planned" <=>
            \A i \in DOMAIN old : \A n \in Found(new, old[i].name) :
                \A k \in {"sequence", "function", "procedure", "event"} :
                    \A o \in ToSet(old[i].lists[k]) :
                        \E m \in ToSet(n.lists[k]) : Key(k, m) = Key(k, o))

\* What the reports on a diff leave out of its plan: nothing in the text report, whose
\* lines are the planned operations and the headings of altered tables; in the
\* Markdown report five kinds of objects and the checks.  The printed total counts the
\* lines and the changes of primary keys and unique indexes, CountChanges those of
\* partitions, triggers and rules as well, and the strategy's counts by risk add up to
\* the operations in its order (text.go 12-309, markdown.go 12-148, json.go 127-153,
\* diff/types.go 288-317).
ReportShowsThePlan ==
    outcome = "planned" =>
        LET lines == FormatDiffAsText(handed)
            operationLines == {Line(operations[n].id, operations[n].action) : n \in DOMAIN operations}
            headings == {l \in ToSet(lines) : l.id[1] = "table" /\ Len(l.id) = 2 /\ l.action = "ALTER"}
            count(parts) == Sum([i \in DOMAIN handed["table"] |->
                                        PartCount(handed["table"][i], parts)])
        IN  /\ IsInjective(lines)
            /\ ToSet(lines) \ headings = operationLines
            /\ \A l \in operationLines \ ToSet(FormatDiffAsMarkdown(handed)) :
                    \/ l.id[1] \in {"mview", "sequence", "enum", "event", "extension"}
                    \/ Len(l.id) = 4 /\ l.id[3] = "chk"
            /\ CountTotalChanges(handed) = Len(lines) + count(<<"pk", "unique">>)
            /\ CountChanges(handed) =
                    CountTotalChanges(handed) + count(<<"partition", "trigger", "rule">>)
            /\ LET byRisk == RiskDistribution(operations)
               IN  Sum([i \in 1..Cardinality(DOMAIN byRisk) |->
                                byRisk[SetToSeq(DOMAIN byRisk)[i]]]) = Len(ordered)
=============================================================================

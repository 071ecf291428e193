------------------------------ MODULE Planner ------------------------------
(***************************************************************************)
(* planner.AnalyzeStrategy: the converters turn every entry of a           *)
(* MetadataDiff into migration operations, orderOperations (Ordering)      *)
(* orders them, categorizeRisks fills the two warning lists, and the       *)
(* caller may sort the result by risk for review.                          *)
(*                                                                         *)
(* An operation keeps its identifier (the text "table_1_col_0" is the      *)
(* tuple <<"table", 2, "col", 1>>: the format is injective and the model   *)
(* counts from 1), its action, its risk, whether it is reversible, and its *)
(* dependencies; descriptions, reasons and warnings are left out.          *)
(***************************************************************************)
EXTENDS Naturals, Sequences, SequencesExt

CONSTANTS
    Ids,     \* the identifiers the operations may have
    Diffs    \* the MetadataDiffs the planner may be given

Actions == {"CREATE", "DROP", "ALTER"}
RiskLevels == {"NONE", "LOW", "MEDIUM", "HIGH"}

\* The lists of a MetadataDiff, in the order AnalyzeStrategy converts them.
Converters == <<"schema", "extension", "enum", "sequence", "table", "view",
                "mview", "function", "procedure", "event">>
Kinds == ToSet(Converters)

\* The lists of a TableDiff that are converted, in order, and those that are not.
Parts == <<"col", "idx", "fk", "chk">>
UnplannedParts == {"pk", "unique", "trigger", "partition", "rule"}

\* What the risk of a diff depends on besides its action: for a column, that it
\* is added NOT NULL without a default or becomes NOT NULL; for an enum, what
\* happened to its values.
Flags == {"required", "tightened", "added", "removed", "reordered"}
Item == [action : Actions, flags : SUBSET Flags]
Change == [action : Actions, flags : SUBSET Flags,
           parts : [ToSet(Parts) \cup UnplannedParts -> Seq(Item)]]

ASSUME DiffsAssumption == Diffs \subseteq [Kinds -> Seq(Change)]

\* The identifiers suffice for every entry of a diff and of an altered table's lists.
ASSUME IdsAssumption ==
    \A d \in Diffs : \A k \in Kinds : \A i \in DOMAIN d[k] :
        /\ <<k, i>> \in Ids
        /\ \A p \in ToSet(Parts) : \A j \in DOMAIN d[k][i].parts[p] :
               k = "table" => <<k, i, p, j>> \in Ids

VARIABLES
    mdiff,          \* the diff being analysed
    stage,          \* position in Converters, past the end when all have run
    at,             \* next position of the loop being run
    operations,     \* strategy.Operations
    highRiskOps,    \* strategy.HighRiskOps, as positions in operations
    dataLossOps,    \* strategy.DataLossOps, likewise
    outcome,        \* what AnalyzeStrategy is doing or has returned
    reviewed,       \* the result of SortByRisk, as positions in operations
    pos, visited, tempMark, stack, cursor, ordered, ordering  \* see Ordering

search == <<pos, visited, tempMark, stack, cursor, ordered, ordering>>
vars == <<mdiff, stage, at, operations, highRiskOps, dataLossOps, outcome,
          reviewed, search>>

OpIds == [n \in DOMAIN operations |-> operations[n].id]

\* opMap: a later operation with the same identifier replaces an earlier one.
OpDependencies ==
    [id \in ToSet(OpIds) |->
        LET n == CHOOSE n \in DOMAIN operations :
                    /\ operations[n].id = id
                    /\ \A m \in DOMAIN operations : operations[m].id = id => m <= n
        IN  operations[n].deps]

Order == INSTANCE Ordering WITH
    Id <- Ids, Lists <- Seq(Ids), DepLists <- Seq(Ids),
    operations <- OpIds, deps <- OpDependencies, result <- ordering

-----------------------------------------------------------------------------
\* The risk of an operation and whether it can be rolled back.
Rated(level, reversible) == [risk |-> level, reversible |-> reversible]

SchemaRating == [CREATE |-> Rated("NONE", TRUE), DROP |-> Rated("HIGH", FALSE),
                 ALTER |-> Rated("LOW", TRUE)]
ExtensionRating == [CREATE |-> Rated("LOW", TRUE), DROP |-> Rated("MEDIUM", TRUE),
                    ALTER |-> Rated("LOW", TRUE)]
\* An altered enum whose values only moved keeps the zero values "" and false.
EnumRating(flags) ==
    [CREATE |-> Rated("NONE", TRUE), DROP |-> Rated("HIGH", FALSE),
     ALTER |-> IF "removed" \in flags THEN Rated("HIGH", FALSE)
               ELSE IF "added" \in flags THEN Rated("LOW", TRUE)
               ELSE Rated("", FALSE)]
SequenceRating == [CREATE |-> Rated("NONE", TRUE), DROP |-> Rated("MEDIUM", FALSE),
                   ALTER |-> Rated("LOW", TRUE)]
\* An altered table has no operation of its own.
TableRating == [CREATE |-> Rated("NONE", TRUE), DROP |-> Rated("HIGH", FALSE)]
\* Faulty variant: a column that becomes NOT NULL is taken to be reversible.
ColumnRatingReversible(flags) ==
    [CREATE |-> Rated(IF "required" \in flags THEN "MEDIUM" ELSE "LOW", TRUE),
     DROP |-> Rated("HIGH", FALSE),
     ALTER |-> IF "tightened" \in flags THEN Rated("HIGH", TRUE) ELSE Rated("MEDIUM", FALSE)]
ColumnRating(flags) ==
    [CREATE |-> Rated(IF "required" \in flags THEN "MEDIUM" ELSE "LOW", TRUE),
     DROP |-> Rated("HIGH", FALSE),
     ALTER |-> Rated(IF "tightened" \in flags THEN "HIGH" ELSE "MEDIUM", FALSE)]
IndexRating == [CREATE |-> Rated("LOW", TRUE), DROP |-> Rated("MEDIUM", TRUE),
                ALTER |-> Rated("MEDIUM", TRUE)]
ConstraintRating == [CREATE |-> Rated("MEDIUM", TRUE), DROP |-> Rated("LOW", TRUE),
                     ALTER |-> Rated("MEDIUM", TRUE)]
ViewRating == [CREATE |-> Rated("NONE", TRUE), DROP |-> Rated("MEDIUM", TRUE),
               ALTER |-> Rated("LOW", TRUE)]
MaterializedViewRating == [CREATE |-> Rated("LOW", TRUE), DROP |-> Rated("MEDIUM", FALSE),
                           ALTER |-> Rated("MEDIUM", FALSE)]
RoutineRating == [CREATE |-> Rated("NONE", TRUE), DROP |-> Rated("MEDIUM", TRUE),
                  ALTER |-> Rated("LOW", TRUE)]
EventRating == [CREATE |-> Rated("LOW", TRUE), DROP |-> Rated("MEDIUM", TRUE),
                ALTER |-> Rated("LOW", TRUE)]

Rating(kind, item) ==
    LET rating == CASE kind = "schema" -> SchemaRating
                    [] kind = "extension" -> ExtensionRating
                    [] kind = "enum" -> EnumRating(item.flags)
                    [] kind = "sequence" -> SequenceRating
                    [] kind = "table" -> TableRating
                    [] kind = "col" -> ColumnRating(item.flags)
                    [] kind = "idx" -> IndexRating
                    [] kind \in {"fk", "chk"} -> ConstraintRating
                    [] kind = "view" -> ViewRating
                    [] kind = "mview" -> MaterializedViewRating
                    [] kind \in {"function", "procedure"} -> RoutineRating
                    [] kind = "event" -> EventRating
    IN  rating[item.action]

Operation(id, kind, item, deps) ==
    [id |-> id, action |-> item.action, deps |-> deps,
     risk |-> Rating(kind, item).risk, reversible |-> Rating(kind, item).reversible]

\* Faulty variant: sub-operations that depend on the next one.
SubOperationsOnNext(tableId, part, items) ==
    [j \in DOMAIN items |->
        Operation(Append(Append(tableId, part), j), part, items[j],
                  <<Append(Append(tableId, part), j + 1)>>)]

\* convertTableSubChanges, one list of the TableDiff: every operation depends on
\* the identifier of the table.
SubOperations(tableId, part, items) ==
    [j \in DOMAIN items |->
        Operation(Append(Append(tableId, part), j), part, items[j], <<tableId>>)]

\* Faulty variant: the list of foreign keys is forgotten.
TableSubOperationsNoForeignKeys(tableId, change) ==
    SubOperations(tableId, "col", change.parts["col"])
        \o SubOperations(tableId, "idx", change.parts["idx"])
        \o SubOperations(tableId, "chk", change.parts["chk"])

TableSubOperations(tableId, change) ==
    SubOperations(tableId, "col", change.parts["col"])
        \o SubOperations(tableId, "idx", change.parts["idx"])
        \o SubOperations(tableId, "fk", change.parts["fk"])
        \o SubOperations(tableId, "chk", change.parts["chk"])

\* Faulty variant: materialized views are numbered as views are.
ConvertedAsView(kind, i, change) ==
    IF kind = "table" /\ change.action = "ALTER"
    THEN TableSubOperations(<<kind, i>>, change)
    ELSE <<Operation(<<IF kind = "mview" THEN "view" ELSE kind, i>>, kind, change, <<>>)>>

\* The operations one entry of a list is converted to.
Converted(kind, i, change) ==
    IF kind = "table" /\ change.action = "ALTER"
    THEN TableSubOperations(<<kind, i>>, change)
    ELSE <<Operation(<<kind, i>>, kind, change, <<>>)>>

-----------------------------------------------------------------------------
TypeOK ==
    /\ mdiff \in [Kinds -> Seq(Change)]
    /\ stage \in 1..Len(Converters) + 1
    /\ at \in Nat \ {0}
    /\ operations \in Seq([id : Ids, action : Actions, deps : Seq(Ids),
                           risk : RiskLevels \cup {""}, reversible : BOOLEAN])
    /\ ToSet(highRiskOps) \cup ToSet(dataLossOps) \cup ToSet(reviewed) \subseteq DOMAIN operations
    /\ outcome \in {"converting", "ordering", "categorizing", "planned", "failed", "panic"}

Init ==
    /\ mdiff \in Diffs
    /\ stage = 1
    /\ at = 1
    /\ operations = <<>>
    /\ highRiskOps = <<>>
    /\ dataLossOps = <<>>
    /\ outcome = "converting"
    /\ reviewed = <<>>
    /\ pos = 1 /\ visited = {} /\ tempMark = {} /\ stack = <<>>
    /\ cursor = [id \in Ids |-> 1] /\ ordered = <<>> /\ ordering = "running"

Converting == outcome = "converting" /\ stage <= Len(Converters)
CurrentList == mdiff[Converters[stage]]

\* Faulty variant: the name of a view is read there, too.
NamesMissingObjectOfViews ==
    /\ Converters[stage] \in {"view", "sequence", "function", "procedure", "event"}
    /\ CurrentList[at].action = "DROP"

\* The entry has no new object, whose name four of the converters print: the
\* comparer sets only the old one when an object is dropped.
NamesMissingObject ==
    /\ Converters[stage] \in {"sequence", "function", "procedure", "event"}
    /\ CurrentList[at].action = "DROP"

\* One round of a converter's loop.
ConvertChange ==
    /\ Converting /\ at <= Len(CurrentList)
    /\ ~NamesMissingObject
    /\ operations' = operations \o Converted(Converters[stage], at, CurrentList[at])
    /\ at' = at + 1
    /\ UNCHANGED <<mdiff, stage, highRiskOps, dataLossOps, outcome, reviewed, search>>

\* The nil pointer is dereferenced and the goroutine panics.
PanicOnDrop ==
    /\ Converting /\ at <= Len(CurrentList)
    /\ NamesMissingObject
    /\ outcome' = "panic"
    /\ UNCHANGED <<mdiff, stage, at, operations, highRiskOps, dataLossOps, reviewed, search>>

NextConverter ==
    /\ Converting /\ at > Len(CurrentList)
    /\ stage' = stage + 1
    /\ at' = 1
    /\ outcome' = IF stage = Len(Converters) THEN "ordering" ELSE "converting"
    /\ UNCHANGED <<mdiff, operations, highRiskOps, dataLossOps, reviewed, search>>

\* orderOperations runs, one step of the search at a time.
OrderOperations ==
    /\ outcome = "ordering" /\ ordering = "running"
    /\ UNCHANGED <<mdiff, stage, at, operations, highRiskOps, dataLossOps, outcome, reviewed>>
    /\ Order!Next

OrderingReturns ==
    /\ outcome = "ordering" /\ ordering # "running"
    /\ outcome' = IF ordering = "ordered" THEN "categorizing" ELSE "failed"
    /\ UNCHANGED <<mdiff, stage, at, operations, highRiskOps, dataLossOps, reviewed, search>>

\* Faulty variant: the loop records the next position.
CategorizeRiskNext ==
    /\ outcome = "categorizing" /\ at <= Len(operations)
    /\ highRiskOps' = IF operations[at].risk = "HIGH" THEN Append(highRiskOps, at + 1) ELSE highRiskOps
    /\ at' = at + 1
    /\ UNCHANGED <<mdiff, stage, operations, dataLossOps, outcome, reviewed, search>>

\* One round of the loop of categorizeRisks.
CategorizeRisk ==
    /\ outcome = "categorizing" /\ at <= Len(operations)
    /\ LET op == operations[at]
       IN  /\ highRiskOps' = IF op.risk = "HIGH" THEN Append(highRiskOps, at) ELSE highRiskOps
           /\ dataLossOps' = IF ~op.reversible \/ op.action = "DROP"
                             THEN Append(dataLossOps, at) ELSE dataLossOps
    /\ at' = at + 1
    /\ UNCHANGED <<mdiff, stage, operations, outcome, reviewed, search>>

ReturnStrategy ==
    /\ outcome = "categorizing" /\ at > Len(operations)
    /\ outcome' = "planned"
    /\ UNCHANGED <<mdiff, stage, at, operations, highRiskOps, dataLossOps, reviewed, search>>

\* riskOrder: a level missing from the map has the zero value.
RiskOrder(level) ==
    CASE level = "MEDIUM" -> 1 [] level = "LOW" -> 2 [] level = "NONE" -> 3 [] OTHER -> 0

\* SortByRisk(strategy.Operations): slices.SortFunc may leave operations of one
\* level in any order.
SortByRisk ==
    /\ outcome = "planned" /\ reviewed = <<>>
    /\ reviewed' \in {s \in SetToSeqs(DOMAIN operations) :
            \A i, j \in DOMAIN s : i < j =>
                RiskOrder(operations[s[i]].risk) <= RiskOrder(operations[s[j]].risk)}
    /\ UNCHANGED <<mdiff, stage, at, operations, highRiskOps, dataLossOps, outcome, search>>

Next ==
    \/ ConvertChange \/ PanicOnDrop \/ NextConverter
    \/ OrderOperations \/ OrderingReturns
    \/ CategorizeRisk \/ ReturnStrategy \/ SortByRisk

Spec == Init /\ [][Next]_vars

-----------------------------------------------------------------------------
\* The identifier and the action of every change in the lists that are converted.
Requested ==
    (UNION {{[id |-> <<k, i>>, action |-> mdiff[k][i].action] :
                 i \in {i \in DOMAIN mdiff[k] : k # "table" \/ mdiff[k][i].action # "ALTER"}} :
            k \in Kinds})
    \cup
    (UNION {UNION {{[id |-> <<"table", i, p, j>>, action |-> mdiff["table"][i].parts[p][j].action] :
                         j \in DOMAIN mdiff["table"][i].parts[p]} :
                   p \in {p \in ToSet(Parts) : mdiff["table"][i].action = "ALTER"}} :
            i \in DOMAIN mdiff["table"]})

\* A returned plan holds every requested change exactly once and nothing else:
\* no identifier is used twice, which would make opMap and the search drop an
\* operation in silence (strategy.go 119-603 and 627-669).
PlanIsExact ==
    outcome = "planned" =>
        /\ IsInjective(ordered)
        /\ Len(ordered) = Len(operations)
        /\ {[id |-> operations[n].id, action |-> operations[n].action] :
                n \in DOMAIN operations} = Requested
        /\ ToSet(ordered) = {r.id : r \in Requested}

\* The topological sort never moves an operation: the only dependencies the
\* converters write name the operation of an altered table, which does not exist,
\* so a plan lists the changes in the order of the converters, and the columns of a
\* table before its indexes, foreign keys and checks; dropped tables before the foreign
\* keys of altered ones, too.  Nor does it ever find a cycle (strategy.go 301-440,
\* 638-661).
OrderIsEmissionOrder == IsPrefix(ordered, OpIds) /\ outcome # "failed"

\* The two warning lists of a plan are complete and agree: one holds the operations the
\* converters rated high and no other, the other those that cannot be undone and the
\* drops; what is high risk is also reported as data loss, no creation is, and an
\* operation without risk can be undone (strategy.go 126-616 against 677-684).
RiskListsAgree ==
    outcome = "planned" =>
        /\ ToSet(highRiskOps) = {n \in DOMAIN operations : operations[n].risk = "HIGH"}
        /\ ToSet(dataLossOps) =
               {n \in DOMAIN operations : ~operations[n].reversible \/ operations[n].action = "DROP"}
        /\ ToSet(highRiskOps) \subseteq ToSet(dataLossOps)
        /\ \A n \in DOMAIN operations :
            /\ operations[n].action = "CREATE" => n \notin ToSet(dataLossOps)
            /\ operations[n].risk = "NONE" => operations[n].reversible

-----------------------------------------------------------------------------
(***************************************************************************)
(* What the repository says of the planner and its code does not do.       *)
(***************************************************************************)
\* A diff that drops an object is planned like any other (strategy.go 65, and
\* the DROP case of every converter).
DropsArePlanned == outcome # "panic"
=============================================================================

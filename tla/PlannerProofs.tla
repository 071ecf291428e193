---------------------------- MODULE PlannerProofs ----------------------------
(***************************************************************************)
(* Proofs about planner.AnalyzeStrategy for every diff: a plan holds each  *)
(* requested change once, in the order of the converters, and the warning  *)
(* lists agree with the operations.                                        *)
(***************************************************************************)
EXTENDS Planner, SequenceTheorems, TLAPS

OpRecords == [id : Ids, action : Actions, deps : Seq(Ids),
              risk : RiskLevels \cup {""}, reversible : BOOLEAN]

DistinctIds(ops) == \A m, n \in DOMAIN ops : ops[m].id = ops[n].id => m = n

\* The entry of a converted list that an identifier numbers.
Owner(id) == <<id[1], id[2]>>

-----------------------------------------------------------------------------
(***************************************************************************)
(* Lists.                                                                  *)
(***************************************************************************)
LEMMA ConcatFacts ==
    ASSUME NEW S, NEW s \in Seq(S), NEW t \in Seq(S)
    PROVE  /\ s \o t \in Seq(S)
           /\ Len(s) \in Nat /\ Len(t) \in Nat
           /\ DOMAIN s = 1..Len(s) /\ DOMAIN t = 1..Len(t)
           /\ Len(s \o t) = Len(s) + Len(t)
           /\ DOMAIN (s \o t) = 1..Len(s) + Len(t)
           /\ \A i \in 1..Len(s) : (s \o t)[i] = s[i]
           /\ \A j \in 1..Len(t) : (s \o t)[Len(s) + j] = t[j]
           /\ \A i \in Len(s) + 1..Len(s) + Len(t) :
                i - Len(s) \in 1..Len(t) /\ (s \o t)[i] = t[i - Len(s)]
           /\ ToSet(s \o t) = ToSet(s) \cup ToSet(t)
    <1>1. /\ Len(s) \in Nat /\ Len(t) \in Nat
          /\ DOMAIN s = 1..Len(s) /\ DOMAIN t = 1..Len(t)
          /\ s \o t \in Seq(S)
          /\ Len(s \o t) = Len(s) + Len(t)
          /\ DOMAIN (s \o t) = 1..Len(s) + Len(t)
        BY LenProperties, ConcatProperties
    <1>2. \A i \in 1..Len(s) + Len(t) :
            (s \o t)[i] = IF i <= Len(s) THEN s[i] ELSE t[i - Len(s)]
        BY <1>1, ConcatProperties
    <1>3. \A i \in 1..Len(s) : i \in 1..Len(s) + Len(t) /\ (s \o t)[i] = s[i]
        BY <1>1, <1>2
    <1>4. \A i \in Len(s) + 1..Len(s) + Len(t) :
            i - Len(s) \in 1..Len(t) /\ (s \o t)[i] = t[i - Len(s)]
        BY <1>1, <1>2
    <1>5. \A j \in 1..Len(t) :
            Len(s) + j \in 1..Len(s) + Len(t) /\ (s \o t)[Len(s) + j] = t[j]
        BY <1>1, <1>2
    <1>6. ToSet(s) \cup ToSet(t) \subseteq ToSet(s \o t)
        BY <1>1, <1>3, <1>5 DEF ToSet
    <1>7. ToSet(s \o t) \subseteq ToSet(s) \cup ToSet(t)
        <2> SUFFICES ASSUME NEW i \in 1..Len(s) + Len(t)
                     PROVE  (s \o t)[i] \in ToSet(s) \cup ToSet(t)
            BY <1>1 DEF ToSet
        <2>1. i \in 1..Len(s) \/ i \in Len(s) + 1..Len(s) + Len(t)
            BY <1>1
        <2> QED
            BY <2>1, <1>1, <1>3, <1>4 DEF ToSet
    <1> QED
        BY <1>1, <1>3, <1>4, <1>5, <1>6, <1>7

\* Two lists of operations without a common identifier.
LEMMA DistinctConcat ==
    ASSUME NEW S, NEW s \in Seq(S), NEW t \in Seq(S), DistinctIds(s), DistinctIds(t),
           \A x \in ToSet(s), y \in ToSet(t) : x.id # y.id
    PROVE  DistinctIds(s \o t)
    <1> SUFFICES ASSUME NEW m \in 1..Len(s) + Len(t), NEW n \in 1..Len(s) + Len(t),
                        (s \o t)[m].id = (s \o t)[n].id
                 PROVE  m = n
        BY ConcatFacts DEF DistinctIds
    <1>1. /\ m \in 1..Len(s) \/ m \in Len(s) + 1..Len(s) + Len(t)
          /\ n \in 1..Len(s) \/ n \in Len(s) + 1..Len(s) + Len(t)
        BY ConcatFacts
    <1>2. CASE m \in 1..Len(s) /\ n \in 1..Len(s)
        BY <1>2, ConcatFacts DEF DistinctIds
    <1>3. CASE m \in Len(s) + 1..Len(s) + Len(t) /\ n \in Len(s) + 1..Len(s) + Len(t)
        <2>1. m - Len(s) = n - Len(s)
            BY <1>3, ConcatFacts DEF DistinctIds
        <2> QED
            BY <2>1, <1>3, ConcatFacts
    <1>4. ASSUME NEW i \in 1..Len(s), NEW j \in Len(s) + 1..Len(s) + Len(t)
          PROVE  (s \o t)[i].id # (s \o t)[j].id
        <2>1. (s \o t)[i] = s[i] /\ s[i] \in ToSet(s)
            BY ConcatFacts DEF ToSet
        <2>2. (s \o t)[j] = t[j - Len(s)] /\ t[j - Len(s)] \in ToSet(t)
            BY ConcatFacts DEF ToSet
        <2> QED
            BY <2>1, <2>2
    <1> QED
        BY <1>1, <1>2, <1>3, <1>4

\* A stack of one or two frames.
LEMMA ShortStacks ==
    ASSUME NEW a, NEW b
    PROVE  Append(<<a>>, b) = <<a, b>> /\ SubSeq(<<a, b>>, 1, 1) = <<a>>
    <1>1. ASSUME NEW S, NEW one \in Seq(S), NEW two \in Seq(S), NEW e \in S,
                 Len(one) = 1, Len(two) = 2, two[1] = one[1], two[2] = e
          PROVE  Append(one, e) = two /\ SubSeq(two, 1, 1) = one
        <2>1. /\ Append(one, e) \in Seq(S) /\ Len(Append(one, e)) = Len(one) + 1
              /\ \A i \in 1..Len(one) : Append(one, e)[i] = one[i]
              /\ Append(one, e)[Len(one) + 1] = e
            BY AppendProperties
        <2>5. Len(one) + 1 = 2 /\ 1 \in 1..Len(one)
            BY <1>1
        <2>2. Append(one, e) = two
            BY <1>1, <2>1, <2>5, SeqEqual
        <2>3. /\ SubSeq(two, 1, 1) \in Seq(S) /\ Len(SubSeq(two, 1, 1)) = 1
              /\ SubSeq(two, 1, 1)[1] = two[1]
            <3>1. 1 \in Int /\ \A i \in 1..1 : two[i] \in S
                BY <1>1
            <3>2. /\ SubSeq(two, 1, 1) \in Seq(S)
                  /\ Len(SubSeq(two, 1, 1)) = IF 1 <= 1 THEN 1 - 1 + 1 ELSE 0
                  /\ \A i \in 1..1 - 1 + 1 : SubSeq(two, 1, 1)[i] = two[1 + i - 1]
                BY <3>1, SubSeqProperties
            <3> QED
                BY <3>2
        <2>4. SubSeq(two, 1, 1) = one
            BY <1>1, <2>3, SeqEqual
        <2> QED
            BY <2>2, <2>4
    <1>2. /\ <<a>> \in Seq({a, b}) /\ <<a, b>> \in Seq({a, b}) /\ b \in {a, b}
          /\ Len(<<a>>) = 1 /\ Len(<<a, b>>) = 2
          /\ <<a, b>>[1] = <<a>>[1] /\ <<a, b>>[2] = b
        OBVIOUS
    <1> QED
        BY <1>1, <1>2

LEMMA KindsAre ==
    /\ Kinds = {"schema", "extension", "enum", "sequence", "table", "view",
                "mview", "function", "procedure", "event"}
    /\ Len(Converters) = 10
    /\ \A s, t \in 1..10 : Converters[s] = Converters[t] => s = t
    /\ \A s \in 1..10 : Converters[s] \in Kinds
    /\ \A k \in Kinds : \E s \in 1..10 : Converters[s] = k
    <1>1. Len(Converters) = 10 /\ DOMAIN Converters = 1..10
        BY DEF Converters
    <1>2. \A s \in 1..10 : s = 1 \/ s = 2 \/ s = 3 \/ s = 4 \/ s = 5 \/ s = 6 \/ s = 7
                            \/ s = 8 \/ s = 9 \/ s = 10
        OBVIOUS
    <1>3. /\ Converters[1] = "schema" /\ Converters[2] = "extension" /\ Converters[3] = "enum"
          /\ Converters[4] = "sequence" /\ Converters[5] = "table" /\ Converters[6] = "view"
          /\ Converters[7] = "mview" /\ Converters[8] = "function"
          /\ Converters[9] = "procedure" /\ Converters[10] = "event"
        BY DEF Converters
    <1>4. \A s, t \in 1..10 : Converters[s] = Converters[t] => s = t
        BY <1>2, <1>3
    <1>5. Kinds = {Converters[s] : s \in 1..10}
        BY <1>1 DEF Kinds, ToSet
    <1>6. Kinds = {"schema", "extension", "enum", "sequence", "table", "view",
                   "mview", "function", "procedure", "event"}
        BY <1>5, <1>2, <1>3
    <1> QED
        BY <1>1, <1>4, <1>5, <1>6

LEMMA PartsAre == ToSet(Parts) = {"col", "idx", "fk", "chk"}
    <1>1. DOMAIN Parts = 1..4
        BY DEF Parts
    <1>2. /\ Parts[1] = "col" /\ Parts[2] = "idx" /\ Parts[3] = "fk" /\ Parts[4] = "chk"
        BY DEF Parts
    <1>3. \A s \in 1..4 : s = 1 \/ s = 2 \/ s = 3 \/ s = 4
        OBVIOUS
    <1> QED
        BY <1>1, <1>2, <1>3 DEF ToSet
-----------------------------------------------------------------------------
(***************************************************************************)
(* What one entry of the diff is converted to.                             *)
(***************************************************************************)
\* A creation can be undone, what is high risk cannot, what is without risk can.
Proper(action, rating) ==
    /\ rating.risk \in RiskLevels \cup {""}
    /\ rating.reversible \in BOOLEAN
    /\ action = "CREATE" => rating.reversible
    /\ rating.risk = "HIGH" => ~rating.reversible
    /\ rating.risk = "NONE" => rating.reversible
WellRated(op) == Proper(op.action, op)

LEMMA RatingsAreProper ==
    ASSUME NEW flags
    PROVE  /\ \A r \in {SchemaRating, ExtensionRating, EnumRating(flags), SequenceRating,
                        TableRating, ColumnRating(flags), IndexRating, ConstraintRating,
                        ViewRating, MaterializedViewRating, RoutineRating, EventRating} :
                Proper("CREATE", r["CREATE"]) /\ Proper("DROP", r["DROP"])
           /\ \A r \in {SchemaRating, ExtensionRating, EnumRating(flags), SequenceRating,
                        ColumnRating(flags), IndexRating, ConstraintRating,
                        ViewRating, MaterializedViewRating, RoutineRating, EventRating} :
                Proper("ALTER", r["ALTER"])
    <1> USE DEF Proper, Rated, RiskLevels
    <1>1. /\ Proper("CREATE", SchemaRating["CREATE"])
          /\ Proper("DROP", SchemaRating["DROP"])
          /\ Proper("ALTER", SchemaRating["ALTER"])
          /\ Proper("CREATE", ExtensionRating["CREATE"])
          /\ Proper("DROP", ExtensionRating["DROP"])
          /\ Proper("ALTER", ExtensionRating["ALTER"])
          /\ Proper("CREATE", SequenceRating["CREATE"])
          /\ Proper("DROP", SequenceRating["DROP"])
          /\ Proper("ALTER", SequenceRating["ALTER"])
        BY DEF SchemaRating, ExtensionRating, SequenceRating
    <1>2. /\ Proper("CREATE", ViewRating["CREATE"])
          /\ Proper("DROP", ViewRating["DROP"])
          /\ Proper("ALTER", ViewRating["ALTER"])
          /\ Proper("CREATE", RoutineRating["CREATE"])
          /\ Proper("DROP", RoutineRating["DROP"])
          /\ Proper("ALTER", RoutineRating["ALTER"])
          /\ Proper("CREATE", EventRating["CREATE"])
          /\ Proper("DROP", EventRating["DROP"])
          /\ Proper("ALTER", EventRating["ALTER"])
        BY DEF ViewRating, RoutineRating, EventRating
    <1>3. /\ Proper("CREATE", IndexRating["CREATE"])
          /\ Proper("DROP", IndexRating["DROP"])
          /\ Proper("ALTER", IndexRating["ALTER"])
          /\ Proper("CREATE", ConstraintRating["CREATE"])
          /\ Proper("DROP", ConstraintRating["DROP"])
          /\ Proper("ALTER", ConstraintRating["ALTER"])
          /\ Proper("CREATE", MaterializedViewRating["CREATE"])
          /\ Proper("DROP", MaterializedViewRating["DROP"])
          /\ Proper("ALTER", MaterializedViewRating["ALTER"])
        BY DEF IndexRating, ConstraintRating, MaterializedViewRating
    <1>4. /\ Proper("CREATE", TableRating["CREATE"])
          /\ Proper("DROP", TableRating["DROP"])
        BY DEF TableRating
    <1>5. /\ Proper("CREATE", EnumRating(flags)["CREATE"])
          /\ Proper("DROP", EnumRating(flags)["DROP"])
          /\ Proper("ALTER", EnumRating(flags)["ALTER"])
        BY DEF EnumRating
    <1>6. /\ Proper("CREATE", ColumnRating(flags)["CREATE"])
          /\ Proper("DROP", ColumnRating(flags)["DROP"])
          /\ Proper("ALTER", ColumnRating(flags)["ALTER"])
        BY DEF ColumnRating
    <1> HIDE DEF Proper, Rated
    <1> QED
        BY <1>1, <1>2, <1>3, <1>4, <1>5, <1>6

LEMMA RatingIsProper ==
    ASSUME NEW kind \in Kinds \cup ToSet(Parts), NEW item, item.action \in Actions,
           kind = "table" => item.action # "ALTER"
    PROVE  Proper(item.action, Rating(kind, item))
    <1>1. item.action = "CREATE" \/ item.action = "DROP" \/ item.action = "ALTER"
        BY DEF Actions
    <1>2. \/ kind = "schema" \/ kind = "extension" \/ kind = "enum" \/ kind = "sequence"
          \/ kind = "table" \/ kind = "view" \/ kind = "mview" \/ kind = "function"
          \/ kind = "procedure" \/ kind = "event"
          \/ kind = "col" \/ kind = "idx" \/ kind = "fk" \/ kind = "chk"
        BY KindsAre, PartsAre
    <1>3. CASE kind = "table"
        <2>1. Rating(kind, item) = TableRating[item.action]
            BY <1>3 DEF Rating
        <2> QED
            BY <2>1, <1>1, <1>3, RatingsAreProper
    <1>4. CASE kind # "table"
        <2>1. PICK r \in {SchemaRating, ExtensionRating, EnumRating(item.flags), SequenceRating,
                          ColumnRating(item.flags), IndexRating, ConstraintRating,
                          ViewRating, MaterializedViewRating, RoutineRating, EventRating} :
                    Rating(kind, item) = r[item.action]
            BY <1>2, <1>4 DEF Rating
        <2> QED
            BY <2>1, <1>1, RatingsAreProper
    <1> QED
        BY <1>3, <1>4

LEMMA OperationFacts ==
    ASSUME NEW id \in Ids, NEW kind \in Kinds \cup ToSet(Parts), NEW item,
           item.action \in Actions, kind = "table" => item.action # "ALTER",
           NEW deps \in Seq(Ids)
    PROVE  LET op == Operation(id, kind, item, deps)
           IN  /\ op \in OpRecords /\ WellRated(op)
               /\ op.id = id /\ op.action = item.action /\ op.deps = deps
    <1> DEFINE rating == Rating(kind, item)
               op == Operation(id, kind, item, deps)
    <1>1. Proper(item.action, rating)
        BY RatingIsProper
    <1>2. op = [id |-> id, action |-> item.action, deps |-> deps,
                risk |-> rating.risk, reversible |-> rating.reversible]
        BY DEF Operation
    <1> HIDE DEF rating, op
    <1>3. /\ op.id = id /\ op.action = item.action /\ op.deps = deps
          /\ op.risk = rating.risk /\ op.reversible = rating.reversible
        BY <1>2
    <1>4. Proper(item.action, op)
        BY <1>1, <1>3, Zenon DEF Proper
    <1>5. op \in OpRecords
        BY <1>1, <1>2, Zenon DEF Proper, OpRecords
    <1> QED
        BY <1>3, <1>4, <1>5 DEF WellRated, op

LEMMA PartIdIs ==
    ASSUME NEW i, NEW p, NEW j
    PROVE  /\ Append(Append(<<"table", i>>, p), j) = <<"table", i, p, j>>
           /\ Owner(<<"table", i, p, j>>) = <<"table", i>>
           /\ <<"table", i, p, j>> # <<"table", i>>
    <1>1. Append(Append(<<"table", i>>, p), j) = <<"table", i, p, j>>
        <2> DEFINE S == {"table", i, p, j}
                   short == <<"table", i>>
                   long == Append(Append(short, p), j)
        <2>1. short \in Seq(S) /\ Len(short) = 2
            OBVIOUS
        <2>2. /\ Append(short, p) \in Seq(S) /\ Len(Append(short, p)) = 3
              /\ Append(short, p)[1] = "table" /\ Append(short, p)[2] = i
              /\ Append(short, p)[3] = p
            BY <2>1, AppendProperties
        <2>3. /\ long \in Seq(S) /\ Len(long) = 4
              /\ long[1] = "table" /\ long[2] = i /\ long[3] = p /\ long[4] = j
            BY <2>2, AppendProperties
        <2> HIDE DEF long
        <2>4. <<"table", i, p, j>> \in Seq(S) /\ Len(<<"table", i, p, j>>) = 4
            OBVIOUS
        <2>5. \A n \in 1..4 : long[n] = <<"table", i, p, j>>[n]
            BY <2>3
        <2>6. long = <<"table", i, p, j>>
            BY <2>3, <2>4, <2>5, SeqEqual
        <2> QED
            BY <2>6 DEF long
    <1>2. Owner(<<"table", i, p, j>>) = <<"table", i>>
        BY DEF Owner
    <1>3. Len(<<"table", i, p, j>>) = 4 /\ Len(<<"table", i>>) = 2
        OBVIOUS
    <1> QED
        BY <1>1, <1>2, <1>3

\* One list of an altered table.
LEMMA SubOperationsFacts ==
    ASSUME NEW i \in Nat \ {0}, NEW p \in ToSet(Parts), NEW items \in Seq(Item),
           <<"table", i>> \in Ids, \A j \in DOMAIN items : <<"table", i, p, j>> \in Ids
    PROVE  LET ops == SubOperations(<<"table", i>>, p, items)
           IN  /\ ops \in Seq(OpRecords)
               /\ DOMAIN ops = DOMAIN items
               /\ \A j \in DOMAIN items :
                    /\ ops[j].id = <<"table", i, p, j>>
                    /\ ops[j].action = items[j].action
                    /\ ops[j].deps = <<<<"table", i>>>>
                    /\ WellRated(ops[j])
               /\ DistinctIds(ops)
    <1> DEFINE ops == SubOperations(<<"table", i>>, p, items)
    <1>1. DOMAIN items = 1..Len(items) /\ Len(items) \in Nat
        BY LenProperties
    <1>2. DOMAIN ops = DOMAIN items
        BY DEF SubOperations
    <1>3. ASSUME NEW j \in DOMAIN items
          PROVE  /\ ops[j] \in OpRecords /\ WellRated(ops[j])
                 /\ ops[j].id = <<"table", i, p, j>>
                 /\ ops[j].action = items[j].action
                 /\ ops[j].deps = <<<<"table", i>>>>
        <2>1. ops[j] = Operation(<<"table", i, p, j>>, p, items[j], <<<<"table", i>>>>)
            BY PartIdIs DEF SubOperations
        <2>2. items[j] \in Item
            BY <1>1, ElementOfSeq
        <2>3. items[j].action \in Actions /\ p # "table" /\ <<<<"table", i>>>> \in Seq(Ids)
            BY <2>2, PartsAre DEF Item
        <2>4. <<"table", i, p, j>> \in Ids /\ p \in Kinds \cup ToSet(Parts)
            OBVIOUS
        <2> DEFINE item == items[j]
                   dep == <<<<"table", i>>>>
        <2> HIDE DEF ops, item, dep
        <2>5. item.action \in Actions /\ dep \in Seq(Ids)
            BY <2>3 DEF item, dep
        <2>6. LET op == Operation(<<"table", i, p, j>>, p, item, dep)
              IN  /\ op \in OpRecords /\ WellRated(op)
                  /\ op.id = <<"table", i, p, j>> /\ op.action = item.action /\ op.deps = dep
            BY <2>3, <2>4, <2>5, OperationFacts
        <2> QED
            BY <2>1, <2>6 DEF item, dep
    <1>4. ops \in Seq(OpRecords)
        <2>1. ops = [j \in DOMAIN items |-> ops[j]]
            BY DEF SubOperations
        <2> HIDE DEF ops
        <2>2. ops \in [1..Len(items) -> OpRecords]
            BY <2>1, <1>1, <1>3
        <2> QED
            BY <2>2, <1>1, SeqDef
    <1>5. DistinctIds(ops)
        <2> HIDE DEF ops
        <2> QED
            BY <1>2, <1>3 DEF DistinctIds
    <1> QED
        BY <1>2, <1>3, <1>4, <1>5

\* The identifiers and actions one entry asks for.
RequestedBy(k, i, change) ==
    IF k = "table" /\ change.action = "ALTER"
    THEN UNION {{[id |-> <<"table", i, p, j>>, action |-> change.parts[p][j].action] :
                    j \in DOMAIN change.parts[p]} : p \in ToSet(Parts)}
    ELSE {[id |-> <<k, i>>, action |-> change.action]}

Brief(op) == [id |-> op.id, action |-> op.action]

\* Each list of an altered table is a list of operations of its own.
LEMMA TableSubOperationsFacts ==
    ASSUME NEW i \in Nat \ {0}, NEW change \in Change, <<"table", i>> \in Ids,
           \A p \in ToSet(Parts) : \A j \in DOMAIN change.parts[p] : <<"table", i, p, j>> \in Ids
    PROVE  LET ops == TableSubOperations(<<"table", i>>, change)
           IN  /\ ops \in Seq(OpRecords) /\ DistinctIds(ops)
               /\ \A op \in ToSet(ops) : \E p \in ToSet(Parts) : \E j \in DOMAIN change.parts[p] :
                    /\ op.id = <<"table", i, p, j>> /\ op.action = change.parts[p][j].action
                    /\ op.deps = <<<<"table", i>>>> /\ WellRated(op)
               /\ \A p \in ToSet(Parts) : \A j \in DOMAIN change.parts[p] :
                    \E op \in ToSet(ops) :
                        op.id = <<"table", i, p, j>> /\ op.action = change.parts[p][j].action
    <1> DEFINE sub(p) == SubOperations(<<"table", i>>, p, change.parts[p])
               Of(p, op) == \E j \in DOMAIN change.parts[p] :
                    /\ op.id = <<"table", i, p, j>> /\ op.action = change.parts[p][j].action
                    /\ op.deps = <<<<"table", i>>>> /\ WellRated(op)
               ops == TableSubOperations(<<"table", i>>, change)
    <1>1. ASSUME NEW p \in ToSet(Parts)
          PROVE  /\ sub(p) \in Seq(OpRecords) /\ DistinctIds(sub(p))
                 /\ \A op \in ToSet(sub(p)) : Of(p, op)
                 /\ \A j \in DOMAIN change.parts[p] : \E op \in ToSet(sub(p)) :
                        op.id = <<"table", i, p, j>> /\ op.action = change.parts[p][j].action
        <2>1. change.parts[p] \in Seq(Item)
            BY DEF Change
        <2> DEFINE items == change.parts[p]
        <2> HIDE DEF items
        <2>2. LET subs == SubOperations(<<"table", i>>, p, items)
              IN  /\ subs \in Seq(OpRecords)
                  /\ DOMAIN subs = DOMAIN items
                  /\ \A j \in DOMAIN items :
                        /\ subs[j].id = <<"table", i, p, j>>
                        /\ subs[j].action = items[j].action
                        /\ subs[j].deps = <<<<"table", i>>>>
                        /\ WellRated(subs[j])
                  /\ DistinctIds(subs)
            BY <2>1, SubOperationsFacts DEF items
        <2> QED
            BY <2>2 DEF items, ToSet
    <1>2. ASSUME NEW p \in ToSet(Parts), NEW q \in ToSet(Parts), p # q,
                 NEW x, NEW y, Of(p, x), Of(q, y)
          PROVE  x.id # y.id
        <2>1. PICK j, l : x.id = <<"table", i, p, j>> /\ y.id = <<"table", i, q, l>>
            BY <1>2
        <2> QED
            BY <2>1, <1>2
    <1> HIDE DEF Of, sub
    <1>3. {"col", "idx", "fk", "chk"} = ToSet(Parts)
        BY PartsAre
    <1>4. ops = sub("col") \o sub("idx") \o sub("fk") \o sub("chk")
        BY DEF TableSubOperations, sub
    <1> HIDE DEF ops
    <1> DEFINE two == sub("col") \o sub("idx")
               three == two \o sub("fk")
    <1>5. /\ two \in Seq(OpRecords)
          /\ ToSet(two) = ToSet(sub("col")) \cup ToSet(sub("idx"))
          /\ \A op \in ToSet(two) : Of("col", op) \/ Of("idx", op)
        BY <1>1, <1>3, ConcatFacts
    <1>6. DistinctIds(two)
        BY <1>1, <1>2, <1>3, DistinctConcat
    <1> HIDE DEF two
    <1>7. /\ three \in Seq(OpRecords)
          /\ ToSet(three) = ToSet(two) \cup ToSet(sub("fk"))
          /\ \A op \in ToSet(three) : Of("col", op) \/ Of("idx", op) \/ Of("fk", op)
        BY <1>1, <1>3, <1>5, ConcatFacts
    <1>8. DistinctIds(three)
        <2>1. ASSUME NEW x \in ToSet(two), NEW y \in ToSet(sub("fk"))
              PROVE  x.id # y.id
            <3>1. "fk" \in ToSet(Parts) /\ Of("fk", y)
                BY <1>1, <1>3
            <3>2. PICK p \in ToSet(Parts) : p # "fk" /\ Of(p, x)
                BY <1>3, <1>5
            <3> QED
                BY <3>1, <3>2, <1>2
        <2> QED
            BY <2>1, <1>1, <1>3, <1>5, <1>6, DistinctConcat
    <1> HIDE DEF three
    <1>9. ops = three \o sub("chk")
        BY <1>4 DEF three, two
    <1>10. /\ ops \in Seq(OpRecords)
           /\ ToSet(ops) = ToSet(three) \cup ToSet(sub("chk"))
        BY <1>1, <1>3, <1>7, <1>9, ConcatFacts
    <1>11. \A op \in ToSet(ops) : \E p \in ToSet(Parts) : Of(p, op)
        BY <1>1, <1>3, <1>7, <1>10
    <1>12. DistinctIds(ops)
        <2>1. ASSUME NEW x \in ToSet(three), NEW y \in ToSet(sub("chk"))
              PROVE  x.id # y.id
            <3>1. "chk" \in ToSet(Parts) /\ Of("chk", y)
                BY <1>1, <1>3
            <3>2. PICK p \in ToSet(Parts) : p # "chk" /\ Of(p, x)
                BY <1>3, <1>7
            <3> QED
                BY <3>1, <3>2, <1>2
        <2> QED
            BY <2>1, <1>1, <1>3, <1>7, <1>8, <1>9, DistinctConcat
    <1>13. \A p \in ToSet(Parts) : ToSet(sub(p)) \subseteq ToSet(ops)
        BY <1>3, <1>5, <1>7, <1>10
    <1>14. \A p \in ToSet(Parts) : \A j \in DOMAIN change.parts[p] : \E op \in ToSet(ops) :
                op.id = <<"table", i, p, j>> /\ op.action = change.parts[p][j].action
        BY <1>1, <1>13
    <1> QED
        BY <1>10, <1>11, <1>12, <1>14 DEF Of, ops

\* The operations of one entry: they ask for what the entry asks for, are numbered after
\* it, and depend on nothing or on an operation that none of them is.
EntryFacts(k, i, change, ops) ==
    /\ ops \in Seq(OpRecords) /\ DistinctIds(ops)
    /\ {Brief(op) : op \in ToSet(ops)} = RequestedBy(k, i, change)
    /\ \A op \in ToSet(ops) :
        /\ Owner(op.id) = <<k, i>> /\ WellRated(op)
        /\ \/ op.deps = <<>>
           \/ op.deps = <<<<k, i>>>> /\ \A other \in ToSet(ops) : other.id # <<k, i>>

LEMMA AlteredTableFacts ==
    ASSUME NEW i \in Nat \ {0}, NEW change \in Change, change.action = "ALTER",
           <<"table", i>> \in Ids,
           \A p \in ToSet(Parts) : \A j \in DOMAIN change.parts[p] : <<"table", i, p, j>> \in Ids
    PROVE  EntryFacts("table", i, change, Converted("table", i, change))
    <1> DEFINE ops == TableSubOperations(<<"table", i>>, change)
    <1>1. Converted("table", i, change) = ops
        BY DEF Converted
    <1>2. /\ ops \in Seq(OpRecords) /\ DistinctIds(ops)
          /\ \A op \in ToSet(ops) : \E p \in ToSet(Parts) : \E j \in DOMAIN change.parts[p] :
                /\ op.id = <<"table", i, p, j>> /\ op.action = change.parts[p][j].action
                /\ op.deps = <<<<"table", i>>>> /\ WellRated(op)
          /\ \A p \in ToSet(Parts) : \A j \in DOMAIN change.parts[p] :
                \E op \in ToSet(ops) :
                    op.id = <<"table", i, p, j>> /\ op.action = change.parts[p][j].action
        BY TableSubOperationsFacts
    <1> HIDE DEF ops
    <1>3. RequestedBy("table", i, change) =
            UNION {{[id |-> <<"table", i, p, j>>, action |-> change.parts[p][j].action] :
                        j \in DOMAIN change.parts[p]} : p \in ToSet(Parts)}
        BY DEF RequestedBy
    <1>4. ASSUME NEW op \in ToSet(ops)
          PROVE  Brief(op) \in RequestedBy("table", i, change)
        <2>1. PICK p \in ToSet(Parts) : \E j \in DOMAIN change.parts[p] :
                op.id = <<"table", i, p, j>> /\ op.action = change.parts[p][j].action
            BY <1>2
        <2>2. PICK j \in DOMAIN change.parts[p] :
                op.id = <<"table", i, p, j>> /\ op.action = change.parts[p][j].action
            BY <2>1
        <2>3. Brief(op) = [id |-> <<"table", i, p, j>>, action |-> change.parts[p][j].action]
            BY <2>2 DEF Brief
        <2> QED
            BY <2>3, <1>3
    <1>5. ASSUME NEW r \in RequestedBy("table", i, change)
          PROVE  r \in {Brief(op) : op \in ToSet(ops)}
        <2>1. PICK p \in ToSet(Parts) : \E j \in DOMAIN change.parts[p] :
                r = [id |-> <<"table", i, p, j>>, action |-> change.parts[p][j].action]
            BY <1>3
        <2>2. PICK j \in DOMAIN change.parts[p] :
                r = [id |-> <<"table", i, p, j>>, action |-> change.parts[p][j].action]
            BY <2>1
        <2>3. PICK op \in ToSet(ops) :
                op.id = <<"table", i, p, j>> /\ op.action = change.parts[p][j].action
            BY <1>2
        <2>4. r = Brief(op)
            BY <2>2, <2>3 DEF Brief
        <2> QED
            BY <2>4
    <1>6. ASSUME NEW op \in ToSet(ops)
          PROVE  /\ Owner(op.id) = <<"table", i>> /\ WellRated(op)
                 /\ op.deps = <<<<"table", i>>>> /\ op.id # <<"table", i>>
        <2>1. PICK p, j : op.id = <<"table", i, p, j>>
            BY <1>2
        <2> QED
            BY <2>1, <1>2, PartIdIs
    <1> QED
        BY <1>1, <1>2, <1>4, <1>5, <1>6 DEF EntryFacts

LEMMA WholeEntryFacts ==
    ASSUME NEW k \in Kinds, NEW i \in Nat \ {0}, NEW change \in Change, <<k, i>> \in Ids,
           ~(k = "table" /\ change.action = "ALTER")
    PROVE  EntryFacts(k, i, change, Converted(k, i, change))
    <1> DEFINE op == Operation(<<k, i>>, k, change, <<>>)
               ops == <<op>>
    <1>1. Converted(k, i, change) = ops
        BY DEF Converted
    <1>2. /\ op \in OpRecords /\ WellRated(op)
          /\ op.id = <<k, i>> /\ op.action = change.action /\ op.deps = <<>>
        <2>1. change.action \in Actions
            BY DEF Change
        <2>2. k \in Kinds \cup ToSet(Parts) /\ (k = "table" => change.action # "ALTER")
            OBVIOUS
        <2> DEFINE none == <<>>
        <2>3. none \in Seq(Ids)
            OBVIOUS
        <2> HIDE DEF none, op
        <2>4. LET o == Operation(<<k, i>>, k, change, none)
              IN  /\ o \in OpRecords /\ WellRated(o)
                  /\ o.id = <<k, i>> /\ o.action = change.action /\ o.deps = none
            BY <2>1, <2>2, <2>3, OperationFacts
        <2> QED
            BY <2>4 DEF none, op
    <1> HIDE DEF op
    <1>3. ops \in Seq(OpRecords) /\ DistinctIds(ops) /\ ToSet(ops) = {op}
        BY <1>2 DEF DistinctIds, ToSet
    <1>4. RequestedBy(k, i, change) = {[id |-> <<k, i>>, action |-> change.action]}
        BY DEF RequestedBy
    <1>5. {Brief(o) : o \in ToSet(ops)} = RequestedBy(k, i, change)
        BY <1>2, <1>3, <1>4 DEF Brief
    <1>6. Owner(op.id) = <<k, i>>
        BY <1>2 DEF Owner
    <1> QED
        BY <1>1, <1>2, <1>3, <1>5, <1>6 DEF EntryFacts

LEMMA ConvertedFacts ==
    ASSUME NEW d \in Diffs, NEW k \in Kinds, NEW i \in DOMAIN d[k]
    PROVE  EntryFacts(k, i, d[k][i], Converted(k, i, d[k][i]))
    <1>1. d[k][i] \in Change /\ i \in Nat \ {0}
        <2>1. d[k] \in Seq(Change)
            BY DiffsAssumption
        <2> QED
            BY <2>1, LenProperties, ElementOfSeq
    <1>2. /\ <<k, i>> \in Ids
          /\ \A p \in ToSet(Parts) : \A j \in DOMAIN d[k][i].parts[p] :
                    k = "table" => <<k, i, p, j>> \in Ids
        BY IdsAssumption
    <1> DEFINE change == d[k][i]
    <1>3. ASSUME k = "table", change.action = "ALTER"
          PROVE  EntryFacts(k, i, change, Converted(k, i, change))
        <2>1. \A p \in ToSet(Parts) : \A j \in DOMAIN change.parts[p] : <<"table", i, p, j>> \in Ids
            BY <1>2, <1>3
        <2> HIDE DEF change
        <2>2. EntryFacts("table", i, change, Converted("table", i, change))
            BY <1>1, <1>2, <1>3, <2>1, AlteredTableFacts DEF change
        <2> QED
            BY <2>2, <1>3
    <1>4. CASE ~(k = "table" /\ change.action = "ALTER")
        BY <1>1, <1>2, <1>4, WholeEntryFacts
    <1> QED
        BY <1>3, <1>4
-----------------------------------------------------------------------------
(***************************************************************************)
(* The operations emitted so far are those of the entries passed.          *)
(***************************************************************************)
Stages == 1..10
List(s) == mdiff[Converters[s]]
Past(s, i) == s < stage \/ (s = stage /\ i < at)
Made(s, i) == ToSet(Converted(Converters[s], i, List(s)[i]))

EmittedInv ==
    /\ mdiff \in Diffs
    /\ stage \in 1..11
    /\ at \in Nat \ {0}
    /\ stage \in Stages => at <= Len(List(stage)) + 1
    /\ outcome \in {"converting", "ordering", "categorizing", "planned", "failed", "panic"}
    /\ outcome = "converting" => stage \in Stages
    /\ outcome \in {"ordering", "categorizing", "planned", "failed"} => stage = 11
    /\ operations \in Seq(OpRecords)
    /\ DistinctIds(operations)
    /\ \A op \in ToSet(operations) : \E s \in Stages : \E i \in DOMAIN List(s) :
            Past(s, i) /\ op \in Made(s, i)
    /\ \A s \in Stages : \A i \in DOMAIN List(s) :
            Past(s, i) => Made(s, i) \subseteq ToSet(operations)

LEMMA ListFacts ==
    ASSUME mdiff \in Diffs, NEW s \in Stages
    PROVE  /\ Converters[s] \in Kinds
           /\ List(s) \in Seq(Change) /\ Len(List(s)) \in Nat
           /\ DOMAIN List(s) = 1..Len(List(s))
           /\ \A i \in DOMAIN List(s) : i \in Nat \ {0} /\ i <= Len(List(s))
    <1>1. Converters[s] \in Kinds
        BY KindsAre DEF Stages
    <1>2. List(s) \in Seq(Change)
        BY <1>1, DiffsAssumption DEF List
    <1>3. DOMAIN List(s) = 1..Len(List(s)) /\ Len(List(s)) \in Nat
        BY <1>2, LenProperties
    <1> QED
        BY <1>1, <1>2, <1>3

LEMMA MadeFacts ==
    ASSUME mdiff \in Diffs, NEW s \in Stages, NEW i \in DOMAIN List(s), NEW op \in Made(s, i)
    PROVE  /\ Owner(op.id) = <<Converters[s], i>> /\ WellRated(op)
           /\ \/ op.deps = <<>>
              \/ /\ op.deps = <<<<Converters[s], i>>>>
                 /\ \A other \in Made(s, i) : other.id # <<Converters[s], i>>
    <1>1. EntryFacts(Converters[s], i, List(s)[i], Converted(Converters[s], i, List(s)[i]))
        BY ListFacts, ConvertedFacts DEF List
    <1> QED
        BY <1>1 DEF EntryFacts, Made

\* An identifier tells which entry its operation was made for.
LEMMA MadeForOne ==
    ASSUME mdiff \in Diffs, NEW s \in Stages, NEW i \in DOMAIN List(s), NEW x \in Made(s, i),
           NEW t \in Stages, NEW j \in DOMAIN List(t), NEW y \in Made(t, j), x.id = y.id
    PROVE  s = t /\ i = j
    <1>1. <<Converters[s], i>> = <<Converters[t], j>>
        BY MadeFacts
    <1> QED
        BY <1>1, KindsAre DEF Stages

LEMMA EmittedInitially == Init => EmittedInv
    <1> SUFFICES ASSUME Init PROVE EmittedInv
        OBVIOUS
    <1>1. /\ mdiff \in Diffs /\ stage = 1 /\ at = 1 /\ operations = <<>>
          /\ outcome = "converting"
        BY DEF Init
    <1>2. \A s \in Stages : \A i \in DOMAIN List(s) : ~Past(s, i)
        <2> SUFFICES ASSUME NEW s \in Stages, NEW i \in DOMAIN List(s)
                     PROVE  ~Past(s, i)
            OBVIOUS
        <2>1. i \in Nat \ {0}
            BY <1>1, ListFacts
        <2> QED
            BY <2>1, <1>1 DEF Past, Stages
    <1>3. Len(List(1)) \in Nat
        BY <1>1, ListFacts DEF Stages
    <1>4. operations \in Seq(OpRecords) /\ DistinctIds(operations) /\ ToSet(operations) = {}
        BY <1>1 DEF DistinctIds, ToSet
    <1> QED
        BY <1>1, <1>2, <1>3, <1>4 DEF EmittedInv, Stages

\* A round of a converter's loop passes one entry more.
LEMMA EmittedByConvertChange == EmittedInv /\ ConvertChange => EmittedInv'
    <1> SUFFICES ASSUME EmittedInv, ConvertChange PROVE EmittedInv'
        OBVIOUS
    <1> DEFINE made == Converted(Converters[stage], at, List(stage)[at])
    <1>1. /\ stage \in Stages /\ at \in 1..Len(List(stage))
          /\ operations' = operations \o made
          /\ at' = at + 1
          /\ UNCHANGED <<mdiff, stage, outcome>>
        <2>1. stage \in Stages /\ at \in Nat \ {0} /\ at <= Len(List(stage))
            BY DEF EmittedInv, ConvertChange, Converting, CurrentList, List
        <2> QED
            BY <2>1, ListFacts DEF ConvertChange, CurrentList, List, EmittedInv
    <1>2. \A s \in Stages : List(s)' = List(s) /\ \A i \in DOMAIN List(s) : Made(s, i)' = Made(s, i)
        BY <1>1 DEF List, Made
    <1>3. \A s \in Stages : \A i \in DOMAIN List(s) : Past(s, i)' <=> Past(s, i) \/ (s = stage /\ i = at)
        <2> SUFFICES ASSUME NEW s \in Stages, NEW i \in DOMAIN List(s)
                     PROVE  Past(s, i)' <=> Past(s, i) \/ (s = stage /\ i = at)
            OBVIOUS
        <2>1. i \in Nat
            BY ListFacts DEF EmittedInv
        <2>2. i < at + 1 <=> i < at \/ i = at
            BY <2>1, <1>1
        <2> QED
            BY <2>2, <1>1 DEF Past
    <1>4. at \in DOMAIN List(stage) /\ Len(List(stage)) \in Nat
        BY <1>1, ListFacts DEF EmittedInv
    <1>5. EntryFacts(Converters[stage], at, List(stage)[at], made)
        BY <1>1, <1>4, ListFacts, ConvertedFacts DEF EmittedInv, List
    <1>6. made \in Seq(OpRecords) /\ DistinctIds(made) /\ ToSet(made) = Made(stage, at)
        BY <1>5 DEF EntryFacts, Made
    <1> HIDE DEF made
    <1>7. /\ operations' \in Seq(OpRecords)
          /\ ToSet(operations') = ToSet(operations) \cup Made(stage, at)
        BY <1>1, <1>6, ConcatFacts DEF EmittedInv
    <1>8. ~Past(stage, at)
        BY <1>1 DEF Past, Stages
    <1>9. ASSUME NEW x \in ToSet(operations), NEW y \in ToSet(made)
          PROVE  x.id # y.id
        <2>1. PICK s \in Stages : \E i \in DOMAIN List(s) : Past(s, i) /\ x \in Made(s, i)
            BY DEF EmittedInv
        <2>2. PICK i \in DOMAIN List(s) : Past(s, i) /\ x \in Made(s, i)
            BY <2>1
        <2>3. mdiff \in Diffs /\ y \in Made(stage, at)
            BY <1>6 DEF EmittedInv
        <2> QED
            BY <2>2, <2>3, <1>1, <1>4, <1>8, MadeForOne
    <1>10. DistinctIds(operations')
        BY <1>1, <1>6, <1>9, DistinctConcat DEF EmittedInv
    <1>11. ASSUME NEW op \in ToSet(operations')
           PROVE  \E s \in Stages : \E i \in DOMAIN List(s) :
                        Past(s, i)' /\ op \in Made(s, i)
        <2>1. CASE op \in ToSet(operations)
            BY <2>1, <1>3 DEF EmittedInv
        <2>2. CASE op \in Made(stage, at)
            BY <2>2, <1>1, <1>3, <1>4
        <2> QED
            BY <2>1, <2>2, <1>7
    <1>12. ASSUME NEW s \in Stages, NEW i \in DOMAIN List(s), Past(s, i)'
           PROVE  Made(s, i) \subseteq ToSet(operations')
        BY <1>12, <1>3, <1>7 DEF EmittedInv
    <1>13. at' \in Nat \ {0} /\ at' <= Len(List(stage)) + 1
        BY <1>1, <1>4
    <1>14. /\ mdiff' \in Diffs /\ stage' \in 1..11 /\ at' \in Nat \ {0}
           /\ stage' \in Stages => at' <= Len(List(stage)') + 1
           /\ outcome' \in {"converting", "ordering", "categorizing", "planned", "failed", "panic"}
           /\ outcome' = "converting" => stage' \in Stages
           /\ outcome' \in {"ordering", "categorizing", "planned", "failed"} => stage' = 11
        BY <1>1, <1>2, <1>13 DEF EmittedInv
    <1> QED
        BY <1>2, <1>7, <1>10, <1>11, <1>12, <1>14 DEF EmittedInv

\* The end of a list passes nothing.
LEMMA EmittedByNextConverter == EmittedInv /\ NextConverter => EmittedInv'
    <1> SUFFICES ASSUME EmittedInv, NextConverter PROVE EmittedInv'
        OBVIOUS
    <1>1. /\ stage \in Stages /\ at = Len(List(stage)) + 1
          /\ stage' = stage + 1 /\ at' = 1
          /\ outcome' = IF stage = 10 THEN "ordering" ELSE "converting"
          /\ UNCHANGED <<mdiff, operations>>
        <2>1. stage \in Stages /\ at > Len(List(stage)) /\ Len(List(stage)) \in Nat
            BY ListFacts DEF EmittedInv, NextConverter, Converting, CurrentList, List
        <2> QED
            BY <2>1, KindsAre DEF NextConverter, EmittedInv
    <1>2. \A s \in Stages : List(s)' = List(s) /\ \A i \in DOMAIN List(s) : Made(s, i)' = Made(s, i)
        BY <1>1 DEF List, Made
    <1>3. ASSUME NEW s \in Stages, NEW i \in DOMAIN List(s)
          PROVE  Past(s, i)' <=> Past(s, i)
        <2>1. i \in Nat \ {0} /\ i <= Len(List(s)) /\ Len(List(s)) \in Nat
            BY ListFacts DEF EmittedInv
        <2>2. s < stage + 1 <=> s < stage \/ s = stage
            BY <1>1 DEF Stages
        <2>3. s = stage => i < at
            BY <2>1, <1>1
        <2> QED
            BY <2>1, <2>2, <2>3, <1>1 DEF Past
    <1>4. /\ stage' \in 1..11 /\ at' \in Nat \ {0}
          /\ outcome' \in {"converting", "ordering", "categorizing", "planned", "failed", "panic"}
          /\ outcome' = "converting" => stage' \in Stages
          /\ outcome' \in {"ordering", "categorizing", "planned", "failed"} => stage' = 11
        BY <1>1 DEF Stages
    <1>5. stage' \in Stages => at' <= Len(List(stage)') + 1
        <2> SUFFICES ASSUME stage' \in Stages PROVE at' <= Len(List(stage)') + 1
            OBVIOUS
        <2>1. List(stage)' = mdiff[Converters[stage']] /\ List(stage') = mdiff[Converters[stage']]
            BY <1>1 DEF List
        <2>2. Len(List(stage')) \in Nat
            BY ListFacts DEF EmittedInv
        <2> QED
            BY <2>1, <2>2, <1>1
    <1> QED
        BY <1>1, <1>2, <1>3, <1>4, <1>5 DEF EmittedInv

\* The steps after the conversion leave the operations alone.
LEMMA EmittedByOthers ==
    ASSUME EmittedInv, UNCHANGED <<mdiff, stage, operations>>, at' \in Nat \ {0},
           at' = at \/ stage = 11,
           outcome' \in {"ordering", "categorizing", "planned", "failed"} => stage = 11,
           outcome' = "converting" => outcome = "converting",
           outcome' \in {"converting", "ordering", "categorizing", "planned", "failed", "panic"}
    PROVE  EmittedInv'
    <1>1. \A s \in Stages : List(s)' = List(s) /\ \A i \in DOMAIN List(s) : Made(s, i)' = Made(s, i)
        BY DEF List, Made
    <1>2. ASSUME NEW s \in Stages, NEW i \in DOMAIN List(s)
          PROVE  Past(s, i)' <=> Past(s, i)
        BY DEF Past, Stages
    <1>3. stage \in Stages => List(stage)' = List(stage) /\ at' = at
        BY <1>1 DEF List, Stages
    <1> QED
        BY <1>1, <1>2, <1>3 DEF EmittedInv

LEMMA EmittedKept == EmittedInv /\ [Next]_vars => EmittedInv'
    <1> SUFFICES ASSUME EmittedInv, [Next]_vars PROVE EmittedInv'
        OBVIOUS
    <1>1. CASE ConvertChange
        BY <1>1, EmittedByConvertChange
    <1>2. CASE NextConverter
        BY <1>2, EmittedByNextConverter
    <1>3. CASE PanicOnDrop
        BY <1>3, EmittedByOthers DEF PanicOnDrop, EmittedInv
    <1>4. CASE OrderOperations
        BY <1>4, EmittedByOthers DEF OrderOperations, EmittedInv
    <1>5. CASE OrderingReturns
        BY <1>5, EmittedByOthers DEF OrderingReturns, EmittedInv
    <1>6. CASE CategorizeRisk
        BY <1>6, EmittedByOthers DEF CategorizeRisk, EmittedInv
    <1>7. CASE ReturnStrategy
        BY <1>7, EmittedByOthers DEF ReturnStrategy, EmittedInv
    <1>8. CASE SortByRisk \/ UNCHANGED vars
        BY <1>8, EmittedByOthers DEF SortByRisk, vars, EmittedInv
    <1> QED
        BY <1>1, <1>2, <1>3, <1>4, <1>5, <1>6, <1>7, <1>8 DEF Next

\* No operation depends on an operation: a dependency names an altered table.
Dangling == \A op \in ToSet(operations) :
    \/ op.deps = <<>>
    \/ \E t : op.deps = <<t>> /\ \A other \in ToSet(operations) : other.id # t

LEMMA DependenciesDangle == EmittedInv => Dangling
    <1> SUFFICES ASSUME EmittedInv, NEW op \in ToSet(operations), op.deps # <<>>
                 PROVE  \E t : op.deps = <<t>> /\ \A other \in ToSet(operations) : other.id # t
        BY DEF Dangling
    <1>1. PICK s \in Stages : \E i \in DOMAIN List(s) : op \in Made(s, i)
        BY DEF EmittedInv
    <1>2. PICK i \in DOMAIN List(s) : op \in Made(s, i)
        BY <1>1
    <1> DEFINE t == <<Converters[s], i>>
    <1>3. op.deps = <<t>> /\ \A other \in Made(s, i) : other.id # t
        BY <1>2, MadeFacts DEF EmittedInv
    <1>4. ASSUME NEW other \in ToSet(operations), other.id = t
          PROVE  FALSE
        <2>1. PICK u \in Stages : \E j \in DOMAIN List(u) : other \in Made(u, j)
            BY DEF EmittedInv
        <2>2. PICK j \in DOMAIN List(u) : other \in Made(u, j)
            BY <2>1
        <2>3. Owner(other.id) = <<Converters[u], j>> /\ Owner(t) = t
            BY <2>2, MadeFacts DEF EmittedInv, Owner
        <2>4. u = s /\ j = i
            BY <2>3, <1>4, KindsAre DEF Stages
        <2> QED
            BY <2>2, <2>4, <1>3, <1>4
    <1> QED
        BY <1>3, <1>4
-----------------------------------------------------------------------------
(***************************************************************************)
(* The search emits the operations as they come.                           *)
(***************************************************************************)
\* The operation the outer loop is visiting.
Current == operations[pos - 1].id

SearchInv ==
    /\ pos \in 1..Len(operations) + 1
    /\ ordered \in Seq(Ids) /\ Len(ordered) <= Len(operations)
    /\ \A n \in 1..Len(ordered) : ordered[n] = operations[n].id
    /\ \A n \in 1..Len(operations) : operations[n].id \in visited <=> n <= Len(ordered)
    /\ cursor \in [Ids -> Nat \ {0}]
    /\ \/ /\ stack = <<>> /\ tempMark = {} /\ Len(ordered) = pos - 1
       \/ /\ pos > 1 /\ Len(ordered) = pos - 2
          /\ \/ stack = <<Current>> /\ tempMark = {Current}
             \/ \E d \in Ids \ ToSet(OpIds) : stack = <<Current, d>> /\ tempMark = {Current, d}
    /\ ordering = "running" \/ (ordering = "ordered" /\ stack = <<>> /\ pos > Len(operations))
    /\ outcome \in {"converting", "panic"} =>
            ordered = <<>> /\ visited = {} /\ stack = <<>> /\ tempMark = {} /\ ordering = "running"
    /\ outcome \in {"categorizing", "planned"} => ordering = "ordered"
    /\ outcome # "failed"

LEMMA OpIdsFacts ==
    ASSUME EmittedInv
    PROVE  /\ Len(operations) \in Nat /\ DOMAIN operations = 1..Len(operations)
           /\ OpIds \in Seq(Ids) /\ Len(OpIds) = Len(operations)
           /\ DOMAIN OpIds = 1..Len(operations)
           /\ \A n \in 1..Len(operations) :
                operations[n] \in OpRecords /\ OpIds[n] = operations[n].id /\ OpIds[n] \in Ids
           /\ ToSet(OpIds) = {operations[n].id : n \in 1..Len(operations)}
    <1>1. /\ Len(operations) \in Nat /\ DOMAIN operations = 1..Len(operations)
          /\ \A n \in 1..Len(operations) : operations[n] \in OpRecords
        BY LenProperties, ElementOfSeq DEF EmittedInv
    <1>2. \A n \in 1..Len(operations) : operations[n].id \in Ids
        BY <1>1 DEF OpRecords
    <1>3. OpIds \in [1..Len(operations) -> Ids] /\ DOMAIN OpIds = 1..Len(operations)
          /\ \A n \in 1..Len(operations) : OpIds[n] = operations[n].id
        BY <1>1, <1>2 DEF OpIds
    <1>4. OpIds \in Seq(Ids)
        BY <1>1, <1>3, SeqDef
    <1>5. Len(OpIds) = Len(operations)
        BY <1>1, <1>3, <1>4, LenProperties
    <1> QED
        BY <1>1, <1>2, <1>3, <1>4, <1>5 DEF ToSet

LEMMA OrderOpsAre == Order!Ops = ToSet(OpIds)
    BY DEF Order!Ops, Order!ToSet, ToSet

\* What the search iterates over: the dependencies of an operation, or nothing.
LEMMA IteratedFacts ==
    ASSUME EmittedInv
    PROVE  /\ \A n \in 1..Len(operations) : Order!Iterated(operations[n].id) = operations[n].deps
           /\ \A d : d \notin ToSet(OpIds) => Order!Iterated(d) = <<>>
    <1>1. ASSUME NEW n \in 1..Len(operations)
          PROVE  Order!Iterated(operations[n].id) = operations[n].deps
        <2> DEFINE id == operations[n].id
                   IsLast(k) == /\ operations[k].id = id
                                /\ \A m \in DOMAIN operations : operations[m].id = id => m <= k
        <2>1. \A m \in DOMAIN operations : operations[m].id = id <=> m = n
            BY OpIdsFacts DEF EmittedInv, DistinctIds
        <2>2. n \in DOMAIN operations /\ IsLast(n)
            BY <2>1, OpIdsFacts
        <2>3. \A k \in DOMAIN operations : IsLast(k) => k = n
            BY <2>1
        <2>4. (CHOOSE k \in DOMAIN operations : IsLast(k)) = n
            BY <2>2, <2>3
        <2>5. id \in ToSet(OpIds)
            BY OpIdsFacts
        <2>6. OpDependencies[id] = operations[CHOOSE k \in DOMAIN operations : IsLast(k)].deps
            BY <2>5 DEF OpDependencies
        <2>7. OpDependencies[id] = operations[n].deps
            BY <2>4, <2>6
        <2> QED
            BY <2>5, <2>7, OrderOpsAre DEF Order!Iterated
    <1>2. ASSUME NEW d, d \notin ToSet(OpIds)
          PROVE  Order!Iterated(d) = <<>>
        BY <1>2, OrderOpsAre DEF Order!Iterated
    <1> QED
        BY <1>1, <1>2

LEMMA SearchInitially == Init => SearchInv
    <1> SUFFICES ASSUME Init PROVE SearchInv
        OBVIOUS
    <1>1. /\ operations = <<>> /\ outcome = "converting" /\ pos = 1 /\ visited = {}
          /\ tempMark = {} /\ stack = <<>> /\ cursor = [id \in Ids |-> 1] /\ ordered = <<>>
          /\ ordering = "running"
        BY DEF Init
    <1>2. Len(operations) = 0 /\ Len(ordered) = 0 /\ ordered \in Seq(Ids)
        BY <1>1
    <1> QED
        BY <1>1, <1>2 DEF SearchInv

\* Only an operation has a dependency to look at, and that one is new and dangling.
LEMMA LooksAtDangling ==
    ASSUME EmittedInv, SearchInv, Order!Looking
    PROVE  /\ stack = <<Current>> /\ tempMark = {Current} /\ Order!Top = Current
           /\ Current \in Ids /\ pos > 1 /\ Len(ordered) = pos - 2
           /\ Order!NextDep \in Ids \ ToSet(OpIds)
    <1>1. /\ stack # <<>> /\ cursor[Order!Top] <= Len(Order!Iterated(Order!Top))
          /\ Order!NextDep = Order!Iterated(Order!Top)[cursor[Order!Top]]
        BY DEF Order!Looking, Order!NextDep
    <1>2. pos > 1 /\ Len(ordered) = pos - 2
        BY <1>1 DEF SearchInv
    <1>3. pos - 1 \in 1..Len(operations)
        BY <1>2, OpIdsFacts DEF SearchInv
    <1>4. ASSUME NEW d \in Ids \ ToSet(OpIds), stack = <<Current, d>>
          PROVE  FALSE
        <2>1. Order!Top = d
            BY <1>4 DEF Order!Top
        <2>2. Len(Order!Iterated(d)) = 0 /\ cursor[d] \in Nat \ {0}
            BY IteratedFacts DEF SearchInv
        <2> QED
            BY <1>1, <2>1, <2>2
    <1>5. stack = <<Current>> /\ tempMark = {Current}
        BY <1>1, <1>4 DEF SearchInv
    <1>6. Order!Top = Current
        BY <1>5 DEF Order!Top
    <1> DEFINE op == operations[pos - 1]
    <1>7. op \in OpRecords /\ op \in ToSet(operations) /\ Order!Iterated(Current) = op.deps
          /\ cursor[Current] \in Nat \ {0}
        BY <1>3, OpIdsFacts, IteratedFacts DEF Current, SearchInv, ToSet, OpRecords
    <1>8. op.deps # <<>>
        BY <1>1, <1>6, <1>7
    <1>9. PICK t : op.deps = <<t>> /\ \A other \in ToSet(operations) : other.id # t
        BY <1>7, <1>8, DependenciesDangle DEF Dangling
    <1>10. cursor[Current] = 1 /\ Order!NextDep = t
        BY <1>1, <1>6, <1>7, <1>9
    <1>11. t \in Ids
        <2>1. op.deps \in Seq(Ids)
            BY <1>7 DEF OpRecords
        <2> QED
            BY <2>1, <1>9
    <1>12. t \notin ToSet(OpIds)
        BY <1>9, OpIdsFacts DEF ToSet
    <1>13. Current \in Ids
        BY <1>3, OpIdsFacts DEF Current
    <1> QED
        BY <1>2, <1>5, <1>6, <1>10, <1>11, <1>12, <1>13

\* The step of the search that finishes a call: the operation is emitted, or a
\* dependency that names none is left.
LEMMA SearchByFinishVisit ==
    ASSUME EmittedInv, SearchInv, outcome = "ordering", Order!FinishVisit,
           UNCHANGED <<operations, outcome>>
    PROVE  SearchInv'
    <1>1. /\ ordering = "running" /\ stack # <<>>
          /\ tempMark' = tempMark \ {Order!Top}
          /\ visited' = visited \cup {Order!Top}
          /\ ordered' = IF Order!Top \in ToSet(OpIds) THEN Append(ordered, Order!Top) ELSE ordered
          /\ stack' = SubSeq(stack, 1, Len(stack) - 1)
          /\ UNCHANGED <<pos, cursor, ordering>>
        BY OrderOpsAre DEF Order!FinishVisit
    <1>2. pos > 1 /\ Len(ordered) = pos - 2 /\ pos \in Nat /\ Len(operations) \in Nat
        BY <1>1, OpIdsFacts DEF SearchInv
    <1>3. pos - 1 \in 1..Len(operations)
        BY <1>2 DEF SearchInv
    <1>4. Current' = Current /\ OpIds' = OpIds /\ Current \in ToSet(OpIds) /\ Current \in Ids
        BY <1>1, <1>3, OpIdsFacts DEF Current, OpIds, OpRecords
    <1>5. CASE stack = <<Current>> /\ tempMark = {Current}
        <2>1. Order!Top = Current /\ stack' = <<>>
            BY <1>1, <1>5 DEF Order!Top
        <2>2. tempMark' = {} /\ visited' = visited \cup {Current}
              /\ ordered' = Append(ordered, Current)
            BY <1>1, <1>4, <1>5, <2>1
        <2>3. ordered \in Seq(Ids)
            BY DEF SearchInv
        <2>4. /\ ordered' \in Seq(Ids) /\ Len(ordered') = pos - 1
              /\ \A n \in 1..pos - 2 : ordered'[n] = ordered[n]
              /\ ordered'[pos - 1] = Current
            BY <2>2, <2>3, <1>2, <1>4, AppendProperties
        <2>5. ASSUME NEW n \in 1..pos - 1
              PROVE  ordered'[n] = operations[n].id
            <3>1. n \in 1..pos - 2 \/ n = pos - 1
                BY <1>2
            <3> QED
                BY <3>1, <2>4, <1>2 DEF SearchInv, Current
        <2>6. ASSUME NEW n \in 1..Len(operations)
              PROVE  operations[n].id \in visited' <=> n <= pos - 1
            <3>1. operations[n].id = Current <=> n = pos - 1
                BY <1>3, OpIdsFacts DEF EmittedInv, DistinctIds, Current
            <3>2. operations[n].id \in visited <=> n <= pos - 2
                BY <1>2 DEF SearchInv
            <3>3. n <= pos - 1 <=> n <= pos - 2 \/ n = pos - 1
                BY <1>2
            <3> QED
                BY <2>2, <3>1, <3>2, <3>3
        <2>7. pos' \in 1..Len(operations') + 1 /\ Len(ordered') <= Len(operations')
            BY <1>1, <1>3, <2>4 DEF SearchInv
        <2> QED
            BY <1>1, <2>1, <2>2, <2>4, <2>5, <2>6, <2>7 DEF SearchInv
    <1>6. ASSUME NEW d \in Ids \ ToSet(OpIds), stack = <<Current, d>>, tempMark = {Current, d}
          PROVE  SearchInv'
        <2>1. Order!Top = d /\ stack' = <<Current>>
            <3>1. Len(stack) = 2 /\ stack[2] = d
                BY <1>6
            <3>2. SubSeq(stack, 1, 1) = <<Current>>
                BY <1>6, ShortStacks
            <3> QED
                BY <1>1, <3>1, <3>2 DEF Order!Top
        <2>2. tempMark' = {Current} /\ visited' = visited \cup {d} /\ ordered' = ordered
            BY <1>1, <1>4, <1>6, <2>1
        <2>3. ASSUME NEW n \in 1..Len(operations)
              PROVE  operations[n].id \in visited' <=> n <= Len(ordered)
            <3>1. operations[n].id # d
                BY OpIdsFacts
            <3> QED
                BY <3>1, <2>2 DEF SearchInv
        <2> QED
            BY <1>1, <1>2, <1>4, <2>1, <2>2, <2>3 DEF SearchInv
    <1> QED
        BY <1>1, <1>5, <1>6 DEF SearchInv

LEMMA SearchByOrderOperations == EmittedInv /\ SearchInv /\ OrderOperations => SearchInv'
    <1> SUFFICES ASSUME EmittedInv, SearchInv, OrderOperations PROVE SearchInv'
        OBVIOUS
    <1>1. /\ outcome = "ordering" /\ ordering = "running" /\ UNCHANGED <<operations, outcome>>
          /\ Order!Next
        BY DEF OrderOperations
    <1>2. OpIds' = OpIds
        BY <1>1 DEF OpIds
    <1>3. CASE Order!SkipOperation
        <2>1. stack = <<>> /\ pos <= Len(OpIds) /\ OpIds[pos] \in visited
            BY <1>3 DEF Order!SkipOperation
        <2>2. pos \in 1..Len(operations) /\ Len(ordered) = pos - 1
            BY <2>1, OpIdsFacts DEF SearchInv
        <2>3. operations[pos].id \in visited
            BY <2>1, <2>2, OpIdsFacts
        <2> QED
            BY <2>2, <2>3 DEF SearchInv
    <1>4. CASE Order!VisitOperation
        <2>1. /\ stack = <<>> /\ pos <= Len(OpIds) /\ pos' = pos + 1
              /\ tempMark' = tempMark \cup {OpIds[pos]} /\ stack' = <<OpIds[pos]>>
              /\ cursor' = [cursor EXCEPT ![OpIds[pos]] = 1]
              /\ UNCHANGED <<visited, ordered, ordering>>
            BY <1>4 DEF Order!VisitOperation
        <2>2. pos \in 1..Len(operations) /\ Len(ordered) = pos - 1 /\ tempMark = {}
            BY <2>1, OpIdsFacts DEF SearchInv
        <2>3. Current' = OpIds[pos]
            BY <1>1, <2>1, <2>2, OpIdsFacts DEF Current
        <2>4. /\ pos' \in 1..Len(operations') + 1 /\ pos' > 1 /\ Len(ordered') = pos' - 2
              /\ cursor' \in [Ids -> Nat \ {0}]
            BY <1>1, <2>1, <2>2, OpIdsFacts DEF SearchInv
        <2>5. stack' = <<Current'>> /\ tempMark' = {Current'}
            BY <2>1, <2>2, <2>3
        <2> QED
            BY <1>1, <2>1, <2>4, <2>5 DEF SearchInv
    <1>5. CASE Order!Circular
        <2>1. Order!Looking /\ Order!NextDep \in tempMark
            BY <1>5 DEF Order!Circular
        <2>2. Order!NextDep = Current /\ Order!NextDep \notin ToSet(OpIds) /\ pos > 1
            BY <2>1, LooksAtDangling
        <2>3. pos - 1 \in 1..Len(operations)
            BY <2>2, OpIdsFacts DEF SearchInv
        <2>4. Current \in ToSet(OpIds)
            BY <2>3, OpIdsFacts DEF Current
        <2> QED
            BY <2>2, <2>4
    <1>6. CASE Order!SkipDependency
        <2>1. Order!Looking /\ cursor' = [cursor EXCEPT ![Order!Top] = @ + 1]
              /\ UNCHANGED <<pos, visited, tempMark, stack, ordered, ordering>>
            BY <1>6 DEF Order!SkipDependency
        <2> DEFINE top == Order!Top
        <2>2. cursor' \in [Ids -> Nat \ {0}]
            <3>1. cursor' = [cursor EXCEPT ![top] = cursor[top] + 1] /\ cursor \in [Ids -> Nat \ {0}]
                BY <2>1 DEF SearchInv
            <3>2. top \in Ids
                BY <2>1, LooksAtDangling
            <3> HIDE DEF top
            <3>3. cursor[top] + 1 \in Nat \ {0}
                BY <3>1, <3>2
            <3> QED
                BY <3>1, <3>3
        <2>3. Current' = Current
            BY <1>1, <2>1 DEF Current
        <2> QED
            BY <1>1, <1>2, <2>1, <2>2, <2>3 DEF SearchInv
    <1>7. CASE Order!VisitDependency
        <2>1. /\ Order!Looking /\ tempMark' = tempMark \cup {Order!NextDep}
              /\ stack' = Append(stack, Order!NextDep)
              /\ cursor' = [cursor EXCEPT ![Order!Top] = @ + 1, ![Order!NextDep] = 1]
              /\ UNCHANGED <<pos, visited, ordered, ordering>>
            BY <1>7 DEF Order!VisitDependency
        <2> DEFINE d == Order!NextDep
        <2>2. d \in Ids \ ToSet(OpIds) /\ stack = <<Current>> /\ tempMark = {Current}
              /\ pos > 1 /\ Len(ordered) = pos - 2
            BY <2>1, LooksAtDangling
        <2> HIDE DEF d
        <2>3. Current' = Current
            BY <1>1, <2>1 DEF Current
        <2>4. stack' = <<Current, d>> /\ tempMark' = {Current, d}
            BY <2>1, <2>2, ShortStacks DEF d
        <2>5. cursor' \in [Ids -> Nat \ {0}]
            BY <2>1, <2>2 DEF SearchInv, d
        <2> QED
            BY <1>1, <1>2, <2>1, <2>2, <2>3, <2>4, <2>5 DEF SearchInv
    <1>8. CASE Order!FinishVisit
        BY <1>1, <1>8, SearchByFinishVisit
    <1>9. CASE Order!Return
        <2>1. /\ stack = <<>> /\ pos > Len(OpIds) /\ ordering' = "ordered"
              /\ UNCHANGED <<pos, visited, tempMark, stack, cursor, ordered>>
            BY <1>9 DEF Order!Return, Order!search
        <2>2. pos > Len(operations)
            BY <2>1, OpIdsFacts
        <2> QED
            BY <1>1, <1>2, <2>1, <2>2 DEF SearchInv, Current
    <1> QED
        BY <1>1, <1>3, <1>4, <1>5, <1>6, <1>7, <1>8, <1>9 DEF Order!Next

\* The steps around the search leave its state alone; before it starts there is none.
LEMMA SearchByOthers ==
    ASSUME EmittedInv, SearchInv, UNCHANGED search,
           outcome' # "failed",
           operations' = operations \/ outcome = "converting",
           Len(operations') \in Nat,
           outcome' \in {"converting", "panic"} => outcome \in {"converting", "panic"},
           outcome' \in {"categorizing", "planned"} => ordering = "ordered"
    PROVE  SearchInv'
    <1>1. /\ pos' = pos /\ visited' = visited /\ tempMark' = tempMark /\ stack' = stack
          /\ cursor' = cursor /\ ordered' = ordered /\ ordering' = ordering
        BY DEF search
    <1>2. CASE operations' = operations
        <2>1. OpIds' = OpIds /\ Current' = Current
            BY <1>1, <1>2 DEF OpIds, Current
        <2> QED
            BY <1>1, <1>2, <2>1 DEF SearchInv
    <1>3. CASE outcome = "converting"
        <2>1. /\ ordered = <<>> /\ visited = {} /\ stack = <<>> /\ tempMark = {}
              /\ ordering = "running"
            BY <1>3 DEF SearchInv
        <2>2. Len(ordered) = 0 /\ pos = 1 /\ 1 \in 1..Len(operations') + 1
            BY <2>1, OpIdsFacts DEF SearchInv
        <2> QED
            BY <1>1, <2>1, <2>2 DEF SearchInv
    <1> QED
        BY <1>2, <1>3

LEMMA SearchKept == EmittedInv /\ SearchInv /\ [Next]_vars => SearchInv'
    <1> SUFFICES ASSUME EmittedInv, SearchInv, [Next]_vars PROVE SearchInv'
        OBVIOUS
    <1>1. Len(operations') \in Nat
        BY EmittedKept, LenProperties DEF EmittedInv
    <1>2. CASE ConvertChange
        BY <1>1, <1>2, SearchByOthers DEF ConvertChange, Converting
    <1>3. CASE PanicOnDrop
        BY <1>1, <1>3, SearchByOthers DEF PanicOnDrop, Converting
    <1>4. CASE NextConverter
        BY <1>1, <1>4, SearchByOthers DEF NextConverter, Converting
    <1>5. CASE OrderOperations
        BY <1>5, SearchByOrderOperations
    <1>6. CASE OrderingReturns
        <2>1. ordering = "ordered"
            BY <1>6 DEF OrderingReturns, SearchInv
        <2> QED
            BY <1>1, <1>6, <2>1, SearchByOthers DEF OrderingReturns
    <1>7. CASE CategorizeRisk
        BY <1>1, <1>7, SearchByOthers DEF CategorizeRisk, SearchInv
    <1>8. CASE ReturnStrategy
        BY <1>1, <1>8, SearchByOthers DEF ReturnStrategy, SearchInv
    <1>9. CASE SortByRisk \/ UNCHANGED vars
        BY <1>1, <1>9, SearchByOthers DEF SortByRisk, vars, search, SearchInv
    <1> QED
        BY <1>2, <1>3, <1>4, <1>5, <1>6, <1>7, <1>8, <1>9 DEF Next
-----------------------------------------------------------------------------
(***************************************************************************)
(* The warning lists.                                                      *)
(***************************************************************************)
\* The positions the loop of categorizeRisks has passed.
Categorized ==
    IF outcome \in {"categorizing", "planned"} THEN {n \in DOMAIN operations : n < at} ELSE {}
LosesData(op) == ~op.reversible \/ op.action = "DROP"

RiskInv ==
    /\ highRiskOps \in Seq(Nat) /\ dataLossOps \in Seq(Nat)
    /\ ToSet(highRiskOps) = {n \in Categorized : operations[n].risk = "HIGH"}
    /\ ToSet(dataLossOps) = {n \in Categorized : LosesData(operations[n])}
    /\ outcome = "ordering" => at = 1
    /\ outcome = "planned" => at > Len(operations)
    /\ outcome # "planned" => reviewed = <<>>
    /\ ToSet(reviewed) \subseteq DOMAIN operations

LEMMA AppendedSet ==
    ASSUME NEW s \in Seq(Nat), NEW x \in Nat
    PROVE  Append(s, x) \in Seq(Nat) /\ ToSet(Append(s, x)) = ToSet(s) \cup {x}
    <1>1. /\ Append(s, x) \in Seq(Nat) /\ Len(Append(s, x)) = Len(s) + 1
          /\ \A i \in 1..Len(s) : Append(s, x)[i] = s[i]
          /\ Append(s, x)[Len(s) + 1] = x
        BY AppendProperties
    <1>2. Len(s) \in Nat /\ DOMAIN s = 1..Len(s) /\ DOMAIN Append(s, x) = 1..Len(s) + 1
        BY <1>1, LenProperties
    <1>3. \A i : i \in 1..Len(s) + 1 <=> i \in 1..Len(s) \/ i = Len(s) + 1
        BY <1>2
    <1> QED
        BY <1>1, <1>2, <1>3 DEF ToSet

LEMMA RiskInitially == Init => RiskInv
    <1> SUFFICES ASSUME Init PROVE RiskInv
        OBVIOUS
    <1>1. /\ operations = <<>> /\ highRiskOps = <<>> /\ dataLossOps = <<>> /\ reviewed = <<>>
          /\ outcome = "converting"
        BY DEF Init
    <1>2. ToSet(<<>>) = {}
        BY DEF ToSet
    <1> QED
        BY <1>1, <1>2 DEF RiskInv, Categorized

\* One round of the loop of categorizeRisks passes one operation more.
LEMMA RiskByCategorizeRisk == EmittedInv /\ RiskInv /\ CategorizeRisk => RiskInv'
    <1> SUFFICES ASSUME EmittedInv, RiskInv, CategorizeRisk PROVE RiskInv'
        OBVIOUS
    <1> DEFINE op == operations[at]
    <1>1. /\ outcome = "categorizing" /\ outcome' = outcome /\ at' = at + 1
          /\ UNCHANGED <<operations, reviewed>> /\ reviewed = <<>>
          /\ at \in 1..Len(operations) /\ at \in Nat /\ Len(operations) \in Nat
          /\ DOMAIN operations = 1..Len(operations)
        BY OpIdsFacts DEF CategorizeRisk, EmittedInv, RiskInv
    <1>2. /\ highRiskOps' = IF op.risk = "HIGH" THEN Append(highRiskOps, at) ELSE highRiskOps
          /\ dataLossOps' = IF LosesData(op) THEN Append(dataLossOps, at) ELSE dataLossOps
        BY DEF CategorizeRisk, LosesData
    <1>3. /\ Categorized = {n \in DOMAIN operations : n < at}
          /\ Categorized' = {n \in DOMAIN operations : n < at + 1}
        BY <1>1 DEF Categorized
    <1>4. \A n \in DOMAIN operations : n < at + 1 <=> n < at \/ n = at
        BY <1>1
    <1>5. Categorized' = Categorized \cup {at}
        BY <1>1, <1>3, <1>4
    <1>6. /\ highRiskOps' \in Seq(Nat)
          /\ ToSet(highRiskOps') = {n \in Categorized' : operations[n].risk = "HIGH"}
        <2>1. ToSet(highRiskOps) = {n \in Categorized : operations[n].risk = "HIGH"}
            BY DEF RiskInv
        <2>2. CASE op.risk = "HIGH"
            BY <1>1, <1>2, <1>5, <2>1, <2>2, AppendedSet DEF RiskInv
        <2>3. CASE op.risk # "HIGH"
            BY <1>1, <1>2, <1>5, <2>1, <2>3 DEF RiskInv
        <2> QED
            BY <2>2, <2>3
    <1>7. /\ dataLossOps' \in Seq(Nat)
          /\ ToSet(dataLossOps') = {n \in Categorized' : LosesData(operations[n])}
        <2>1. ToSet(dataLossOps) = {n \in Categorized : LosesData(operations[n])}
            BY DEF RiskInv
        <2>2. CASE LosesData(op)
            BY <1>1, <1>2, <1>5, <2>1, <2>2, AppendedSet DEF RiskInv
        <2>3. CASE ~LosesData(op)
            BY <1>1, <1>2, <1>5, <2>1, <2>3 DEF RiskInv
        <2> QED
            BY <2>2, <2>3
    <1>8. ToSet(reviewed') \subseteq DOMAIN operations'
        BY <1>1 DEF RiskInv
    <1> QED
        BY <1>1, <1>6, <1>7, <1>8 DEF RiskInv

\* The other steps leave the lists as they are, and what they are to hold.
LEMMA RiskByOthers ==
    ASSUME EmittedInv, RiskInv, UNCHANGED <<highRiskOps, dataLossOps, reviewed>>,
           Categorized' = Categorized,
           outcome = "planned" => outcome' = "planned",
           operations' = operations \/ outcome = "converting",
           outcome' = "ordering" => at' = 1,
           outcome' = "planned" => at' > Len(operations')
    PROVE  RiskInv'
    <1>1. Categorized \subseteq DOMAIN operations
        BY DEF Categorized
    <1>2. CASE operations' = operations
        BY <1>2 DEF RiskInv
    <1>3. CASE outcome = "converting"
        <2>1. Categorized = {} /\ reviewed = <<>>
            BY <1>3 DEF Categorized, RiskInv
        <2>2. ToSet(<<>>) = {}
            BY DEF ToSet
        <2> QED
            BY <2>1, <2>2 DEF RiskInv
    <1> QED
        BY <1>2, <1>3

LEMMA RiskKept == EmittedInv /\ RiskInv /\ [Next]_vars => RiskInv'
    <1> SUFFICES ASSUME EmittedInv, RiskInv, [Next]_vars PROVE RiskInv'
        OBVIOUS
    <1>1. CASE ConvertChange
        BY <1>1, RiskByOthers DEF ConvertChange, Converting, Categorized
    <1>2. CASE PanicOnDrop
        BY <1>2, RiskByOthers DEF PanicOnDrop, Converting, Categorized
    <1>3. CASE NextConverter
        BY <1>3, RiskByOthers DEF NextConverter, Converting, Categorized
    <1>4. CASE OrderOperations
        BY <1>4, RiskByOthers DEF OrderOperations, Categorized, RiskInv
    <1>5. CASE OrderingReturns
        <2>1. at = 1 /\ outcome = "ordering" /\ outcome' \in {"categorizing", "failed"}
              /\ UNCHANGED <<operations, at, highRiskOps, dataLossOps, reviewed>>
            BY <1>5 DEF OrderingReturns, RiskInv
        <2>2. \A n \in DOMAIN operations : ~(n < 1)
            BY OpIdsFacts
        <2>3. Categorized' = Categorized
            BY <2>1, <2>2 DEF Categorized
        <2> QED
            BY <2>1, <2>3, RiskByOthers
    <1>6. CASE CategorizeRisk
        BY <1>6, RiskByCategorizeRisk
    <1>7. CASE ReturnStrategy
        BY <1>7, RiskByOthers DEF ReturnStrategy, Categorized
    <1>8. CASE SortByRisk
        <2>1. /\ outcome = "planned" /\ reviewed' \in SetToSeqs(DOMAIN operations)
              /\ UNCHANGED <<at, operations, highRiskOps, dataLossOps, outcome>>
            BY <1>8 DEF SortByRisk
        <2>2. ToSet(reviewed') \subseteq DOMAIN operations
            BY <2>1 DEF SetToSeqs, ToSet
        <2>3. Categorized' = Categorized
            BY <2>1 DEF Categorized
        <2> QED
            BY <2>1, <2>2, <2>3 DEF RiskInv
    <1>9. CASE UNCHANGED vars
        <2>1. UNCHANGED <<at, operations, highRiskOps, dataLossOps, outcome, reviewed>>
            BY <1>9 DEF vars
        <2>2. Categorized' = Categorized
            BY <2>1 DEF Categorized
        <2> QED
            BY <2>1, <2>2 DEF RiskInv
    <1> QED
        BY <1>1, <1>2, <1>3, <1>4, <1>5, <1>6, <1>7, <1>8, <1>9 DEF Next

-----------------------------------------------------------------------------
(***************************************************************************)
(* The entries passed are none of those that end in a panic.               *)
(***************************************************************************)
\* The entry of a list that a converter cannot name.
Unnamed(s, i) ==
    /\ Converters[s] \in {"sequence", "function", "procedure", "event"}
    /\ List(s)[i].action = "DROP"

NamedInv ==
    /\ \A s \in Stages : \A i \in DOMAIN List(s) : Past(s, i) => ~Unnamed(s, i)
    /\ outcome = "panic" => stage \in Stages /\ at \in DOMAIN List(stage) /\ Unnamed(stage, at)

LEMMA NamedInitially == Init => NamedInv
    <1> SUFFICES ASSUME Init PROVE NamedInv
        OBVIOUS
    <1>1. mdiff \in Diffs /\ stage = 1 /\ at = 1 /\ outcome = "converting"
        BY DEF Init
    <1>2. ASSUME NEW s \in Stages, NEW i \in DOMAIN List(s)
          PROVE  ~Past(s, i)
        <2>1. i \in Nat \ {0}
            BY <1>1, ListFacts
        <2> QED
            BY <2>1, <1>1 DEF Past, Stages
    <1> QED
        BY <1>1, <1>2 DEF NamedInv

\* A round of a converter's loop that returns had an entry it could name.
LEMMA NamedByConverting ==
    ASSUME EmittedInv, NamedInv, ConvertChange \/ PanicOnDrop \/ NextConverter
    PROVE  NamedInv'
    <1>1. /\ stage \in Stages /\ mdiff' = mdiff /\ mdiff \in Diffs /\ outcome = "converting"
          /\ at \in Nat \ {0} /\ at <= Len(List(stage)) + 1
        BY DEF ConvertChange, PanicOnDrop, NextConverter, Converting, EmittedInv
    <1>2. \A s : List(s)' = List(s) /\ \A i : Unnamed(s, i)' = Unnamed(s, i)
        BY <1>1 DEF List, Unnamed
    <1>3. \A i \in DOMAIN List(stage) : i \in Nat \ {0} /\ i <= Len(List(stage))
        BY <1>1, ListFacts
    <1>4. Len(List(stage)) \in Nat /\ DOMAIN List(stage) = 1..Len(List(stage))
        BY <1>1, ListFacts
    <1>5. NamesMissingObject <=> Unnamed(stage, at)
        BY DEF NamesMissingObject, Unnamed, CurrentList, List
    <1>6. CASE ConvertChange
        <2>1. stage' = stage /\ at' = at + 1 /\ outcome' = "converting" /\ ~Unnamed(stage, at)
            BY <1>1, <1>5, <1>6 DEF ConvertChange
        <2>2. ASSUME NEW s \in Stages, NEW i \in DOMAIN List(s), Past(s, i)'
              PROVE  ~Unnamed(s, i)
            <3>1. CASE s = stage /\ i = at
                BY <3>1, <2>1
            <3>2. CASE s # stage \/ i # at
                <4>1. i \in Nat
                    BY <1>1, ListFacts
                <4>2. Past(s, i)
                    BY <1>1, <2>1, <2>2, <3>2, <4>1 DEF Past
                <4> QED
                    BY <4>2 DEF NamedInv
            <3> QED
                BY <3>1, <3>2
        <2> QED
            BY <1>2, <2>1, <2>2 DEF NamedInv
    <1>7. CASE PanicOnDrop
        <2>1. stage' = stage /\ at' = at /\ Unnamed(stage, at) /\ at <= Len(List(stage))
            BY <1>5, <1>7 DEF PanicOnDrop, CurrentList, List
        <2>2. \A s, i : Past(s, i)' = Past(s, i)
            BY <2>1 DEF Past
        <2> QED
            BY <1>1, <1>2, <1>4, <2>1, <2>2 DEF NamedInv
    <1>8. CASE NextConverter
        <2>1. /\ stage' = stage + 1 /\ at' = 1 /\ outcome' # "panic" /\ at > Len(List(stage))
            BY <1>8 DEF NextConverter, CurrentList, List
        <2>2. ASSUME NEW s \in Stages, NEW i \in DOMAIN List(s), Past(s, i)'
              PROVE  ~Unnamed(s, i)
            <3>1. i \in Nat \ {0}
                BY <1>1, ListFacts
            <3>2. s <= stage
                BY <1>1, <2>1, <2>2, <3>1 DEF Past, Stages
            <3>3. Past(s, i)
                BY <1>1, <1>3, <1>4, <2>1, <3>1, <3>2 DEF Past, Stages
            <3> QED
                BY <3>3 DEF NamedInv
        <2> QED
            BY <1>2, <2>1, <2>2 DEF NamedInv
    <1> QED
        BY <1>6, <1>7, <1>8

\* The other steps pass no entry and do not panic.
LEMMA NamedByOthers ==
    ASSUME EmittedInv, NamedInv, UNCHANGED <<mdiff, stage>>, at' = at \/ stage = 11,
           outcome' = "panic" => outcome = "panic" /\ at' = at
    PROVE  NamedInv'
    <1>1. \A s : List(s)' = List(s) /\ \A i : Unnamed(s, i)' = Unnamed(s, i)
        BY DEF List, Unnamed
    <1>2. \A s \in Stages : \A i \in DOMAIN List(s) : Past(s, i)' = Past(s, i)
        BY DEF Past, Stages
    <1> QED
        BY <1>1, <1>2 DEF NamedInv

LEMMA NamedKept == EmittedInv /\ NamedInv /\ [Next]_vars => NamedInv'
    <1> SUFFICES ASSUME EmittedInv, NamedInv, [Next]_vars PROVE NamedInv'
        OBVIOUS
    <1>1. CASE ConvertChange \/ PanicOnDrop \/ NextConverter
        BY <1>1, NamedByConverting
    <1>2. CASE OrderOperations
        BY <1>2, NamedByOthers DEF OrderOperations
    <1>3. CASE OrderingReturns
        BY <1>3, NamedByOthers DEF OrderingReturns
    <1>4. CASE CategorizeRisk
        BY <1>4, NamedByOthers DEF CategorizeRisk, EmittedInv
    <1>5. CASE ReturnStrategy
        BY <1>5, NamedByOthers DEF ReturnStrategy
    <1>6. CASE SortByRisk
        BY <1>6, NamedByOthers DEF SortByRisk
    <1>7. CASE UNCHANGED vars
        BY <1>7, NamedByOthers DEF vars
    <1> QED
        BY <1>1, <1>2, <1>3, <1>4, <1>5, <1>6, <1>7 DEF Next

-----------------------------------------------------------------------------
(***************************************************************************)
(* The theorems.                                                           *)
(***************************************************************************)
IInv == EmittedInv /\ SearchInv /\ RiskInv /\ NamedInv

LEMMA InvariantHolds == Spec => []IInv
    <1>1. Init => IInv
        BY EmittedInitially, SearchInitially, RiskInitially, NamedInitially DEF IInv
    <1>2. IInv /\ [Next]_vars => IInv'
        BY EmittedKept, SearchKept, RiskKept, NamedKept DEF IInv
    <1> QED
        BY <1>1, <1>2, PTL DEF Spec

\* Once every list is passed, the operations are those the whole diff asks for.
LEMMA RequestedIsEmitted ==
    ASSUME EmittedInv, stage = 11
    PROVE  {Brief(op) : op \in ToSet(operations)} = Requested
    <1> DEFINE All == UNION {UNION {RequestedBy(Converters[s], i, List(s)[i]) : i \in DOMAIN List(s)} :
                             s \in Stages}
    <1>1. ASSUME NEW s \in Stages, NEW i \in DOMAIN List(s)
          PROVE  /\ Past(s, i) /\ Made(s, i) \subseteq ToSet(operations)
                 /\ {Brief(op) : op \in Made(s, i)} = RequestedBy(Converters[s], i, List(s)[i])
        <2>1. Past(s, i)
            BY DEF Past, Stages
        <2>2. EntryFacts(Converters[s], i, List(s)[i], Converted(Converters[s], i, List(s)[i]))
            BY ListFacts, ConvertedFacts DEF EmittedInv, List
        <2> QED
            BY <2>1, <2>2 DEF EmittedInv, EntryFacts, Made
    <1>2. {Brief(op) : op \in ToSet(operations)} = All
        <2>1. ASSUME NEW op \in ToSet(operations)
              PROVE  Brief(op) \in All
            <3>1. PICK s \in Stages : \E i \in DOMAIN List(s) : op \in Made(s, i)
                BY DEF EmittedInv
            <3>2. PICK i \in DOMAIN List(s) : op \in Made(s, i)
                BY <3>1
            <3> QED
                BY <3>2, <1>1
        <2>2. ASSUME NEW r \in All
              PROVE  r \in {Brief(op) : op \in ToSet(operations)}
            <3>1. PICK s \in Stages : \E i \in DOMAIN List(s) :
                        r \in RequestedBy(Converters[s], i, List(s)[i])
                OBVIOUS
            <3>2. PICK i \in DOMAIN List(s) : r \in RequestedBy(Converters[s], i, List(s)[i])
                BY <3>1
            <3> QED
                BY <3>2, <1>1
        <2> QED
            BY <2>1, <2>2
    <1> DEFINE Whole == UNION {{[id |-> <<k, i>>, action |-> mdiff[k][i].action] :
                    i \in {i \in DOMAIN mdiff[k] : k # "table" \/ mdiff[k][i].action # "ALTER"}} :
                    k \in Kinds}
               InParts == UNION {UNION {{[id |-> <<"table", i, p, j>>,
                                          action |-> mdiff["table"][i].parts[p][j].action] :
                                    j \in DOMAIN mdiff["table"][i].parts[p]} :
                                p \in {p \in ToSet(Parts) : mdiff["table"][i].action = "ALTER"}} :
                            i \in DOMAIN mdiff["table"]}
    <1>3. Requested = Whole \cup InParts
        BY DEF Requested
    <1>4. ASSUME NEW k \in Kinds, NEW i \in DOMAIN mdiff[k], NEW r
          PROVE  r \in RequestedBy(k, i, mdiff[k][i]) => r \in All
        <2>1. PICK s \in Stages : Converters[s] = k
            BY KindsAre DEF Stages
        <2>2. List(s) = mdiff[k]
            BY <2>1 DEF List
        <2> QED
            BY <2>1, <2>2
    <1>5. ASSUME NEW r \in Whole
          PROVE  r \in All
        <2>1. PICK k \in Kinds : \E i \in DOMAIN mdiff[k] :
                /\ k # "table" \/ mdiff[k][i].action # "ALTER"
                /\ r = [id |-> <<k, i>>, action |-> mdiff[k][i].action]
            OBVIOUS
        <2>2. PICK i \in DOMAIN mdiff[k] :
                /\ k # "table" \/ mdiff[k][i].action # "ALTER"
                /\ r = [id |-> <<k, i>>, action |-> mdiff[k][i].action]
            BY <2>1
        <2>3. r \in RequestedBy(k, i, mdiff[k][i])
            BY <2>2 DEF RequestedBy
        <2> QED
            BY <2>3, <1>4
    <1>6. ASSUME NEW r \in InParts
          PROVE  r \in All
        <2>1. PICK i \in DOMAIN mdiff["table"] : \E p \in ToSet(Parts) :
                mdiff["table"][i].action = "ALTER" /\ \E j \in DOMAIN mdiff["table"][i].parts[p] :
                r = [id |-> <<"table", i, p, j>>, action |-> mdiff["table"][i].parts[p][j].action]
            OBVIOUS
        <2>2. r \in RequestedBy("table", i, mdiff["table"][i])
            BY <2>1 DEF RequestedBy
        <2>3. "table" \in Kinds
            BY KindsAre
        <2> QED
            BY <2>2, <2>3, <1>4
    <1>7. ASSUME NEW r \in All
          PROVE  r \in Whole \cup InParts
        <2>1. PICK s \in Stages : \E i \in DOMAIN List(s) :
                    r \in RequestedBy(Converters[s], i, List(s)[i])
            OBVIOUS
        <2>2. PICK i \in DOMAIN List(s) : r \in RequestedBy(Converters[s], i, List(s)[i])
            BY <2>1
        <2> DEFINE k == Converters[s]
        <2>3. k \in Kinds /\ List(s) = mdiff[k]
            BY KindsAre DEF List, Stages
        <2> HIDE DEF k
        <2>4. i \in DOMAIN mdiff[k] /\ r \in RequestedBy(k, i, mdiff[k][i])
            BY <2>2, <2>3 DEF k
        <2>5. CASE k = "table" /\ mdiff[k][i].action = "ALTER"
            <3>1. \E p \in ToSet(Parts) : \E j \in DOMAIN mdiff["table"][i].parts[p] :
                    r = [id |-> <<"table", i, p, j>>,
                         action |-> mdiff["table"][i].parts[p][j].action]
                BY <2>4, <2>5 DEF RequestedBy
            <3>2. r \in InParts
                BY <3>1, <2>4, <2>5
            <3> QED
                BY <3>2
        <2>6. CASE ~(k = "table" /\ mdiff[k][i].action = "ALTER")
            <3>1. r = [id |-> <<k, i>>, action |-> mdiff[k][i].action]
                BY <2>4, <2>6 DEF RequestedBy
            <3>2. r \in Whole
                BY <3>1, <2>3, <2>4, <2>6
            <3> QED
                BY <3>2
        <2> QED
            BY <2>5, <2>6
    <1> HIDE DEF All, Whole, InParts
    <1> QED
        BY <1>2, <1>3, <1>5, <1>6, <1>7

LEMMA InvariantIsTyped == IInv => TypeOK
    <1> SUFFICES ASSUME IInv PROVE TypeOK
        OBVIOUS
    <1>1. mdiff \in [Kinds -> Seq(Change)]
        BY DiffsAssumption DEF IInv, EmittedInv
    <1>2. ToSet(highRiskOps) \cup ToSet(dataLossOps) \cup ToSet(reviewed) \subseteq DOMAIN operations
        BY DEF IInv, RiskInv, Categorized
    <1>3. stage \in 1..Len(Converters) + 1
        BY KindsAre DEF IInv, EmittedInv
    <1>4. operations \in Seq([id : Ids, action : Actions, deps : Seq(Ids),
                              risk : RiskLevels \cup {""}, reversible : BOOLEAN])
        BY DEF IInv, EmittedInv, OpRecords
    <1> QED
        BY <1>1, <1>2, <1>3, <1>4 DEF IInv, EmittedInv, TypeOK

\* Every variable of the planner has its type, and the warning lists and the sorted
\* list hold positions of operations only (strategy.go 119-684).
THEOREM PlannerTypesHold == Spec => []TypeOK
    BY InvariantHolds, InvariantIsTyped, PTL

LEMMA InvariantIsExact == IInv => PlanIsExact
    <1> SUFFICES ASSUME IInv, outcome = "planned" PROVE
            /\ IsInjective(ordered) /\ Len(ordered) = Len(operations)
            /\ {Brief(operations[n]) : n \in DOMAIN operations} = Requested
            /\ ToSet(ordered) = {r.id : r \in Requested}
        BY DEF PlanIsExact, Brief
    <1>1. EmittedInv /\ SearchInv
        BY DEF IInv
    <1>2. /\ Len(ordered) = Len(operations) /\ DOMAIN ordered = 1..Len(operations)
          /\ \A n \in 1..Len(operations) : ordered[n] = operations[n].id
        <2>1. ordering = "ordered" /\ stack = <<>> /\ pos > Len(operations)
            BY <1>1 DEF SearchInv
        <2>2. Len(ordered) = pos - 1 /\ pos \in 1..Len(operations) + 1
            BY <1>1, <2>1 DEF SearchInv
        <2>3. Len(ordered) = Len(operations)
            BY <1>1, <2>1, <2>2, OpIdsFacts
        <2> QED
            BY <1>1, <2>3, LenProperties DEF SearchInv
    <1>3. DOMAIN operations = 1..Len(operations)
        BY <1>1, OpIdsFacts
    <1>4. IsInjective(ordered)
        <2>1. \A m, n \in 1..Len(operations) : operations[m].id = operations[n].id => m = n
            BY <1>1, <1>3 DEF EmittedInv, DistinctIds
        <2> QED
            BY <1>2, <2>1 DEF IsInjective
    <1>5. {Brief(operations[n]) : n \in DOMAIN operations} = Requested
        <2>1. {Brief(op) : op \in ToSet(operations)} = Requested
            BY <1>1, RequestedIsEmitted DEF EmittedInv
        <2>2. \A n \in DOMAIN operations : operations[n] \in ToSet(operations)
            BY DEF ToSet
        <2>3. \A op \in ToSet(operations) : \E n \in DOMAIN operations : op = operations[n]
            BY DEF ToSet
        <2>4. {Brief(operations[n]) : n \in DOMAIN operations}
                = {Brief(op) : op \in ToSet(operations)}
            BY <2>2, <2>3, Zenon
        <2> QED
            BY <2>1, <2>4
    <1>6. ToSet(ordered) = {r.id : r \in Requested}
        <2>1. \A n \in DOMAIN operations : Brief(operations[n]).id = operations[n].id
            BY DEF Brief
        <2>2. ToSet(ordered) = {operations[n].id : n \in DOMAIN operations}
            BY <1>2, <1>3 DEF ToSet
        <2> QED
            BY <1>5, <2>1, <2>2
    <1> QED
        BY <1>2, <1>4, <1>5, <1>6

\* For every diff: a returned plan holds every requested change once and nothing else
\* (strategy.go 119-669).  No two operations share an identifier, so opMap and the
\* search lose none.
THEOREM PlansAreExact == Spec => []PlanIsExact
    BY InvariantIsExact, InvariantHolds, PTL

\* For every diff: the topological sort emits the operations in the order of the
\* converters and never finds a cycle (strategy.go 301-440, 619-672).
THEOREM NothingIsReordered == Spec => []OrderIsEmissionOrder
    <1>1. IInv => OrderIsEmissionOrder
        <2> SUFFICES ASSUME IInv PROVE IsPrefix(ordered, OpIds)
            BY DEF IInv, SearchInv, OrderIsEmissionOrder
        <2> DEFINE n == Len(ordered)
        <2>1. /\ ordered \in Seq(Ids) /\ OpIds \in Seq(Ids) /\ n \in Nat /\ n <= Len(OpIds)
              /\ Len(OpIds) \in Nat
              /\ \A m \in 1..n : ordered[m] = OpIds[m]
            <3>1. ordered \in Seq(Ids) /\ n \in Nat
                BY LenProperties DEF IInv, SearchInv
            <3> HIDE DEF n
            <3>2. /\ OpIds \in Seq(Ids) /\ n <= Len(OpIds) /\ Len(OpIds) \in Nat
                  /\ \A m \in 1..n : m \in 1..Len(operations)
                BY <3>1, OpIdsFacts DEF IInv, SearchInv, n
            <3> QED
                BY <3>1, <3>2, OpIdsFacts DEF IInv, SearchInv, n
        <2>2. ASSUME NEW s \in Seq(Ids), n <= Len(s), Len(s) \in Nat
              PROVE  /\ SubSeq(s, 1, n) \in Seq(Ids) /\ Len(SubSeq(s, 1, n)) = n
                     /\ \A m \in 1..n : SubSeq(s, 1, n)[m] = s[m]
            <3> HIDE DEF n
            <3> QED
                BY <2>1, <2>2, SubSeqProperties
        <2>3. SubSeq(ordered, 1, n) = SubSeq(OpIds, 1, n)
            BY <2>1, <2>2, SeqEqual
        <2> QED
            BY <2>1, <2>3 DEF IsPrefix
    <1> QED
        BY <1>1, InvariantHolds, PTL

\* For every diff: the lists hold the planned operations of their ratings and no other,
\* what is high risk is reported as data loss, what is created is not, and what is
\* without risk can be undone (strategy.go 677-684).
THEOREM RiskListsAlwaysAgree == Spec => []RiskListsAgree
    <1>1. IInv => RiskListsAgree
        <2> SUFFICES ASSUME IInv, outcome = "planned" PROVE RiskListsAgree
            BY DEF RiskListsAgree
        <2>1. EmittedInv /\ RiskInv
            BY DEF IInv
        <2>2. Categorized = DOMAIN operations
            <3>1. /\ at > Len(operations) /\ at \in Nat /\ Len(operations) \in Nat
                  /\ DOMAIN operations = 1..Len(operations)
                BY <2>1, OpIdsFacts DEF RiskInv, EmittedInv
            <3>2. \A n \in DOMAIN operations : n < at
                BY <3>1
            <3> QED
                BY <3>2 DEF Categorized
        <2>3. /\ ToSet(highRiskOps) = {n \in DOMAIN operations : operations[n].risk = "HIGH"}
              /\ ToSet(dataLossOps) = {n \in DOMAIN operations : LosesData(operations[n])}
            BY <2>1, <2>2 DEF RiskInv
        <2>4. ASSUME NEW n \in DOMAIN operations
              PROVE  WellRated(operations[n])
            <3>1. PICK s \in Stages : \E i \in DOMAIN List(s) : operations[n] \in Made(s, i)
                BY <2>1 DEF EmittedInv, ToSet
            <3>2. PICK i \in DOMAIN List(s) : operations[n] \in Made(s, i)
                BY <3>1
            <3> QED
                BY <2>1, <3>2, MadeFacts DEF EmittedInv
        <2>5. ASSUME NEW n \in DOMAIN operations
              PROVE  /\ operations[n].risk = "HIGH" => LosesData(operations[n])
                     /\ operations[n].action = "CREATE" => ~LosesData(operations[n])
                     /\ operations[n].risk = "NONE" => operations[n].reversible
            BY <2>4 DEF WellRated, Proper, LosesData
        <2>6. ToSet(dataLossOps) =
                  {n \in DOMAIN operations : ~operations[n].reversible \/ operations[n].action = "DROP"}
            BY <2>3 DEF LosesData
        <2> QED
            BY <2>3, <2>5, <2>6 DEF RiskListsAgree
    <1> QED
        BY <1>1, InvariantHolds, PTL
=============================================================================

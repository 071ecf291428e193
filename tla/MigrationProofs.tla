--------------------------- MODULE MigrationProofs ---------------------------
(***************************************************************************)
(* Proofs about a caller's way from two databases to a plan, for every     *)
(* pair of databases: what the planner is handed is the result of the      *)
(* comparison, there is a plan exactly when no object that cannot be named *)
(* is dropped, a plan carried out turns the one database into the other,   *)
(* and the reports on a diff show its plan.  They compose the proofs about *)
(* the comparison, the reports and the planner.                            *)
(***************************************************************************)
EXTENDS Migration, CompareProofs

-----------------------------------------------------------------------------
(***************************************************************************)
(* What the planner is handed of the result of a comparison.               *)
(***************************************************************************)
\* What the planner reads of the diff it is handed: actions and flags.
ReadItem(x) == [action |-> x.action, flags |-> x.flags]
ReadItems(items) == [j \in DOMAIN items |-> ReadItem(items[j])]
ReadChange(c) ==
    [action |-> c.action, flags |-> c.flags, parts |-> [p \in PartNames |-> ReadItems(c.parts[p])]]
Read == [k \in Kinds |-> [i \in DOMAIN handed[k] |-> ReadChange(handed[k][i])]]

\* The diffs that may be: those that are numbered.
Handable == {d \in [Plan!Kinds -> Seq(Plan!Change)] : Numbered(d)}

\* The diff as the planner holds it: a list for every kind.
HandedTyped == DOMAIN handed = Kinds /\ \A k \in Kinds : IsList(handed[k])

LEMMA ReadLists ==
    ASSUME HandedTyped, NEW k \in Kinds
    PROVE  /\ Read[k] = [i \in DOMAIN handed[k] |-> ReadChange(handed[k][i])]
           /\ DOMAIN Read[k] = DOMAIN handed[k] /\ Len(Read[k]) = Len(handed[k])
           /\ DOMAIN handed[k] = 1..Len(handed[k]) /\ Len(handed[k]) \in Nat
           /\ \A i \in DOMAIN handed[k] :
                /\ Read[k][i] = ReadChange(handed[k][i])
                /\ Read[k][i].action = handed[k][i].action /\ Read[k][i].flags = handed[k][i].flags
    <1> DEFINE reads == [i \in DOMAIN handed[k] |-> ReadChange(handed[k][i])]
    <1>1. Read[k] = reads
        BY DEF Read
    <1>2. /\ IsList(handed[k]) /\ Len(handed[k]) \in Nat /\ DOMAIN handed[k] = 1..Len(handed[k])
        BY ListFacts DEF HandedTyped
    <1>3. Len(reads) = Len(handed[k])
        <2>1. \A t : DOMAIN t = DOMAIN handed[k] => Len([i \in DOMAIN handed[k] |-> t[i]]) = Len(handed[k])
            BY <1>2, MappedList
        <2>2. DOMAIN reads = DOMAIN handed[k] /\ reads = [i \in DOMAIN handed[k] |-> reads[i]]
            OBVIOUS
        <2> HIDE DEF reads
        <2> QED
            BY <2>1, <2>2
    <1>4. DOMAIN reads = DOMAIN handed[k] /\ \A i \in DOMAIN handed[k] : reads[i] = ReadChange(handed[k][i])
        OBVIOUS
    <1>5. \A c : ReadChange(c).action = c.action /\ ReadChange(c).flags = c.flags
        BY DEF ReadChange
    <1> HIDE DEF reads
    <1>6. Read[k] = [i \in DOMAIN handed[k] |-> ReadChange(handed[k][i])]
        BY <1>1 DEF reads
    <1> QED
        BY <1>1, <1>2, <1>3, <1>4, <1>5, <1>6

\* The kinds and parts the planner goes through are those of a diff.
LEMMA PlannerKinds ==
    /\ Plan!Kinds = Kinds
    /\ \A s \in 1..10 : Plan!Converters[s] \in Kinds
    /\ Plan!ToSet(Plan!Parts) = {"col", "idx", "fk", "chk"}
    /\ Plan!ToSet(Plan!Parts) \cup Plan!UnplannedParts = PartNames
    <1>1. \A s : Plan!ToSet(s) = ToSet(s)
        BY DEF Plan!ToSet, ToSet
    <1>2. ToSet(Plan!Parts) = {"col", "idx", "fk", "chk"}
        <2>1. DOMAIN Plan!Parts = 1..4
            BY DEF Plan!Parts
        <2>2. \A p : p \in 1..4 <=> p = 1 \/ p = 2 \/ p = 3 \/ p = 4
            OBVIOUS
        <2> QED
            BY <2>1, <2>2 DEF ToSet, Plan!Parts
    <1>3. ToSet(Plan!Converters) = Kinds /\ \A s \in 1..10 : Plan!Converters[s] \in Kinds
        <2>1. DOMAIN Plan!Converters = 1..10
            BY DEF Plan!Converters
        <2>2. \A s : s \in 1..10 <=> s = 1 \/ s = 2 \/ s = 3 \/ s = 4 \/ s = 5 \/ s = 6 \/ s = 7
                                        \/ s = 8 \/ s = 9 \/ s = 10
            OBVIOUS
        <2>3. ToSet(Plan!Converters) = {"schema", "extension", "enum", "sequence", "table", "view",
                                        "mview", "function", "procedure", "event"}
            BY <2>1, <2>2 DEF ToSet, Plan!Converters
        <2>4. \A s \in 1..10 : Plan!Converters[s] \in ToSet(Plan!Converters)
            BY <2>1 DEF ToSet
        <2> QED
            BY <2>3, <2>4, KindFacts DEF Kinds
    <1>4. Plan!Kinds = Kinds
        BY <1>1, <1>3 DEF Plan!Kinds
    <1>5. ToSet(Plan!Parts) \cup Plan!UnplannedParts = PartNames
        BY <1>2 DEF Plan!UnplannedParts, PartNames
    <1> QED
        BY <1>1, <1>2, <1>3, <1>4, <1>5

\* A list of what a set of entries holds, in some order.
ItemsAre(items, entries) ==
    /\ IsList(items)
    /\ \A x \in ToSet(items) :
            x.action \in {"CREATE", "DROP", "ALTER"} /\ x.flags \subseteq {"required", "tightened"}
    /\ WasIn(ToSet(items)) = WasIn(entries) /\ IsIn(ToSet(items)) = IsIn(entries)

LEMMA ItemLists ==
    ASSUME NEW entries, IsFiniteSet(entries), \A e \in entries : Shaped(e),
           NEW items \in Lists(entries) \cup ColumnLists(entries)
    PROVE  ItemsAre(items, entries)
    <1>1. \E s \in SetToSeqs(entries) : \E flags :
            /\ DOMAIN flags = DOMAIN s
            /\ \A i \in DOMAIN s : flags[i] \subseteq {"required", "tightened"}
            /\ items = [i \in DOMAIN s |-> Item(s[i], flags[i])]
        <2>1. CASE items \in Lists(entries)
            <3>1. PICK s \in SetToSeqs(entries) : items = [i \in DOMAIN s |-> Item(s[i], {})]
                BY <2>1 DEF Lists
            <3> DEFINE flags == [i \in DOMAIN s |-> {}]
            <3>2. /\ DOMAIN flags = DOMAIN s
                  /\ \A i \in DOMAIN s : flags[i] \subseteq {"required", "tightened"} /\ flags[i] = {}
                OBVIOUS
            <3> HIDE DEF flags
            <3>3. items = [i \in DOMAIN s |-> Item(s[i], flags[i])]
                BY <3>1, <3>2
            <3> QED
                BY <3>2, <3>3
        <2>2. CASE items \in ColumnLists(entries)
            <3>1. PICK s \in SetToSeqs(entries) : items = [i \in DOMAIN s |-> Item(s[i], ColumnFlags(s[i]))]
                BY <2>2 DEF ColumnLists
            <3> DEFINE flags == [i \in DOMAIN s |-> ColumnFlags(s[i])]
            <3>4. \A e : ColumnFlags(e) \subseteq {"required", "tightened"}
                BY DEF ColumnFlags
            <3>2. /\ DOMAIN flags = DOMAIN s
                  /\ \A i \in DOMAIN s : /\ flags[i] \subseteq {"required", "tightened"}
                                         /\ flags[i] = ColumnFlags(s[i])
                BY <3>4
            <3> HIDE DEF flags
            <3>3. items = [i \in DOMAIN s |-> Item(s[i], flags[i])]
                BY <3>1, <3>2
            <3> QED
                BY <3>2, <3>3
        <2> QED
            BY <2>1, <2>2
    <1>b. PICK s \in SetToSeqs(entries) : \E flags :
            /\ DOMAIN flags = DOMAIN s
            /\ \A i \in DOMAIN s : flags[i] \subseteq {"required", "tightened"}
            /\ items = [i \in DOMAIN s |-> Item(s[i], flags[i])]
        BY <1>1
    <1>2. PICK flags :
            /\ DOMAIN flags = DOMAIN s
            /\ \A i \in DOMAIN s : flags[i] \subseteq {"required", "tightened"}
            /\ items = [i \in DOMAIN s |-> Item(s[i], flags[i])]
        BY <1>b
    <1>3. IsList(s) /\ ToSet(s) = entries
        BY Enumerations
    <1>4. IsList(items) /\ DOMAIN items = DOMAIN s
        <2> DEFINE t == [i \in DOMAIN s |-> Item(s[i], flags[i])]
        <2>1. DOMAIN t = DOMAIN s /\ t = [i \in DOMAIN s |-> t[i]]
            OBVIOUS
        <2>2. items = t
            BY <1>2
        <2> HIDE DEF t
        <2> QED
            BY <1>3, <2>1, <2>2, MappedList
    <1>5. \A i \in DOMAIN s : /\ items[i].action = s[i].action /\ items[i].flags = flags[i]
                              /\ items[i].was = s[i].was /\ items[i].is = s[i].is
        BY <1>2 DEF Item
    <1>6. \A i \in DOMAIN s : s[i] \in entries
        BY <1>3 DEF ToSet
    <1>7. ASSUME NEW x \in ToSet(items)
          PROVE  /\ x.action \in {"CREATE", "DROP", "ALTER"} /\ x.flags \subseteq {"required", "tightened"}
                 /\ \E e \in entries : x.was = e.was /\ x.is = e.is
        <2>1. PICK i \in DOMAIN s : x = items[i]
            BY <1>4 DEF ToSet
        <2> QED
            BY <1>2, <1>5, <1>6, <2>1 DEF Shaped
    <1>8. ASSUME NEW e \in entries
          PROVE  \E x \in ToSet(items) : x.was = e.was /\ x.is = e.is
        <2>1. PICK i \in DOMAIN s : e = s[i]
            BY <1>3 DEF ToSet
        <2>2. items[i] \in ToSet(items)
            BY <1>4 DEF ToSet
        <2> QED
            BY <1>5, <2>1, <2>2
    <1>9. WasIn(ToSet(items)) = WasIn(entries)
        BY <1>7, <1>8 DEF WasIn
    <1>10. IsIn(ToSet(items)) = IsIn(entries)
        BY <1>7, <1>8 DEF IsIn
    <1> QED
        BY <1>4, <1>7, <1>9, <1>10 DEF ItemsAre

\* The entries a list of an altered table is made of.
PartEntries(o, n) ==
    [col |-> PartDiffs(o, n, "columns"), idx |-> OfRole(PartDiffs(o, n, "indexes"), ""),
     fk |-> PartDiffs(o, n, "fks"), chk |-> PartDiffs(o, n, "checks"),
     pk |-> OfRole(PartDiffs(o, n, "indexes"), "primary"),
     unique |-> OfRole(PartDiffs(o, n, "indexes"), "unique"),
     trigger |-> PartDiffs(o, n, "triggers"), partition |-> PartDiffs(o, n, "partitions"),
     rule |-> PartDiffs(o, n, "rules")]

LEMMA PartEntriesFacts ==
    ASSUME NEW o, NEW n, IsTable(o), IsTable(n), NEW part \in TableParts
    PROVE  IsFiniteSet(PartDiffs(o, n, part)) /\ \A e \in PartDiffs(o, n, part) : Shaped(e)
    <1> DEFINE olds == o.parts[part]
               news == n.parts[part]
               pairs == ChangedParts(o, n, part)
    <1>1. IsList(olds) /\ IsList(news)
        BY DEF IsTable
    <1>2. pairs \in SUBSET Shared(part, olds, news)
        BY DEF ChangedParts
    <1>3. PartDiffs(o, n, part) = EntriesOf(part, olds, news, pairs)
        BY DEF PartDiffs, EntriesOf, ChangedParts
    <1> HIDE DEF olds, news, pairs
    <1>4. IsFiniteSet(EntriesOf(part, olds, news, pairs))
        BY <1>1, <1>2, FiniteEntries, FS_Union DEF EntriesOf
    <1>5. \A e \in EntriesOf(part, olds, news, pairs) : Shaped(e)
        BY <1>1, <1>2, ShapedEntries
    <1> QED
        BY <1>3, <1>4, <1>5

LEMMA TableListsFacts ==
    ASSUME NEW o, NEW n, IsTable(o), IsTable(n), NEW lists \in TableLists(o, n)
    PROVE  \A p \in PartNames : ItemsAre(lists[p], PartEntries(o, n)[p])
    <1>1. \A part \in TableParts :
            \A items \in Lists(PartDiffs(o, n, part)) \cup ColumnLists(PartDiffs(o, n, part)) :
                ItemsAre(items, PartDiffs(o, n, part))
        <2> TAKE part \in TableParts
        <2>1. /\ IsFiniteSet(PartDiffs(o, n, part))
              /\ \A e \in PartDiffs(o, n, part) : Shaped(e)
            BY PartEntriesFacts
        <2> QED
            BY <2>1, ItemLists
    <1>2. \A role : \A items \in Lists(OfRole(PartDiffs(o, n, "indexes"), role)) :
                ItemsAre(items, OfRole(PartDiffs(o, n, "indexes"), role))
        <2> TAKE role
        <2>1. OfRole(PartDiffs(o, n, "indexes"), role) \subseteq PartDiffs(o, n, "indexes")
            BY DEF OfRole
        <2>2. /\ IsFiniteSet(OfRole(PartDiffs(o, n, "indexes"), role))
              /\ \A e \in OfRole(PartDiffs(o, n, "indexes"), role) : Shaped(e)
            BY <2>1, PartEntriesFacts, FS_Subset DEF TableParts
        <2> QED
            BY <2>2, ItemLists
    <1> DEFINE d == TableDiff(o, n)
    <1>3. /\ d.columns = PartDiffs(o, n, "columns") /\ d.fks = PartDiffs(o, n, "fks")
          /\ d.checks = PartDiffs(o, n, "checks") /\ d.triggers = PartDiffs(o, n, "triggers")
          /\ d.partitions = PartDiffs(o, n, "partitions") /\ d.rules = PartDiffs(o, n, "rules")
          /\ d.indexes = OfRole(PartDiffs(o, n, "indexes"), "")
          /\ d.pk = OfRole(PartDiffs(o, n, "indexes"), "primary")
          /\ d.unique = OfRole(PartDiffs(o, n, "indexes"), "unique")
        BY DEF TableDiff, ColumnDiffs, IndexDiffs, ForeignKeyDiffs, CheckDiffs, TriggerDiffs,
               PartitionDiffs, RuleDiffs
    <1>4. PICK c \in ColumnLists(d.columns), i \in Lists(d.indexes), f \in Lists(d.fks),
               k \in Lists(d.checks), p \in Lists(d.pk), u \in Lists(d.unique),
               t \in Lists(d.triggers), q \in Lists(d.partitions), r \in Lists(d.rules) :
            lists = [col |-> c, idx |-> i, fk |-> f, chk |-> k, pk |-> p, unique |-> u,
                     trigger |-> t, partition |-> q, rule |-> r]
        BY DEF TableLists
    <1>5. /\ lists["col"] = c /\ lists["idx"] = i /\ lists["fk"] = f /\ lists["chk"] = k
          /\ lists["pk"] = p /\ lists["unique"] = u /\ lists["trigger"] = t
          /\ lists["partition"] = q /\ lists["rule"] = r
        BY <1>4
    <1> HIDE DEF d
    <1>6. /\ ItemsAre(c, PartDiffs(o, n, "columns")) /\ ItemsAre(f, PartDiffs(o, n, "fks"))
          /\ ItemsAre(k, PartDiffs(o, n, "checks")) /\ ItemsAre(t, PartDiffs(o, n, "triggers"))
          /\ ItemsAre(q, PartDiffs(o, n, "partitions")) /\ ItemsAre(r, PartDiffs(o, n, "rules"))
        BY <1>1, <1>3 DEF TableParts
    <1>7. /\ ItemsAre(i, OfRole(PartDiffs(o, n, "indexes"), ""))
          /\ ItemsAre(p, OfRole(PartDiffs(o, n, "indexes"), "primary"))
          /\ ItemsAre(u, OfRole(PartDiffs(o, n, "indexes"), "unique"))
        BY <1>2, <1>3
    <1>8. /\ PartEntries(o, n)["col"] = PartDiffs(o, n, "columns")
          /\ PartEntries(o, n)["fk"] = PartDiffs(o, n, "fks")
          /\ PartEntries(o, n)["chk"] = PartDiffs(o, n, "checks")
          /\ PartEntries(o, n)["trigger"] = PartDiffs(o, n, "triggers")
          /\ PartEntries(o, n)["partition"] = PartDiffs(o, n, "partitions")
          /\ PartEntries(o, n)["rule"] = PartDiffs(o, n, "rules")
          /\ PartEntries(o, n)["idx"] = OfRole(PartDiffs(o, n, "indexes"), "")
          /\ PartEntries(o, n)["pk"] = OfRole(PartDiffs(o, n, "indexes"), "primary")
          /\ PartEntries(o, n)["unique"] = OfRole(PartDiffs(o, n, "indexes"), "unique")
        BY DEF PartEntries
    <1> DEFINE Good(name) == ItemsAre(lists[name], PartEntries(o, n)[name])
    <1>9. /\ Good("col") /\ Good("idx") /\ Good("fk") /\ Good("chk") /\ Good("pk")
          /\ Good("unique") /\ Good("trigger") /\ Good("partition") /\ Good("rule")
        BY <1>5, <1>6, <1>7, <1>8
    <1> HIDE DEF Good
    <1>10. \A name \in PartNames : Good(name)
        BY <1>9 DEF PartNames
    <1> QED
        BY <1>10 DEF Good

\* A list of forms holds a form of each entry.
LEMMA FormsOfEntries ==
    ASSUME NEW kind, NEW list, IsList(list), NEW forms \in ChangeLists(kind, list)
    PROVE  /\ IsList(forms) /\ Len(forms) = Len(list) /\ DOMAIN forms = DOMAIN list
           /\ \A i \in DOMAIN list : forms[i] \in Changes(kind, list[i])
    <1> DEFINE n == Len(list)
               C == UNION {Changes(kind, list[i]) : i \in 1..n}
               V == SUBSET Seq(C)
               Extend(i, v) == {Append(s, c) : s \in v, c \in Changes(kind, list[i])}
               next == [i \in 1..n |-> [v \in V |-> Extend(i, v)]]
               Value(f, i) == IF i = 0 THEN {<<>>}
                              ELSE {Append(s, c) : s \in f[i - 1], c \in Changes(kind, list[i])}
               Kept(f) == f = [i \in 0..n |-> Value(f, i)]
               kept == CHOOSE f : Kept(f)
               Good(i, v) == \A s \in v : /\ s \in Seq(C) /\ Len(s) = i
                                          /\ \A j \in 1..i : s[j] \in Changes(kind, list[j])
               good == {i \in 0..n : Good(i, kept[i])}
    <1>1. n \in Nat /\ DOMAIN list = 1..n
        BY ListFacts
    <1>2. ChangeLists(kind, list) = kept[n]
        BY DEF ChangeLists
    <1>3. \A i \in 1..n : Changes(kind, list[i]) \subseteq C
        OBVIOUS
    <1> HIDE DEF n, C, kept
    <1>4. ASSUME NEW i \in 1..n, NEW v \in V
          PROVE  Extend(i, v) \in V
        <2>1. ASSUME NEW s \in v, NEW c \in Changes(kind, list[i])
              PROVE  Append(s, c) \in Seq(C)
            <3>1. s \in Seq(C) /\ c \in C
                BY <1>3
            <3> QED
                BY <3>1, AppendProperties
        <2> QED
            BY <2>1
    <1> HIDE DEF V
    <1>5. AreSteps(next, n, V)
        <2> HIDE DEF Extend
        <2> QED
            BY <1>4 DEF AreSteps
    <1>e. {<<>>} \in V
        BY DEF V
    <1>6. PICK f : Unfolds(f, {<<>>}, next, n, V)
        <2> HIDE DEF next
        <2> QED
            BY <1>1, <1>5, <1>e, RecursionExists
    <1>7. ASSUME NEW i \in 1..n
          PROVE  f[i] = Extend(i, f[i - 1])
        <2>1. f[i - 1] \in V
            BY <1>1, <1>6 DEF Unfolds
        <2> HIDE DEF Extend
        <2> QED
            BY <1>6, <2>1 DEF Unfolds
    <1>8. Kept(f)
        <2>1. ASSUME NEW i \in 0..n
              PROVE  f[i] = Value(f, i)
            <3>1. CASE i = 0
                BY <1>6, <3>1 DEF Unfolds
            <3>2. CASE i # 0
                <4>1. i \in 1..n
                    BY <1>1, <3>2
                <4>2. f[i] = Extend(i, f[i - 1])
                    BY <1>7, <4>1
                <4> QED
                    BY <3>2, <4>2
            <3> QED
                BY <3>1, <3>2
        <2> HIDE DEF Value
        <2> QED
            BY <1>6, <2>1 DEF Unfolds
    <1>9. Kept(kept)
        <2> HIDE DEF Kept
        <2> QED
            BY <1>8 DEF kept
    <1>10. ASSUME NEW i \in 0..n
           PROVE  kept[i] = Value(kept, i)
        <2> HIDE DEF Value
        <2> QED
            BY <1>9
    <1>11. 0 \in good
        <2>0. 0 \in 0..n
            BY <1>1
        <2>a. kept[0] = Value(kept, 0)
            <3> HIDE DEF Value
            <3> QED
                BY <1>10, <2>0
        <2>1. kept[0] = {<<>>} /\ 0 \in 0..n
            BY <2>0, <2>a
        <2>2. <<>> \in Seq(C) /\ Len(<<>>) = 0
            OBVIOUS
        <2>3. Good(0, kept[0])
            BY <2>1, <2>2
        <2> HIDE DEF Good
        <2> QED
            BY <2>1, <2>3
    <1>12. ASSUME NEW i \in 1..n, i - 1 \in good
           PROVE  i \in good
        <2>1. Good(i - 1, kept[i - 1])
            BY <1>12
        <2>2. i \in 0..n /\ i # 0
            BY <1>1
        <2>3. kept[i] = {Append(s, c) : s \in kept[i - 1], c \in Changes(kind, list[i])}
            <3>1. kept[i] = Value(kept, i)
                <4> HIDE DEF Value
                <4> QED
                    BY <1>10, <2>2
            <3> QED
                BY <2>2, <3>1
        <2>4. ASSUME NEW s \in kept[i - 1], NEW c \in Changes(kind, list[i])
              PROVE  /\ Append(s, c) \in Seq(C) /\ Len(Append(s, c)) = i
                     /\ \A j \in 1..i : Append(s, c)[j] \in Changes(kind, list[j])
            <3>1. s \in Seq(C) /\ Len(s) = i - 1 /\ \A j \in 1..(i - 1) : s[j] \in Changes(kind, list[j])
                BY <2>1
            <3>2. c \in C
                BY <1>3
            <3>3. /\ Append(s, c) \in Seq(C) /\ Len(Append(s, c)) = Len(s) + 1
                  /\ \A j \in 1..Len(s) : Append(s, c)[j] = s[j]
                  /\ Append(s, c)[Len(s) + 1] = c
                BY <3>1, <3>2, AppendProperties
            <3>4. ASSUME NEW j \in 1..i
                  PROVE  Append(s, c)[j] \in Changes(kind, list[j])
                <4>1. j \in 1..(i - 1) \/ j = Len(s) + 1
                    BY <1>1, <3>1
                <4> QED
                    BY <1>1, <3>1, <3>3, <4>1
            <3> QED
                BY <1>1, <3>1, <3>3, <3>4
        <2>5. Good(i, kept[i])
            BY <2>3, <2>4
        <2> HIDE DEF Good
        <2> QED
            BY <2>2, <2>5
    <1>13. n \in good
        <2> HIDE DEF good
        <2>1. 0..n \subseteq good
            BY <1>1, <1>11, <1>12, EveryPosition
        <2> QED
            BY <1>1, <2>1
    <1>14. /\ forms \in Seq(C) /\ Len(forms) = n
           /\ \A j \in 1..n : forms[j] \in Changes(kind, list[j])
        BY <1>2, <1>13
    <1>15. IsList(forms)
        BY <1>14 DEF IsList, ToSet
    <1> QED
        BY <1>1, <1>14, <1>15 DEF n

-----------------------------------------------------------------------------
\* An entry as the comparison makes it, of tables where it is one of tables.
EntryOf(kind, e) ==
    /\ e.action \in {"CREATE", "DROP", "ALTER"}
    /\ e.action = "ALTER" => e.was # {} /\ e.is # {}
    /\ kind = "table" => \A t \in e.was \cup e.is : IsTable(t)
\* A form of an altered table has the lists of a table's difference.
FormOf(kind, e, c) ==
    /\ c.action = e.action
    /\ kind = "table" /\ e.action = "ALTER" =>
            \E o \in e.was, n \in e.is : c.parts \in TableLists(o, n)

LEMMA ReadItemsAre ==
    ASSUME NEW items, NEW entries, ItemsAre(items, entries)
    PROVE  ReadItems(items) \in Seq(Plan!Item)
    <1>1. Len(items) \in Nat /\ DOMAIN items = 1..Len(items) /\ \A i \in DOMAIN items : items[i] \in ToSet(items)
        BY ListFacts DEF ItemsAre
    <1>2. ASSUME NEW i \in DOMAIN items
          PROVE  ReadItem(items[i]) \in Plan!Item
        <2>1. items[i].action \in {"CREATE", "DROP", "ALTER"} /\ items[i].flags \subseteq {"required", "tightened"}
            BY <1>1 DEF ItemsAre
        <2> QED
            BY <2>1 DEF ReadItem, Plan!Item, Plan!Actions, Plan!Flags
    <1>3. ReadItems(items) \in [1..Len(items) -> Plan!Item]
        BY <1>1, <1>2 DEF ReadItems
    <1> QED
        BY <1>1, <1>3

LEMMA FormFacts ==
    ASSUME NEW kind, NEW e, EntryOf(kind, e), NEW c \in Changes(kind, e)
    PROVE  FormOf(kind, e, c) /\ ReadChange(c) \in Plan!Change
    <1>1. ASSUME c.action \in {"CREATE", "DROP", "ALTER"}, c.flags \subseteq {"added", "removed", "reordered"},
                 \A p \in PartNames : ReadItems(c.parts[p]) \in Seq(Plan!Item)
          PROVE  ReadChange(c) \in Plan!Change
        <2>1. [p \in PartNames |-> ReadItems(c.parts[p])] \in [PartNames -> Seq(Plan!Item)]
            BY <1>1
        <2>2. Plan!Change = [action : Plan!Actions, flags : SUBSET Plan!Flags,
                             parts : [PartNames -> Seq(Plan!Item)]]
            BY PlannerKinds DEF Plan!Change
        <2>3. c.action \in Plan!Actions /\ c.flags \in SUBSET Plan!Flags
            BY <1>1 DEF Plan!Actions, Plan!Flags
        <2> DEFINE parts == [p \in PartNames |-> ReadItems(c.parts[p])]
        <2>4. ReadChange(c) = [action |-> c.action, flags |-> c.flags, parts |-> parts]
            BY DEF ReadChange
        <2> HIDE DEF parts
        <2>5. parts \in [PartNames -> Seq(Plan!Item)]
            BY <2>1 DEF parts
        <2> QED
            BY <2>2, <2>3, <2>4, <2>5
    <1>2. \A p \in PartNames : ReadItems(NoItems[p]) \in Seq(Plan!Item)
        <2>1. \A p \in PartNames : NoItems[p] = <<>>
            BY DEF PartNames, NoItems
        <2>2. ReadItems(<<>>) = <<>>
            BY DEF ReadItems
        <2>3. <<>> \in Seq(Plan!Item)
            OBVIOUS
        <2> QED
            BY <2>1, <2>2, <2>3
    <1>3. CASE e.action # "ALTER"
        <2>1. c = Bare(e)
            BY <1>3 DEF Changes
        <2>2. c.action = e.action /\ c.flags = {} /\ c.parts = NoItems
            BY <2>1 DEF Bare
        <2> QED
            BY <1>1, <1>2, <1>3, <2>2 DEF EntryOf, FormOf
    <1>4. CASE e.action = "ALTER"
        <2> DEFINE FlagsOf(o, n) == IF kind = "enum" THEN EnumFlags(o, n) ELSE {}
                   PartsOf(o, n) == IF kind = "table" THEN TableLists(o, n) ELSE {NoItems}
        <2>1. PICK o \in e.was, n \in e.is : \E l \in PartsOf(o, n) :
                    c = [action |-> "ALTER", flags |-> FlagsOf(o, n), parts |-> l]
            BY <1>4 DEF Changes
        <2>2. PICK l \in PartsOf(o, n) : c = [action |-> "ALTER", flags |-> FlagsOf(o, n), parts |-> l]
            BY <2>1
        <2>3. FlagsOf(o, n) \subseteq {"added", "removed", "reordered"}
            BY DEF EnumFlags
        <2>4. c.action = "ALTER" /\ c.flags = FlagsOf(o, n) /\ c.parts = l
            BY <2>2
        <2>5. CASE kind = "table"
            <3>1. IsTable(o) /\ IsTable(n)
                BY <2>5 DEF EntryOf
            <3>2. l \in TableLists(o, n)
                BY <2>2, <2>5
            <3>3. \A p \in PartNames : ReadItems(l[p]) \in Seq(Plan!Item)
                BY <3>1, <3>2, TableListsFacts, ReadItemsAre
            <3> HIDE DEF FlagsOf, PartsOf
            <3> QED
                BY <1>1, <1>4, <2>3, <2>4, <3>2, <3>3 DEF FormOf
        <2>6. CASE kind # "table"
            <3>1. l = NoItems
                BY <2>2, <2>6
            <3> HIDE DEF FlagsOf, PartsOf
            <3> QED
                BY <1>1, <1>2, <1>4, <2>3, <2>4, <2>6, <3>1 DEF FormOf
        <2> QED
            BY <2>5, <2>6
    <1> QED
        BY <1>3, <1>4

\* The result of a comparison is made of such entries.
LEMMA EntriesOfDiff ==
    ASSUME IInv, phase = "done", NEW k \in Kinds, NEW i \in DOMAIN mdiff[k]
    PROVE  EntryOf(k, mdiff[k][i])
    <1> DEFINE e == mdiff[k][i]
    <1>1. e \in ToSet(mdiff[k])
        BY DEF ToSet
    <1> HIDE DEF e
    <1>2. CASE k = "schema"
        <2>1. e \in SchemaReports
            BY <1>1, <1>2 DEF IInv, SchemaInv
        <2>2. InputInv
            BY DEF IInv
        <2>3. e.action \in {"CREATE", "DROP"}
            BY <2>1, <2>2, SchemaReportFacts
        <2> QED
            BY <1>2, <2>3 DEF EntryOf, e
    <1>3. CASE k # "schema"
        <2>1. k \in ToSet(ObjectKinds)
            BY <1>3, KindFacts
        <2>2. e \in Reported(k) /\ InputInv
            BY <1>1, <2>1, DoneFacts
        <2>3. Shaped(e)
            BY <2>1, <2>2, ReportedFacts
        <2>4. ASSUME k = "table" PROVE \A t \in e.was \cup e.is : IsTable(t)
            <3>1. CASE \E p \in Compared(k) : e \in CallEntries(k, p[1], p[2])
                <4>1. PICK p \in Compared(k) : e \in CallEntries(k, p[1], p[2])
                    BY <3>1
                <4>2. p[1] \in ToSet(old) /\ p[2] \in ToSet(new)
                    BY DoneFacts
                <4> DEFINE olds == p[1].lists[k]
                           news == p[2].lists[k]
                <4>3. /\ IsList(olds) /\ IsList(news)
                      /\ \A t \in ToSet(olds) \cup ToSet(news) : IsTable(t)
                    BY <2>1, <2>2, <2>4, <4>2, DatabaseFacts DEF InputInv, IsSchema
                <4>4. PICK d \in EntriesOf(k, olds, news, AlteredIn(k, olds, news)) :
                            e = Placed(SchemaNamed(k, p[1]), d)
                    BY <4>1 DEF CallEntries
                <4> HIDE DEF olds, news
                <4>5. AlteredIn(k, olds, news) \in SUBSET Shared(k, olds, news)
                    BY DEF AlteredIn
                <4>6. d.was \subseteq ToSet(olds) /\ d.is \subseteq ToSet(news)
                    BY <4>3, <4>5, ShapedEntries
                <4>7. e.was = d.was /\ e.is = d.is
                    BY <4>4, PlacedFacts
                <4> QED
                    BY <4>3, <4>6, <4>7
            <3>2. CASE \E n \in Added : e \in TableEntries(n)
                <4>1. PICK n \in Added : e \in TableEntries(n)
                    BY <3>2
                <4>2. PICK t \in ToSet(n.lists["table"]) : e = Creating(n.name, t)
                    BY <4>1 DEF TableEntries, Creating
                <4>3. e.was = {} /\ e.is = {t}
                    BY <4>2, CreatingFacts
                <4>4. n \in ToSet(new)
                    BY DoneFacts DEF ToSet
                <4>5. IsTable(t)
                    BY <2>1, <2>2, <2>4, <4>4, DatabaseFacts DEF InputInv, IsSchema
                <4> QED
                    BY <4>3, <4>5
            <3> QED
                BY <2>2, <3>1, <3>2 DEF Reported
        <2> QED
            BY <2>3, <2>4 DEF EntryOf, Shaped, e
    <1> QED
        BY <1>2, <1>3

\* The planner is handed a form of every entry of the result.
HandedAs(h) ==
    /\ DOMAIN h = Kinds /\ Numbered(h)
    /\ \A k \in Kinds :
        /\ IsList(h[k]) /\ DOMAIN h[k] = DOMAIN mdiff[k]
        /\ \A i \in DOMAIN mdiff[k] : h[k][i] \in Changes(k, mdiff[k][i])
Handed == HandedAs(handed)

LEMMA SameHanded ==
    ASSUME UNCHANGED vars, NEW h
    PROVE  HandedAs(h)' <=> HandedAs(h')
    <1>1. mdiff' = mdiff /\ ignored' = ignored
        BY DEF vars
    <1>2. \A o, n : TableDiff(o, n)' = TableDiff(o, n)
        BY <1>1 DEF TableDiff
    <1>3. \A o, n : TableLists(o, n)' = TableLists(o, n)
        BY <1>2 DEF TableLists
    <1>4. \A k, e : Changes(k, e)' = Changes(k, e)
        <2> TAKE k, e
        <2>1. \A c : c \in Changes(k, e)' <=> c \in Changes(k, e)
            BY <1>3, SMTT(20) DEF Changes
        <2> QED
            BY <2>1
    <1> QED
        BY <1>1, <1>4 DEF HandedAs

LEMMA BareForm ==
    ASSUME NEW k, k # "table", k # "enum", NEW e, e.action = "ALTER" => e.was # {} /\ e.is # {}
    PROVE  Bare(e) \in Changes(k, e)
    <1>1. CASE e.action # "ALTER"
        BY <1>1 DEF Changes
    <1>2. CASE e.action = "ALTER"
        <2> DEFINE form == [action |-> "ALTER", flags |-> {}, parts |-> NoItems]
                   FormsOf(o, n) ==
                        {[action |-> "ALTER", flags |-> IF k = "enum" THEN EnumFlags(o, n) ELSE {},
                          parts |-> l] : l \in IF k = "table" THEN TableLists(o, n) ELSE {NoItems}}
        <2>1. Changes(k, e) = UNION {FormsOf(o, n) : o \in e.was, n \in e.is}
            BY <1>2 DEF Changes
        <2>2. \A o, n : FormsOf(o, n) = {form}
            OBVIOUS
        <2>3. Bare(e) = form
            BY <1>2 DEF Bare
        <2>4. PICK o \in e.was, n \in e.is : TRUE
            BY <1>2
        <2> HIDE DEF FormsOf, form
        <2> QED
            BY <2>1, <2>2, <2>3, <2>4
    <1> QED
        BY <1>1, <1>2

LEMMA ResultIsHanded ==
    ASSUME IInv, AnalyzeStrategy
    PROVE  HandedAs(handed')
    <1>1. phase = "done" /\ DOMAIN mdiff = Kinds /\ \A k \in Kinds : IsList(mdiff[k])
        BY StateFacts DEF AnalyzeStrategy
    <1>2. PICK tables \in ChangeLists("table", mdiff["table"]), enums \in ChangeLists("enum", mdiff["enum"]) :
            handed' = [k \in Kinds |->
                        CASE k = "table" -> tables [] k = "enum" -> enums
                          [] OTHER -> [i \in DOMAIN mdiff[k] |-> Bare(mdiff[k][i])]]
        BY DEF AnalyzeStrategy
    <1>3. "table" \in Kinds /\ "enum" \in Kinds
        BY KindFacts
    <1>4. DOMAIN handed' = Kinds /\ handed'["table"] = tables /\ handed'["enum"] = enums
        BY <1>2, <1>3
    <1>5. \A k \in Kinds : k # "table" /\ k # "enum" =>
                handed'[k] = [i \in DOMAIN mdiff[k] |-> Bare(mdiff[k][i])]
        BY <1>2
    <1>6. ASSUME NEW k \in Kinds
          PROVE  /\ IsList(handed'[k]) /\ DOMAIN handed'[k] = DOMAIN mdiff[k]
                 /\ \A i \in DOMAIN mdiff[k] : handed'[k][i] \in Changes(k, mdiff[k][i])
        <2>1. CASE k = "table" \/ k = "enum"
            BY <1>1, <1>4, <2>1, FormsOfEntries
        <2>2. CASE k # "table" /\ k # "enum"
            <3> DEFINE bare == [i \in DOMAIN mdiff[k] |-> Bare(mdiff[k][i])]
            <3>1. handed'[k] = bare
                BY <1>5, <2>2
            <3>2. IsList(bare)
                <4>1. DOMAIN bare = DOMAIN mdiff[k] /\ bare = [i \in DOMAIN mdiff[k] |-> bare[i]]
                    OBVIOUS
                <4> HIDE DEF bare
                <4> QED
                    BY <1>1, <4>1, MappedList
            <3>3. ASSUME NEW i \in DOMAIN mdiff[k]
                  PROVE  Bare(mdiff[k][i]) \in Changes(k, mdiff[k][i])
                <4>1. mdiff[k][i].action = "ALTER" => mdiff[k][i].was # {} /\ mdiff[k][i].is # {}
                    BY <1>1, EntriesOfDiff DEF EntryOf
                <4> DEFINE e == mdiff[k][i]
                <4>2. e.action = "ALTER" => e.was # {} /\ e.is # {}
                    BY <4>1
                <4> HIDE DEF e
                <4>3. Bare(e) \in Changes(k, e)
                    BY <2>2, <4>2, BareForm
                <4> QED
                    BY <4>3 DEF e
            <3> QED
                BY <3>1, <3>2, <3>3
        <2> QED
            BY <2>1, <2>2
    <1> QED
        BY <1>4, <1>6 DEF HandedAs, AnalyzeStrategy

LEMMA HandedForms ==
    ASSUME IInv, phase = "done", Handed
    PROVE  /\ HandedTyped /\ Read \in Handable
           /\ \A k \in Kinds : \A i \in DOMAIN mdiff[k] : FormOf(k, mdiff[k][i], handed[k][i])
    <1>1. HandedTyped
        BY DEF Handed, HandedAs, HandedTyped
    <1>2. ASSUME NEW k \in Kinds, NEW i \in DOMAIN handed[k]
          PROVE  FormOf(k, mdiff[k][i], handed[k][i]) /\ ReadChange(handed[k][i]) \in Plan!Change
        <2>1. i \in DOMAIN mdiff[k] /\ handed[k][i] \in Changes(k, mdiff[k][i])
            BY DEF Handed, HandedAs
        <2>2. EntryOf(k, mdiff[k][i])
            BY <2>1, EntriesOfDiff
        <2> QED
            BY <2>1, <2>2, FormFacts
    <1>3. ASSUME NEW k \in Kinds
          PROVE  Read[k] \in Seq(Plan!Change)
        <2>1. Read[k] = [i \in DOMAIN handed[k] |-> ReadChange(handed[k][i])]
            BY <1>1, ReadLists
        <2>2. DOMAIN handed[k] = 1..Len(handed[k]) /\ Len(handed[k]) \in Nat
            BY <1>1, ReadLists
        <2>3. \A i \in DOMAIN handed[k] : ReadChange(handed[k][i]) \in Plan!Change
            BY <1>2
        <2>4. Read[k] \in [1..Len(handed[k]) -> Plan!Change]
            BY <2>1, <2>2, <2>3
        <2> QED
            BY <2>2, <2>4
    <1>4. Read \in [Plan!Kinds -> Seq(Plan!Change)]
        <2> DEFINE reads == [k \in Kinds |-> Read[k]]
                   changes == Seq(Plan!Change)
        <2>1. Read = reads
            BY DEF Read
        <2>2. \A k \in Kinds : Read[k] \in changes
            BY <1>3
        <2> HIDE DEF changes
        <2>3. reads \in [Kinds -> changes]
            BY <2>2, Zenon
        <2> HIDE DEF reads
        <2>4. Plan!Kinds = Kinds
            BY PlannerKinds
        <2> QED
            BY <2>1, <2>3, <2>4 DEF changes
    <1>5. Numbered(Read)
        <2> SUFFICES ASSUME NEW k \in Kinds, NEW i \in DOMAIN Read[k]
                     PROVE  /\ <<k, i>> \in Ids
                            /\ \A p \in {"col", "idx", "fk", "chk"} : \A j \in DOMAIN Read[k][i].parts[p] :
                                    k = "table" => <<k, i, p, j>> \in Ids
            BY DEF Numbered
        <2>1. i \in DOMAIN handed[k] /\ Read[k][i] = ReadChange(handed[k][i])
            BY <1>1, ReadLists
        <2>2. \A p \in PartNames : DOMAIN Read[k][i].parts[p] = DOMAIN handed[k][i].parts[p]
            BY <2>1 DEF ReadChange, ReadItems
        <2>3. Numbered(handed)
            BY DEF Handed, HandedAs
        <2> QED
            BY <2>1, <2>2, <2>3 DEF Numbered, PartNames
    <1>6. \A k \in Kinds : \A i \in DOMAIN mdiff[k] : FormOf(k, mdiff[k][i], handed[k][i])
        <2>1. \A k \in Kinds : DOMAIN handed[k] = DOMAIN mdiff[k]
            BY DEF Handed, HandedAs
        <2> QED
            BY <1>2, <2>1
    <1> QED
        BY <1>1, <1>4, <1>5, <1>6 DEF Handable

\* The planner has been handed a form of the result.
HandedOver == phase = "done" /\ Handed

LEMMA ReadIsHandable == IInv /\ HandedOver => Read \in Handable
    BY HandedForms DEF HandedOver

LEMMA NothingAfterDone == phase = "done" => ~Next
    BY DEF Next, DropSchema, DroppedDone, CreateSchema, CreatedDone, SkipDroppedSchema,
           CompareTables, CompareViews, CompareMaterializedViews, CompareFunctions, CompareProcedures,
           CompareSequences, CompareEnumTypes, CompareEvents, CompareExtensions, CompareLists,
           SharedDone, SkipSharedSchema, AddNewSchema, NewDone, SortDiffs

-----------------------------------------------------------------------------
(***************************************************************************)
(* Objects that are reported as dropped.                                   *)
(***************************************************************************)
NamelessKinds == {"sequence", "function", "procedure", "event"}

\* Every key of a list is one of the map's.
LEMMA IndexedCovers ==
    ASSUME NEW kind, NEW list, IsList(list), NEW o \in ToSet(list)
    PROVE  \E m \in Indexed(kind, list) : Key(kind, m) = Key(kind, o)
    <1> DEFINE alike == {i \in DOMAIN list : Key(kind, list[i]) = Key(kind, o)}
               later == {Len(list) - i : i \in alike}
    <1>1. Len(list) \in Nat /\ DOMAIN list = 1..Len(list)
        BY ListFacts
    <1>2. PICK a \in DOMAIN list : o = list[a]
        BY DEF ToSet
    <1>3. later \subseteq Nat /\ later # {}
        <2>1. a \in alike
            BY <1>2
        <2>2. \A i \in alike : Len(list) - i \in Nat
            BY <1>1
        <2> HIDE DEF alike
        <2> QED
            BY <2>1, <2>2
    <1>4. PICK least \in later : \A d \in later : least <= d
        <2> HIDE DEF later
        <2> QED
            BY <1>3, LeastOf
    <1>5. PICK i \in alike : least = Len(list) - i
        BY <1>4
    <1>6. ASSUME NEW j \in DOMAIN list, Key(kind, list[j]) = Key(kind, list[i])
          PROVE  j <= i
        <2>1. Len(list) - j \in later
            BY <1>5, <1>6
        <2>2. Len(list) - i <= Len(list) - j
            BY <1>4, <1>5, <2>1
        <2> QED
            BY <1>1, <1>5, <2>2
    <1>7. list[i] \in Indexed(kind, list)
        BY <1>5, <1>6 DEF Indexed
    <1> QED
        BY <1>5, <1>7

\* An object is reported as dropped when the other list has not its key.
LEMMA DroppedObjects ==
    ASSUME NEW kind, NEW olds, NEW news, IsList(olds), IsList(news),
           NEW pairs \in SUBSET Shared(kind, olds, news)
    PROVE  (\E e \in EntriesOf(kind, olds, news, pairs) : e.action = "DROP")
            <=> \E o \in ToSet(olds) : \A m \in ToSet(news) : Key(kind, m) # Key(kind, o)
    <1>1. ASSUME NEW e \in EntriesOf(kind, olds, news, pairs), e.action = "DROP"
          PROVE  \E o \in ToSet(olds) : \A m \in ToSet(news) : Key(kind, m) # Key(kind, o)
        <2>1. e \in Drops(kind, olds, news)
            BY <1>1 DEF EntriesOf, Creates, Alters, Entry
        <2>2. PICK o \in Indexed(kind, olds) : \A n \in Indexed(kind, news) : Key(kind, n) # Key(kind, o)
            BY <2>1 DEF Drops
        <2>3. o \in ToSet(olds)
            BY IndexedFacts
        <2> QED
            BY <2>2, <2>3, IndexedCovers
    <1>2. ASSUME NEW o \in ToSet(olds), \A m \in ToSet(news) : Key(kind, m) # Key(kind, o)
          PROVE  \E e \in EntriesOf(kind, olds, news, pairs) : e.action = "DROP"
        <2>1. PICK x \in Indexed(kind, olds) : Key(kind, x) = Key(kind, o)
            BY IndexedCovers
        <2>2. \A n \in Indexed(kind, news) : Key(kind, n) # Key(kind, x)
            BY <1>2, <2>1, IndexedFacts
        <2>3. Entry("DROP", {x}, {}) \in EntriesOf(kind, olds, news, pairs)
            BY <2>1, <2>2 DEF Drops, EntriesOf
        <2> QED
            BY <2>3 DEF Entry
    <1> QED
        BY <1>1, <1>2

LEMMA DroppedEntries ==
    ASSUME IInv, phase = "done", NEW k \in NamelessKinds
    PROVE  (\E e \in ToSet(mdiff[k]) : e.action = "DROP")
            <=> \E i \in DOMAIN old : \E n \in Found(new, old[i].name) :
                    \E o \in ToSet(old[i].lists[k]) :
                        \A m \in ToSet(n.lists[k]) : Key(k, m) # Key(k, o)
    <1>1. k \in ToSet(ObjectKinds) /\ k # "table"
        BY KindFacts DEF NamelessKinds
    <1>2. /\ InputInv /\ ToSet(mdiff[k]) = Reported(k)
          /\ Compared(k) = {p \in ToSet(old) \X ToSet(new) : p[1].name = p[2].name}
        BY <1>1, DoneFacts
    <1>3. Reported(k) = UNION {CallEntries(k, p[1], p[2]) : p \in Compared(k)}
        BY <1>1 DEF Reported
    <1>4. ASSUME NEW a \in ToSet(old), NEW b \in ToSet(new)
          PROVE  (\E e \in CallEntries(k, a, b) : e.action = "DROP")
                  <=> \E o \in ToSet(a.lists[k]) :
                        \A m \in ToSet(b.lists[k]) : Key(k, m) # Key(k, o)
        <2> DEFINE olds == a.lists[k]
                   news == b.lists[k]
                   entries == EntriesOf(k, olds, news, AlteredIn(k, olds, news))
        <2>1. IsList(olds) /\ IsList(news)
            BY <1>1, <1>2, DatabaseFacts DEF InputInv, IsSchema
        <2>2. AlteredIn(k, olds, news) \in SUBSET Shared(k, olds, news)
            BY DEF AlteredIn
        <2>3. CallEntries(k, a, b) = {Placed(SchemaNamed(k, a), e) : e \in entries}
            BY DEF CallEntries
        <2> HIDE DEF entries
        <2>4. (\E e \in CallEntries(k, a, b) : e.action = "DROP") <=> \E e \in entries : e.action = "DROP"
            BY <2>3, PlacedFacts
        <2> HIDE DEF olds, news
        <2>5. (\E e \in entries : e.action = "DROP")
                <=> \E o \in ToSet(olds) : \A m \in ToSet(news) : Key(k, m) # Key(k, o)
            BY <2>1, <2>2, DroppedObjects DEF entries
        <2> QED
            BY <2>4, <2>5 DEF olds, news
    <1>5. ASSUME NEW e \in ToSet(mdiff[k]), e.action = "DROP"
          PROVE  \E i \in DOMAIN old : \E n \in Found(new, old[i].name) :
                    \E o \in ToSet(old[i].lists[k]) : \A m \in ToSet(n.lists[k]) : Key(k, m) # Key(k, o)
        <2>1. PICK p \in Compared(k) : e \in CallEntries(k, p[1], p[2])
            BY <1>2, <1>3
        <2>2. p[1] \in ToSet(old) /\ p[2] \in ToSet(new) /\ p[1].name = p[2].name
            BY <1>2
        <2>3. PICK i \in DOMAIN old : p[1] = old[i]
            BY <2>2 DEF ToSet
        <2>4. p[2] \in Found(new, old[i].name)
            BY <2>2, <2>3 DEF Found, ToSet
        <2>5. \E o \in ToSet(p[1].lists[k]) : \A m \in ToSet(p[2].lists[k]) : Key(k, m) # Key(k, o)
            BY <1>4, <1>5, <2>1, <2>2
        <2> QED
            BY <2>3, <2>4, <2>5
    <1>6. ASSUME NEW i \in DOMAIN old, NEW n \in Found(new, old[i].name),
                 \E o \in ToSet(old[i].lists[k]) : \A m \in ToSet(n.lists[k]) : Key(k, m) # Key(k, o)
          PROVE  \E e \in ToSet(mdiff[k]) : e.action = "DROP"
        <2>1. old[i] \in ToSet(old) /\ n \in ToSet(new) /\ n.name = old[i].name
            BY DEF Found, ToSet
        <2>2. PICK e \in CallEntries(k, old[i], n) : e.action = "DROP"
            BY <1>4, <1>6, <2>1
        <2>3. <<old[i], n>> \in Compared(k)
            BY <1>2, <2>1
        <2>4. e \in UNION {CallEntries(k, p[1], p[2]) : p \in Compared(k)}
            BY <2>2, <2>3
        <2> QED
            BY <1>2, <1>3, <2>2, <2>4
    <1> QED
        BY <1>5, <1>6

-----------------------------------------------------------------------------
(***************************************************************************)
(* What a plan does to the old database.                                   *)
(***************************************************************************)
\* What a plan has: every entry but that of an altered table, of which the columns,
\* indexes, foreign keys and checks are.
PlannedExactly ==
    /\ \A k \in Kinds : \A i \in DOMAIN mdiff[k] :
         Planned(<<k, i>>) <=> ~(k = "table" /\ mdiff[k][i].action = "ALTER")
    /\ \A i \in DOMAIN mdiff["table"] : mdiff["table"][i].action = "ALTER" =>
         \A p \in PartNames : \A j \in DOMAIN handed["table"][i].parts[p] :
             Planned(<<"table", i, p, j>>) <=> p \in {"col", "idx", "fk", "chk"}

\* The changes of the indexes that are neither primary nor unique, carried out.
PlainIndexes(olds, news) ==
    {x \in ToSet(news) : ~Special(x, news) /\ ~Special(x, olds)}
        \cup {x \in ToSet(olds) : Special(x, news) \/ Special(x, olds)}

LEMMA IndexesOfTables ==
    ASSUME NEW o, NEW n, IsTable(o), IsTable(n),
           NEW entries, entries = PartEntries(o, n)["idx"]
    PROVE  (ToSet(o.parts["indexes"]) \ WasIn(entries)) \cup IsIn(entries)
                = PlainIndexes(o.parts["indexes"], n.parts["indexes"])
    <1> DEFINE olds == o.parts["indexes"]
               news == n.parts["indexes"]
               X == ToSet(olds)
               Y == ToSet(news)
               Without(x) == \A y \in Y : y.name # x.name
               New(y) == \A x \in X : x.name # y.name
               Differ(x, y) == x.name = y.name /\ (x.def # y.def \/ x.role # y.role)
               all == PartDiffs(o, n, "indexes")
               Plain(x) == x.role \notin {"primary", "unique"}
               pairs == ChangedParts(o, n, "indexes")
    <1>1. /\ IsList(olds) /\ UniqueKeys("indexes", olds) /\ \A x \in X : IsPart("indexes", x)
          /\ IsList(news) /\ UniqueKeys("indexes", news) /\ \A x \in Y : IsPart("indexes", x)
        BY DEF IsTable, TableParts
    <1>2. \A x, y : Key("indexes", x) = Key("indexes", y) <=> x.name = y.name
        BY DEF Key, ByName
    <1> HIDE DEF olds, news
    <1>3. /\ Indexed("indexes", olds) = X /\ Indexed("indexes", news) = Y
          /\ \A x, y \in X : x.name = y.name => x = y
          /\ \A x, y \in Y : x.name = y.name => x = y
        BY <1>1, <1>2, IndexedFacts
    <1>a. /\ \A x, y : IsPart("indexes", x) /\ IsPart("indexes", y) /\ Plain(x) /\ Plain(y) => x.role = y.role
          /\ \A x : IsPart("indexes", x) => (x.role # "" <=> ~Plain(x))
        BY Zenon DEF IsPart
    <1>b. \A x, y : IsPart("indexes", x) /\ IsPart("indexes", y)
                        /\ x.name = y.name /\ x.def = y.def /\ x.role = y.role => x = y
        BY Zenon DEF IsPart
    <1>4. /\ \A x \in X, y \in Y : Plain(x) /\ Plain(y) => x.role = y.role
          /\ \A x \in X, y \in Y : x.name = y.name /\ x.def = y.def /\ x.role = y.role => x = y
        BY <1>1, <1>a, <1>b, Zenon
    <1>c. \A x, y : /\ Special(x, olds) <=> \E z \in X : z.name = x.name /\ ~Plain(z)
                    /\ Special(x, news) <=> \E z \in Y : z.name = x.name /\ ~Plain(z)
        BY <1>1, <1>a, Zenon DEF Special
    <1>5. all = EntriesOf("indexes", olds, news, pairs)
        BY DEF PartDiffs, EntriesOf, ChangedParts, olds, news
    <1>6. pairs = {p \in X \X Y : Differ(p[1], p[2])}
        <2>1. pairs = {p \in Shared("indexes", olds, news) : RoleOrDefChanged(p[1], p[2])}
            BY DEF ChangedParts, PartChanged, olds, news
        <2>2. Shared("indexes", olds, news) = {p \in X \X Y : p[1].name = p[2].name}
            BY <1>2, <1>3 DEF Shared
        <2> HIDE DEF X, Y, pairs
        <2> QED
            BY <2>1, <2>2 DEF RoleOrDefChanged
    <1> HIDE DEF X, Y, all, pairs, Plain
    <1>7. ASSUME NEW e
          PROVE  e \in all <=>
                    \/ \E x \in X : Without(x) /\ e = Entry("DROP", {x}, {})
                    \/ \E y \in Y : New(y) /\ e = Entry("CREATE", {}, {y})
                    \/ \E x \in X, y \in Y : Differ(x, y) /\ e = Entry("ALTER", {x}, {y})
        <2>1. e \in Drops("indexes", olds, news) <=> \E x \in X : Without(x) /\ e = Entry("DROP", {x}, {})
            <3>1. e \in Drops("indexes", olds, news) <=>
                    \E x \in X : /\ \A y \in Y : Key("indexes", y) # Key("indexes", x)
                                 /\ e = Entry("DROP", {x}, {})
                BY <1>3, Zenon DEF Drops
            <3>2. \A x : (\A y \in Y : Key("indexes", y) # Key("indexes", x)) <=> Without(x)
                BY <1>2, Zenon
            <3> HIDE DEF Without
            <3> QED
                BY <3>1, <3>2, Zenon
        <2>2. e \in Creates("indexes", olds, news) <=> \E y \in Y : New(y) /\ e = Entry("CREATE", {}, {y})
            <3>1. e \in Creates("indexes", olds, news) <=>
                    \E y \in Y : /\ \A x \in X : Key("indexes", y) # Key("indexes", x)
                                 /\ e = Entry("CREATE", {}, {y})
                BY <1>3, Zenon DEF Creates
            <3>2. \A y : (\A x \in X : Key("indexes", y) # Key("indexes", x)) <=> New(y)
                BY <1>2, Zenon
            <3> HIDE DEF New
            <3> QED
                BY <3>1, <3>2, Zenon
        <2>3. e \in Alters(pairs) <=> \E x \in X, y \in Y : Differ(x, y) /\ e = Entry("ALTER", {x}, {y})
            <3>1. e \in Alters(pairs) <=> \E p \in pairs : e = Entry("ALTER", {p[1]}, {p[2]})
                BY Zenon DEF Alters
            <3>2. \A p \in pairs : p[1] \in X /\ p[2] \in Y /\ Differ(p[1], p[2])
                BY <1>6
            <3>3. ASSUME NEW x \in X, NEW y \in Y, Differ(x, y), e = Entry("ALTER", {x}, {y})
                  PROVE  \E p \in pairs : e = Entry("ALTER", {p[1]}, {p[2]})
                <4> DEFINE q == <<x, y>>
                <4>1. q \in X \X Y /\ q[1] = x /\ q[2] = y
                    OBVIOUS
                <4> HIDE DEF q, Differ
                <4>2. q \in pairs
                    BY <1>6, <3>3, <4>1
                <4> QED
                    BY <3>3, <4>1, <4>2
            <3> HIDE DEF Differ
            <3> QED
                BY <3>1, <3>2, <3>3
        <2> QED
            BY <1>5, <2>1, <2>2, <2>3 DEF EntriesOf
    <1>8. \A e : e \in entries <=> e \in all /\ \A i \in e.was \cup e.is : Plain(i)
        <2>1. entries = OfRole(all, "")
            <3>1. PartEntries(o, n)["idx"] = OfRole(PartDiffs(o, n, "indexes"), "")
                BY DEF PartEntries
            <3> QED
                BY <3>1, Zenon DEF all
        <2> DEFINE Has(e, role) == role \in {i.role : i \in e.was \cup e.is}
                   RoleOf(e) == IF Has(e, "primary") THEN "primary"
                                ELSE IF Has(e, "unique") THEN "unique" ELSE ""
        <2>2. \A e : e \in OfRole(all, "") <=> e \in all /\ "" = RoleOf(e)
            BY Zenon DEF OfRole
        <2>3. \A e : "" = RoleOf(e) <=> ~Has(e, "primary") /\ ~Has(e, "unique")
            <3> HIDE DEF Has
            <3> TAKE e
            <3>1. CASE Has(e, "primary")
                BY <3>1, Zenon
            <3>2. CASE ~Has(e, "primary") /\ Has(e, "unique")
                BY <3>2, Zenon
            <3>3. CASE ~Has(e, "primary") /\ ~Has(e, "unique")
                BY <3>3, Zenon
            <3> QED
                BY <3>1, <3>2, <3>3, Zenon
        <2>4. \A e : ~Has(e, "primary") /\ ~Has(e, "unique") <=> \A i \in e.was \cup e.is : Plain(i)
            BY DEF Plain
        <2> HIDE DEF Has, RoleOf
        <2> QED
            BY <2>1, <2>2, <2>3, <2>4, Zenon
    <1>9. \A x : x \in WasIn(entries) <=>
            x \in X /\ Plain(x) /\ (Without(x) \/ \E y \in Y : Differ(x, y) /\ Plain(y))
        <2> SUFFICES ASSUME NEW x
                     PROVE  x \in WasIn(entries) <=> x \in X /\ Plain(x)
                                /\ (Without(x) \/ \E y \in Y : Differ(x, y) /\ Plain(y))
            OBVIOUS
        <2>1. ASSUME NEW e \in entries, x \in e.was
              PROVE  x \in X /\ Plain(x) /\ (Without(x) \/ \E y \in Y : Differ(x, y) /\ Plain(y))
            <3>1. e \in all /\ \A i \in e.was \cup e.is : Plain(i)
                BY <1>8
            <3>2. \/ \E z \in X : Without(z) /\ e = Entry("DROP", {z}, {})
                  \/ \E z \in X, y \in Y : Differ(z, y) /\ e = Entry("ALTER", {z}, {y})
                BY <1>7, <2>1, <3>1 DEF Entry
            <3>3. CASE \E z \in X : Without(z) /\ e = Entry("DROP", {z}, {})
                <4>1. x \in X /\ Without(x)
                    BY <2>1, <3>3 DEF Entry
                <4> QED
                    BY <1>4, <2>1, <3>1, <4>1
            <3>4. CASE \E z \in X, y \in Y : Differ(z, y) /\ e = Entry("ALTER", {z}, {y})
                <4>1. PICK y \in Y : x \in X /\ Differ(x, y) /\ y \in e.is
                    BY <2>1, <3>4 DEF Entry
                <4> QED
                    BY <1>4, <2>1, <3>1, <4>1
            <3> QED
                BY <3>2, <3>3, <3>4
        <2>2. ASSUME x \in X, Plain(x), Without(x)
              PROVE  \E e \in entries : x \in e.was
            <3> DEFINE e == Entry("DROP", {x}, {})
            <3>1. e \in all
                BY <1>7, <2>2
            <3>2. e.was = {x} /\ e.is = {}
                BY DEF Entry
            <3> QED
                BY <1>8, <2>2, <3>1, <3>2
        <2>3. ASSUME x \in X, Plain(x), NEW y \in Y, Differ(x, y), Plain(y)
              PROVE  \E e \in entries : x \in e.was
            <3> DEFINE e == Entry("ALTER", {x}, {y})
            <3>1. e \in all
                BY <1>7, <2>3
            <3>2. e.was = {x} /\ e.is = {y}
                BY DEF Entry
            <3> QED
                BY <1>8, <2>3, <3>1, <3>2
        <2> QED
            BY <2>1, <2>2, <2>3 DEF WasIn
    <1>10. \A y : y \in IsIn(entries) <=>
            y \in Y /\ Plain(y) /\ (New(y) \/ \E x \in X : Differ(x, y) /\ Plain(x))
        <2> SUFFICES ASSUME NEW y
                     PROVE  y \in IsIn(entries) <=> y \in Y /\ Plain(y)
                                /\ (New(y) \/ \E x \in X : Differ(x, y) /\ Plain(x))
            OBVIOUS
        <2>1. ASSUME NEW e \in entries, y \in e.is
              PROVE  y \in Y /\ Plain(y) /\ (New(y) \/ \E x \in X : Differ(x, y) /\ Plain(x))
            <3>1. e \in all /\ \A i \in e.was \cup e.is : Plain(i)
                BY <1>8
            <3>2. \/ \E z \in Y : New(z) /\ e = Entry("CREATE", {}, {z})
                  \/ \E x \in X, z \in Y : Differ(x, z) /\ e = Entry("ALTER", {x}, {z})
                BY <1>7, <2>1, <3>1 DEF Entry
            <3>3. CASE \E z \in Y : New(z) /\ e = Entry("CREATE", {}, {z})
                <4>1. y \in Y /\ New(y)
                    BY <2>1, <3>3 DEF Entry
                <4> QED
                    BY <1>4, <2>1, <3>1, <4>1
            <3>4. CASE \E x \in X, z \in Y : Differ(x, z) /\ e = Entry("ALTER", {x}, {z})
                <4>1. PICK x \in X : y \in Y /\ Differ(x, y) /\ x \in e.was
                    BY <2>1, <3>4 DEF Entry
                <4> QED
                    BY <1>4, <2>1, <3>1, <4>1
            <3> QED
                BY <3>2, <3>3, <3>4
        <2>2. ASSUME y \in Y, Plain(y), New(y)
              PROVE  \E e \in entries : y \in e.is
            <3> DEFINE e == Entry("CREATE", {}, {y})
            <3>1. e \in all
                BY <1>7, <2>2
            <3>2. e.was = {} /\ e.is = {y}
                BY DEF Entry
            <3> QED
                BY <1>8, <2>2, <3>1, <3>2
        <2>3. ASSUME y \in Y, Plain(y), NEW x \in X, Differ(x, y), Plain(x)
              PROVE  \E e \in entries : y \in e.is
            <3> DEFINE e == Entry("ALTER", {x}, {y})
            <3>1. e \in all
                BY <1>7, <2>3
            <3>2. e.was = {x} /\ e.is = {y}
                BY DEF Entry
            <3> QED
                BY <1>8, <2>3, <3>1, <3>2
        <2> QED
            BY <2>1, <2>2, <2>3 DEF IsIn
    <1>12. \A x : x \in (X \ WasIn(entries)) \cup IsIn(entries) <=>
                \/ x \in Y /\ ~Special(x, news) /\ ~Special(x, olds)
                \/ x \in X /\ (Special(x, news) \/ Special(x, olds))
        <2> SUFFICES ASSUME NEW x
                     PROVE  x \in (X \ WasIn(entries)) \cup IsIn(entries) <=>
                                \/ x \in Y /\ ~Special(x, news) /\ ~Special(x, olds)
                                \/ x \in X /\ (Special(x, news) \/ Special(x, olds))
            OBVIOUS
        <2>1. ASSUME x \in X, x \notin WasIn(entries), ~Special(x, news), ~Special(x, olds)
              PROVE  x \in Y
            <3>1. Plain(x)
                BY <1>c, <2>1
            <3>2. PICK y \in Y : y.name = x.name
                BY <1>9, <2>1, <3>1
            <3>3. Plain(y)
                BY <1>c, <2>1, <3>2
            <3> QED
                BY <1>4, <1>9, <2>1, <3>1, <3>2, <3>3
        <2>2. ASSUME x \in IsIn(entries)
              PROVE  x \in Y /\ ~Special(x, news) /\ ~Special(x, olds)
            <3>1. x \in Y /\ Plain(x) /\ (New(x) \/ \E z \in X : Differ(z, x) /\ Plain(z))
                BY <1>10, <2>2
            <3>2. ~Special(x, news)
                BY <1>3, <1>c, <3>1
            <3>3. ~Special(x, olds)
                BY <1>3, <1>c, <3>1
            <3> QED
                BY <3>1, <3>2, <3>3
        <2>3. ASSUME x \in Y, ~Special(x, news), ~Special(x, olds), x \notin IsIn(entries)
              PROVE  x \in X /\ x \notin WasIn(entries)
            <3>1. Plain(x)
                BY <1>c, <2>3
            <3>2. PICK z \in X : z.name = x.name
                BY <1>10, <2>3, <3>1
            <3>3. Plain(z)
                BY <1>c, <2>3, <3>2
            <3>4. z = x
                BY <1>4, <1>10, <2>3, <3>1, <3>2, <3>3
            <3>5. ~Without(x) /\ \A y \in Y : ~Differ(x, y)
                BY <1>3, <2>3
            <3> QED
                BY <1>9, <3>2, <3>4, <3>5
        <2>4. ASSUME x \in X, Special(x, news) \/ Special(x, olds)
              PROVE  x \notin WasIn(entries)
            <3>1. ASSUME x \in WasIn(entries) PROVE FALSE
                <4>1. Plain(x) /\ (Without(x) \/ \E y \in Y : Differ(x, y) /\ Plain(y))
                    BY <1>9, <3>1
                <4>2. ~Special(x, olds)
                    BY <1>3, <1>c, <2>4, <4>1
                <4>3. ~Special(x, news)
                    BY <1>3, <1>c, <2>4, <4>1
                <4> QED
                    BY <2>4, <4>2, <4>3
            <3> QED
                BY <3>1
        <2> QED
            BY <2>1, <2>2, <2>3, <2>4
    <1>13. (X \ WasIn(entries)) \cup IsIn(entries) = PlainIndexes(olds, news)
        BY <1>12 DEF PlainIndexes, X, Y
    <1> QED
        BY <1>13 DEF X, olds, news

\* Of an altered table the plan has all columns, indexes, foreign keys and checks.
LEMMA PlannedParts ==
    ASSUME IInv, HandedOver, PlannedExactly,
           NEW i \in DOMAIN mdiff["table"], mdiff["table"][i].action = "ALTER", NEW p \in PartNames
    PROVE  PlannedItems(i, p) =
                IF p \in {"col", "idx", "fk", "chk"} THEN ToSet(handed["table"][i].parts[p]) ELSE {}
    <1> DEFINE items == handed["table"][i].parts[p]
               planned == {j \in DOMAIN items : Planned(<<"table", i, p, j>>)}
    <1>1. \A j \in DOMAIN items : Planned(<<"table", i, p, j>>) <=> p \in {"col", "idx", "fk", "chk"}
        BY DEF PlannedExactly
    <1>2. PlannedItems(i, p) = {items[j] : j \in planned}
        BY DEF PlannedItems
    <1>3. planned = IF p \in {"col", "idx", "fk", "chk"} THEN DOMAIN items ELSE {}
        <2> HIDE DEF items
        <2> QED
            BY <1>1
    <1>4. ToSet(items) = {items[j] : j \in DOMAIN items}
        BY DEF ToSet
    <1> HIDE DEF items, planned
    <1>5. PlannedItems(i, p) = IF p \in {"col", "idx", "fk", "chk"} THEN ToSet(items) ELSE {}
        BY <1>2, <1>3, <1>4
    <1> QED
        BY <1>5 DEF items

\* The planned changes of its parts take an altered table the way of Midway.
LEMMA AlteredTable ==
    ASSUME IInv, HandedOver, PlannedExactly,
           NEW i \in DOMAIN mdiff["table"], mdiff["table"][i].action = "ALTER",
           NEW o, NEW n, IsTable(o), IsTable(n), o.name = n.name,
           mdiff["table"][i].was = {o}, mdiff["table"][i].is = {n}
    PROVE  AfterItems(o, i) = Midway(o, n)
    <1> DEFINE lists == handed["table"][i].parts
               Parts(e, part) == (ToSet(o.parts[part]) \ WasIn(e)) \cup IsIn(e)
               items == [columns |-> PlannedItems(i, "col"), indexes |-> PlannedItems(i, "idx"),
                         fks |-> PlannedItems(i, "fk"), checks |-> PlannedItems(i, "chk"),
                         triggers |-> PlannedItems(i, "trigger"), rules |-> PlannedItems(i, "rule"),
                         partitions |-> PlannedItems(i, "partition")]
               Target(p) ==
                    CASE p \in {"columns", "fks", "checks"} -> ToSet(n.parts[p])
                      [] p = "indexes" -> PlainIndexes(o.parts[p], n.parts[p])
                      [] OTHER -> ToSet(o.parts[p])
    <1>1. lists \in TableLists(o, n)
        <2>1. FormOf("table", mdiff["table"][i], handed["table"][i])
            BY HandedForms, KindFacts DEF HandedOver
        <2> QED
            BY <2>1 DEF FormOf
    <1>2. \A p \in PartNames : ItemsAre(lists[p], PartEntries(o, n)[p])
        <2> HIDE DEF lists
        <2> QED
            BY <1>1, TableListsFacts, Zenon
    <1>3. \A p \in {"col", "idx", "fk", "chk"} :
                WasIn(PlannedItems(i, p)) = WasIn(PartEntries(o, n)[p])
                /\ IsIn(PlannedItems(i, p)) = IsIn(PartEntries(o, n)[p])
        BY <1>2, PlannedParts, ZenonT(30) DEF ItemsAre, PartNames
    <1>4. \A p \in {"trigger", "rule", "partition"} : PlannedItems(i, p) = {}
        BY PlannedParts DEF PartNames
    <1>5. /\ PartEntries(o, n)["col"] = PartDiffs(o, n, "columns")
          /\ PartEntries(o, n)["fk"] = PartDiffs(o, n, "fks")
          /\ PartEntries(o, n)["chk"] = PartDiffs(o, n, "checks")
        BY DEF PartEntries
    <1>6. \A part \in TableParts :
            (ToSet(o.parts[part]) \ WasIn(PartDiffs(o, n, part))) \cup IsIn(PartDiffs(o, n, part))
                = ToSet(n.parts[part])
        BY PartsOfTables
    <1>7. /\ Parts(PlannedItems(i, "col"), "columns") = ToSet(n.parts["columns"])
          /\ Parts(PlannedItems(i, "fk"), "fks") = ToSet(n.parts["fks"])
          /\ Parts(PlannedItems(i, "chk"), "checks") = ToSet(n.parts["checks"])
        BY <1>3, <1>5, <1>6 DEF TableParts
    <1>8. Parts(PlannedItems(i, "idx"), "indexes") = PlainIndexes(o.parts["indexes"], n.parts["indexes"])
        BY <1>3, IndexesOfTables
    <1>9. /\ Parts(PlannedItems(i, "trigger"), "triggers") = ToSet(o.parts["triggers"])
          /\ Parts(PlannedItems(i, "rule"), "rules") = ToSet(o.parts["rules"])
          /\ Parts(PlannedItems(i, "partition"), "partitions") = ToSet(o.parts["partitions"])
        BY <1>4, NoEntriesNoChange
    <1>10. /\ items["columns"] = PlannedItems(i, "col") /\ items["indexes"] = PlannedItems(i, "idx")
           /\ items["fks"] = PlannedItems(i, "fk") /\ items["checks"] = PlannedItems(i, "chk")
           /\ items["triggers"] = PlannedItems(i, "trigger") /\ items["rules"] = PlannedItems(i, "rule")
           /\ items["partitions"] = PlannedItems(i, "partition")
        OBVIOUS
    <1>11. AfterItems(o, i) = [name |-> o.name, props |-> Ignoring(o.props),
                               parts |-> [p \in TableParts |-> Parts(items[p], p)]]
        BY DEF AfterItems
    <1>12. Midway(o, n) = [name |-> n.name, props |-> Ignoring(o.props),
                           parts |-> [p \in TableParts |-> Target(p)]]
        BY DEF Midway, PlainIndexes
    <1> HIDE DEF items, Parts, lists
    <1>13. ASSUME NEW p \in TableParts
           PROVE  Parts(items[p], p) = Target(p)
        <2>1. CASE p \in {"columns", "fks", "checks"}
            BY <1>7, <1>10, <2>1
        <2>2. CASE p = "indexes"
            BY <1>8, <1>10, <2>2
        <2>3. CASE p \in {"triggers", "rules", "partitions"}
            BY <1>9, <1>10, <2>3
        <2> QED
            BY <2>1, <2>2, <2>3 DEF TableParts
    <1> HIDE DEF Target
    <1> QED
        BY <1>11, <1>12, <1>13

\* And a table without a change is what Midway makes of it.
LEMMA UnalteredTable ==
    ASSUME NEW o, NEW n, IsTable(o), IsTable(n), o.name = n.name, ~HasChanges(o, n)
    PROVE  Content(o) = Midway(o, n)
    <1>1. Content(o) = Content(n)
        BY ChangesOfTable
    <1>2. \A p \in TableParts : ToSet(o.parts[p]) = ToSet(n.parts[p])
        <2>1. Content(o).parts = Content(n).parts
            BY <1>1
        <2>2. \A t : Content(t).parts = [p \in TableParts |-> ToSet(t.parts[p])]
            BY DEF Content
        <2>3. [p \in TableParts |-> ToSet(o.parts[p])] = [p \in TableParts |-> ToSet(n.parts[p])]
            BY <2>1, <2>2
        <2> QED
            BY <2>3
    <1> DEFINE Target(p) ==
                    CASE p \in {"columns", "fks", "checks"} -> ToSet(n.parts[p])
                      [] p = "indexes" -> PlainIndexes(o.parts[p], n.parts[p])
                      [] OTHER -> ToSet(o.parts[p])
    <1>3. Midway(o, n) = [name |-> n.name, props |-> Ignoring(o.props),
                          parts |-> [p \in TableParts |-> Target(p)]]
        BY DEF Midway, PlainIndexes
    <1>4. PlainIndexes(o.parts["indexes"], n.parts["indexes"]) = ToSet(o.parts["indexes"])
        <2>1. ToSet(o.parts["indexes"]) = ToSet(n.parts["indexes"])
            BY <1>2 DEF TableParts
        <2> QED
            BY <2>1 DEF PlainIndexes
    <1>5. ASSUME NEW p \in TableParts
          PROVE  Target(p) = ToSet(o.parts[p])
        BY <1>2, <1>4
    <1> HIDE DEF Target
    <1> QED
        BY <1>3, <1>5 DEF Content

LEMMA EntriesPlanned ==
    ASSUME IInv, HandedOver, PlannedExactly, NEW k \in ToSet(ObjectKinds)
    PROVE  PlannedEntries(k) = {e \in ToSet(mdiff[k]) : k # "table" \/ e.action # "ALTER"}
    <1>1. k \in Kinds
        BY KindFacts
    <1>2. \A i \in DOMAIN mdiff[k] : Planned(<<k, i>>) <=> (k # "table" \/ mdiff[k][i].action # "ALTER")
        <2>1. \A i \in DOMAIN mdiff[k] : Planned(<<k, i>>) <=> ~(k = "table" /\ mdiff[k][i].action = "ALTER")
            BY <1>1 DEF PlannedExactly
        <2> QED
            BY <2>1
    <1>3. \A e : e \in PlannedEntries(k) <=> \E i \in DOMAIN mdiff[k] : Planned(<<k, i>>) /\ e = mdiff[k][i]
        BY Zenon DEF PlannedEntries
    <1>4. \A e : e \in ToSet(mdiff[k]) <=> \E i \in DOMAIN mdiff[k] : e = mdiff[k][i]
        BY Zenon DEF ToSet
    <1>5. \A e : e \in PlannedEntries(k) <=> e \in ToSet(mdiff[k]) /\ (k # "table" \/ e.action # "ALTER")
        <2> DEFINE d == mdiff[k]
        <2> HIDE DEF d
        <2>1. \A e : e \in PlannedEntries(k) <=>
                \E i \in DOMAIN d : (k # "table" \/ d[i].action # "ALTER") /\ e = d[i]
            BY <1>2, <1>3, Zenon DEF d
        <2>2. \A e : e \in ToSet(d) <=> \E i \in DOMAIN d : e = d[i]
            BY <1>4 DEF d
        <2>3. \A e : e \in PlannedEntries(k) <=> e \in ToSet(d) /\ (k # "table" \/ e.action # "ALTER")
            BY <2>1, <2>2
        <2> QED
            BY <2>3 DEF d
    <1> QED
        BY <1>5

\* A list of objects other than tables: the entries turn the old one into the new one.
LEMMA ObjectsAfterPlan ==
    ASSUME IInv, HandedOver, PlannedExactly, NEW k \in ToSet(ObjectKinds), k # "table",
           NEW olds, NEW news, Comparable(k, olds, news), NEW schema,
           {e \in ToSet(mdiff[k]) : e.schema = schema}
                = PlacedEntries(schema, EntriesOf(k, olds, news, AlteredIn(k, olds, news)))
    PROVE  AfterPlan(k, schema, olds) = Reconciled(k, olds, news)
    <1> DEFINE pairs == AlteredIn(k, olds, news)
               E == EntriesOf(k, olds, news, pairs)
               entries == {e \in PlannedEntries(k) : e.schema = schema}
    <1>1. AfterPlan(k, schema, olds) = (ToSet(olds) \ WasIn(entries)) \cup IsIn(entries)
        BY DEF AfterPlan
    <1>2. entries = PlacedEntries(schema, E)
        <2>1. PlannedEntries(k) = ToSet(mdiff[k])
            BY EntriesPlanned
        <2> QED
            BY <2>1
    <1>3. pairs \in SUBSET Shared(k, olds, news) /\ \A p \in Shared(k, olds, news) \ pairs : p[1] = p[2]
        BY DEF AlteredIn, Comparable
    <1> HIDE DEF pairs, entries
    <1>4. (ToSet(olds) \ WasIn(E)) \cup IsIn(E) = Seen(k, news) \cup (ToSet(olds) \ Seen(k, olds))
        <2>1. (ToSet(olds) \ WasIn(E)) \cup IsIn(E)
                    = Indexed(k, news) \cup (ToSet(olds) \ Indexed(k, olds))
            BY <1>3, ListReconciles DEF Comparable
        <2> QED
            BY <2>1, SeenIsIndexed DEF Comparable
    <1>5. WasIn(entries) = WasIn(E) /\ IsIn(entries) = IsIn(E)
        BY <1>2, PlacedIn
    <1>6. Reconciled(k, olds, news) = Seen(k, news) \cup (ToSet(olds) \ Seen(k, olds))
        BY DEF Reconciled, Contents
    <1> HIDE DEF E
    <1> QED
        BY <1>1, <1>4, <1>5, <1>6

\* The places at which a table is altered.
AlterOf(schema, t) ==
    {i \in DOMAIN mdiff["table"] :
        mdiff["table"][i].schema = schema /\ mdiff["table"][i].action = "ALTER"
            /\ t \in mdiff["table"][i].was}

\* A table of both lists goes Midway.
LEMMA SharedTable ==
    ASSUME IInv, HandedOver, PlannedExactly,
           NEW olds, NEW news, Comparable("table", olds, news), NEW schema,
           NEW pairs, pairs = AlteredIn("table", olds, news),
           {e \in ToSet(mdiff["table"]) : e.schema = schema}
                = PlacedEntries(schema, EntriesOf("table", olds, news, pairs)),
           NEW t \in ToSet(olds), NEW n \in ToSet(news), t.name = n.name
    PROVE  /\ \A i \in AlterOf(schema, t) : AfterItems(t, i) = Midway(t, n)
           /\ AlterOf(schema, t) = {} => Content(t) = Midway(t, n)
    <1> DEFINE X == ToSet(olds)
               Y == ToSet(news)
               all == {e \in ToSet(mdiff["table"]) : e.schema = schema}
    <1>1. /\ \A x \in X \cup Y : IsTable(x)
          /\ \A x, y \in Y : x.name = y.name => x = y
        BY TablesOfLists
    <1>2. /\ \A p \in pairs : p[1] \in X /\ p[2] \in Y /\ p[1].name = p[2].name /\ p = <<p[1], p[2]>>
          /\ <<t, n>> \in pairs <=> HasChanges(t, n)
        BY AlteredTables
    <1>3. \A e : e \in all <=>
            \/ \E o \in X : (\A m \in Y : m.name # o.name) /\ e = Dropping(schema, o)
            \/ \E m \in Y : (\A o \in X : m.name # o.name) /\ e = Creating(schema, m)
            \/ \E p \in pairs : e = Altering(schema, p)
        <2>1. all = PlacedEntries(schema, EntriesOf("table", olds, news, pairs))
            OBVIOUS
        <2> HIDE DEF all
        <2> QED
            BY <2>1, EntriesOfTables
    <1>4. \A e : e \in all <=> \E i \in DOMAIN mdiff["table"] : e = mdiff["table"][i] /\ e.schema = schema
        BY DEF ToSet
    <1> HIDE DEF all, X, Y
    <1>5. ASSUME NEW i \in AlterOf(schema, t)
          PROVE  /\ i \in DOMAIN mdiff["table"] /\ mdiff["table"][i].action = "ALTER"
                 /\ mdiff["table"][i].was = {t} /\ mdiff["table"][i].is = {n}
                 /\ <<t, n>> \in pairs
        <2> DEFINE e == mdiff["table"][i]
        <2>1. i \in DOMAIN mdiff["table"] /\ e.schema = schema /\ e.action = "ALTER" /\ t \in e.was
            BY DEF AlterOf
        <2>2. e \in all
            BY <1>4, <2>1
        <2> HIDE DEF e
        <2>3. PICK p \in pairs : e = Altering(schema, p)
            BY <1>3, <2>1, <2>2, DroppingFacts, CreatingFacts
        <2>4. e.was = {p[1]} /\ e.is = {p[2]}
            BY <2>3, AlteringFacts
        <2>5. p[1] = t
            BY <2>1, <2>4
        <2>6. p[2] = n
            BY <1>1, <1>2, <2>5 DEF Y
        <2>7. p = <<t, n>>
            BY <1>2, <2>5, <2>6
        <2> QED
            BY <2>1, <2>4, <2>5, <2>6, <2>7 DEF e
    <1>6. ASSUME NEW i \in AlterOf(schema, t)
          PROVE  AfterItems(t, i) = Midway(t, n)
        <2>1. IsTable(t) /\ IsTable(n)
            BY <1>1 DEF X, Y
        <2> QED
            BY <1>5, <2>1, AlteredTable
    <1>7. ASSUME AlterOf(schema, t) = {}
          PROVE  Content(t) = Midway(t, n)
        <2>1. ~HasChanges(t, n)
            <3> SUFFICES ASSUME <<t, n>> \in pairs PROVE FALSE
                BY <1>2
            <3> DEFINE q == <<t, n>>
            <3>1. q \in pairs /\ q[1] = t
                OBVIOUS
            <3> HIDE DEF q
            <3>2. PICK i \in DOMAIN mdiff["table"] : mdiff["table"][i] = Altering(schema, q)
                                                        /\ mdiff["table"][i].schema = schema
                <4> DEFINE e == Altering(schema, q)
                <4>1. e \in all
                    BY <1>3, <3>1
                <4> HIDE DEF e
                <4>2. \E i \in DOMAIN mdiff["table"] : e = mdiff["table"][i] /\ e.schema = schema
                    BY <1>4, <4>1
                <4> QED
                    BY <4>2 DEF e
            <3>3. mdiff["table"][i].action = "ALTER" /\ mdiff["table"][i].was = {t}
                BY <3>1, <3>2, AlteringFacts
            <3> QED
                BY <1>7, <3>2, <3>3 DEF AlterOf
        <2> QED
            BY <1>1, <2>1, UnalteredTable DEF X, Y
    <1> QED
        BY <1>6, <1>7

\* A list of tables: those of both lists, and the new ones.
LEMMA TablesAfterPlan ==
    ASSUME IInv, HandedOver, PlannedExactly,
           NEW olds, NEW news, Comparable("table", olds, news), NEW schema,
           {e \in ToSet(mdiff["table"]) : e.schema = schema}
                = PlacedEntries(schema, EntriesOf("table", olds, news, AlteredIn("table", olds, news)))
    PROVE  AfterPlan("table", schema, olds) = MidwayTables(olds, news)
    <1> DEFINE pairs == AlteredIn("table", olds, news)
               X == ToSet(olds)
               Y == ToSet(news)
               entries == {e \in PlannedEntries("table") : e.schema = schema}
               kept == X \ WasIn(entries)
               Shares(t) == \E n \in Y : n.name = t.name
    <1>1. AfterPlan("table", schema, olds)
            = (UNION {{AfterItems(t, i) : i \in AlterOf(schema, t)} : t \in kept})
                \cup {Content(t) : t \in {t \in kept : AlterOf(schema, t) = {}} \cup IsIn(entries)}
        BY DEF AfterPlan, AlterOf, Contents, Content
    <1>2. \A e : e \in entries <=>
            \/ \E o \in X : (\A m \in Y : m.name # o.name) /\ e = Dropping(schema, o)
            \/ \E m \in Y : (\A o \in X : m.name # o.name) /\ e = Creating(schema, m)
        <2> DEFINE all == {e \in ToSet(mdiff["table"]) : e.schema = schema}
        <2>1. entries = {e \in all : e.action # "ALTER"}
            BY EntriesPlanned, KindFacts
        <2>2. all = PlacedEntries(schema, EntriesOf("table", olds, news, pairs))
            OBVIOUS
        <2> HIDE DEF all, entries, pairs
        <2>3. \A e : e \in all <=>
                \/ \E o \in X : (\A m \in Y : m.name # o.name) /\ e = Dropping(schema, o)
                \/ \E m \in Y : (\A o \in X : m.name # o.name) /\ e = Creating(schema, m)
                \/ \E p \in pairs : e = Altering(schema, p)
            BY <2>2, EntriesOfTables DEF pairs
        <2> HIDE DEF X, Y
        <2> QED
            BY <2>1, <2>3, DroppingFacts, CreatingFacts, AlteringFacts
    <1>3. /\ \A x, y \in X : x.name = y.name => x = y
          /\ \A x, y \in Y : x.name = y.name => x = y
        BY TablesOfLists
    <1>4. \A t \in X, n \in Y : t.name = n.name =>
            /\ \A i \in AlterOf(schema, t) : AfterItems(t, i) = Midway(t, n)
            /\ AlterOf(schema, t) = {} => Content(t) = Midway(t, n)
        BY SharedTable
    <1> HIDE DEF X, Y, entries
    <1>5. \A t : t \in WasIn(entries) <=> t \in X /\ ~Shares(t)
        BY <1>2, DroppingFacts, CreatingFacts DEF WasIn
    <1>6. \A t : t \in IsIn(entries) <=> t \in Y /\ \A o \in X : t.name # o.name
        BY <1>2, DroppingFacts, CreatingFacts DEF IsIn
    <1>7. \A t : t \in kept <=> t \in X /\ Shares(t)
        BY <1>5
    <1> HIDE DEF kept
    <1>8. MidwayTables(olds, news)
            = {Midway(p[1], p[2]) : p \in Shared("table", olds, news)}
                \cup {Content(n) : n \in {n \in Y : \A o \in X : o.name # n.name}}
        BY DEF MidwayTables, Contents, Content, X, Y
    <1>9. \A c : c \in {Midway(p[1], p[2]) : p \in Shared("table", olds, news)}
                <=> \E t \in X, n \in Y : t.name = n.name /\ c = Midway(t, n)
        <2> SUFFICES ASSUME NEW c
                     PROVE  c \in {Midway(p[1], p[2]) : p \in Shared("table", olds, news)}
                                <=> \E t \in X, n \in Y : t.name = n.name /\ c = Midway(t, n)
            OBVIOUS
        <2>1. Shared("table", olds, news) = {p \in X \X Y : p[1].name = p[2].name}
            <3>1. \A t, u : Key("table", t) = Key("table", u) <=> t.name = u.name
                BY DEF Key, ByName
            <3>2. Indexed("table", olds) = X /\ Indexed("table", news) = Y
                BY TablesOfLists DEF X, Y
            <3> QED
                BY <3>1, <3>2 DEF Shared
        <2>2. ASSUME NEW t \in X, NEW n \in Y, t.name = n.name, c = Midway(t, n)
              PROVE  \E p \in Shared("table", olds, news) : c = Midway(p[1], p[2])
            <3> DEFINE q == <<t, n>>
            <3>1. q \in X \X Y /\ q[1] = t /\ q[2] = n
                OBVIOUS
            <3> HIDE DEF q
            <3> QED
                BY <2>1, <2>2, <3>1
        <2>3. ASSUME NEW p \in Shared("table", olds, news), c = Midway(p[1], p[2])
              PROVE  \E t \in X, n \in Y : t.name = n.name /\ c = Midway(t, n)
            BY <2>1, <2>3
        <2> QED
            BY <2>2, <2>3
    <1>10. \A c : c \in AfterPlan("table", schema, olds) <=>
                \/ \E t \in kept : \E i \in AlterOf(schema, t) : c = AfterItems(t, i)
                \/ \E t \in kept : AlterOf(schema, t) = {} /\ c = Content(t)
                \/ \E t \in IsIn(entries) : c = Content(t)
        BY <1>1
    <1>11. \A c : c \in MidwayTables(olds, news) <=>
                \/ \E t \in X, n \in Y : t.name = n.name /\ c = Midway(t, n)
                \/ \E n \in Y : (\A o \in X : o.name # n.name) /\ c = Content(n)
        BY <1>8, <1>9
    <1>12. ASSUME NEW c
           PROVE  (\/ \E t \in kept : \E i \in AlterOf(schema, t) : c = AfterItems(t, i)
                   \/ \E t \in kept : AlterOf(schema, t) = {} /\ c = Content(t))
                  <=> \E t \in X, n \in Y : t.name = n.name /\ c = Midway(t, n)
        <2>1. ASSUME NEW t \in kept, NEW i \in AlterOf(schema, t), c = AfterItems(t, i)
              PROVE  \E u \in X, n \in Y : u.name = n.name /\ c = Midway(u, n)
            BY <1>4, <1>7, <2>1
        <2>2. ASSUME NEW t \in kept, AlterOf(schema, t) = {}, c = Content(t)
              PROVE  \E u \in X, n \in Y : u.name = n.name /\ c = Midway(u, n)
            BY <1>4, <1>7, <2>2
        <2>3. ASSUME NEW t \in X, NEW n \in Y, t.name = n.name, c = Midway(t, n)
              PROVE  \/ \E u \in kept : \E i \in AlterOf(schema, u) : c = AfterItems(u, i)
                     \/ \E u \in kept : AlterOf(schema, u) = {} /\ c = Content(u)
            <3>1. t \in kept
                BY <1>7, <2>3
            <3> QED
                BY <1>4, <2>3, <3>1
        <2> QED
            BY <2>1, <2>2, <2>3
    <1>13. \A c : (\E t \in IsIn(entries) : c = Content(t))
                    <=> \E n \in Y : (\A o \in X : o.name # n.name) /\ c = Content(n)
        BY <1>6
    <1> HIDE DEF Shares
    <1>14. \A c : c \in AfterPlan("table", schema, olds) <=> c \in MidwayTables(olds, news)
        BY <1>10, <1>11, <1>12, <1>13
    <1> QED
        BY <1>14, SetExtensionality

\* A new schema gets its tables, and nothing else.
LEMMA TablesOfAdded ==
    ASSUME IInv, HandedOver, PlannedExactly, NEW j \in DOMAIN new, Found(old, new[j].name) = {}
    PROVE  AfterPlan("table", new[j].name, <<>>) = ListContents("table", new[j].lists["table"])
    <1> DEFINE Y == ToSet(new[j].lists["table"])
               S == new[j].name
               entries == {e \in PlannedEntries("table") : e.schema = S}
               kept == ToSet(<<>>) \ WasIn(entries)
    <1>1. AfterPlan("table", S, <<>>)
            = (UNION {{AfterItems(t, i) : i \in AlterOf(S, t)} : t \in kept})
                \cup Contents("table", {t \in kept : AlterOf(S, t) = {}} \cup IsIn(entries))
        BY DEF AfterPlan, AlterOf
    <1>2. {e \in ToSet(mdiff["table"]) : e.schema = S} = TableEntries(new[j])
        BY EntriesOfAdded DEF HandedOver
    <1>3. \A e : e \in TableEntries(new[j]) <=> \E t \in Y : e = Creating(S, t)
        BY DEF TableEntries, Creating
    <1>4. entries = {e \in TableEntries(new[j]) : e.action # "ALTER"}
        <2>1. PlannedEntries("table") = {e \in ToSet(mdiff["table"]) : e.action # "ALTER"}
            BY EntriesPlanned, KindFacts
        <2> QED
            BY <1>2, <2>1
    <1> HIDE DEF entries, Y, S
    <1>5. \A e : e \in entries <=> \E t \in Y : e = Creating(S, t)
        BY <1>3, <1>4, CreatingFacts
    <1>6. IsIn(entries) = Y
        <2>1. ASSUME NEW t \in Y
              PROVE  \E e \in entries : t \in e.is
            <3>1. PICK e \in entries : e = Creating(S, t)
                BY <1>5
            <3> QED
                BY <3>1, CreatingFacts
        <2>2. ASSUME NEW e \in entries, NEW t \in e.is
              PROVE  t \in Y
            BY <1>5, CreatingFacts
        <2> QED
            BY <2>1, <2>2 DEF IsIn
    <1>7. kept = {}
        BY EmptyList
    <1> HIDE DEF kept
    <1>8. AfterPlan("table", S, <<>>) = Contents("table", Y)
        BY <1>1, <1>6, <1>7
    <1> QED
        BY <1>8 DEF ListContents, Y, S

LEMMA ObjectsOfAdded ==
    ASSUME IInv, HandedOver, PlannedExactly, NEW k \in ToSet(ObjectKinds), k # "table", k # "event",
           NEW j \in DOMAIN new, Found(old, new[j].name) = {}
    PROVE  AfterPlan(k, new[j].name, <<>>) = {}
    <1> DEFINE S == new[j].name
               entries == {e \in PlannedEntries(k) : e.schema = S}
    <1>1. AfterPlan(k, S, <<>>) = (ToSet(<<>>) \ WasIn(entries)) \cup IsIn(entries)
        BY DEF AfterPlan
    <1>2. PlannedEntries(k) = ToSet(mdiff[k])
        BY EntriesPlanned
    <1>3. /\ ToSet(mdiff[k]) = UNION {CallEntries(k, p[1], p[2]) : p \in Compared(k)}
          /\ Compared(k) = {p \in ToSet(old) \X ToSet(new) : p[1].name = p[2].name}
        BY DoneFacts DEF HandedOver, Reported
    <1>4. ASSUME NEW e \in ToSet(mdiff[k])
          PROVE  e.schema # S
        <2>1. PICK p \in Compared(k) : e \in CallEntries(k, p[1], p[2])
            BY <1>3
        <2>2. p[1] \in ToSet(old)
            BY <1>3
        <2>3. e.schema = p[1].name
            BY <2>1, EntrySchemas DEF SchemaNamed
        <2>4. PICK a \in DOMAIN old : p[1] = old[a]
            BY <2>2 DEF ToSet
        <2> QED
            BY <2>3, <2>4 DEF Found
    <1>5. entries = {}
        BY <1>2, <1>4
    <1> HIDE DEF entries
    <1> QED
        BY <1>1, <1>5, EmptyList, NoEntriesNoChange

LEMMA PlanOfShared ==
    ASSUME IInv, HandedOver, PlannedExactly, NEW k \in ToSet(ObjectKinds),
           NEW i \in DOMAIN old, NEW j \in DOMAIN new, old[i].name = new[j].name
    PROVE  AfterPlan(k, SchemaNamed(k, old[i]), old[i].lists[k]) =
                IF k = "table" THEN MidwayTables(old[i].lists[k], new[j].lists[k])
                ELSE Reconciled(k, old[i].lists[k], new[j].lists[k])
    <1> DEFINE olds == old[i].lists[k]
               news == new[j].lists[k]
               S == SchemaNamed(k, old[i])
    <1>1. Comparable(k, olds, news)
        BY DoneFacts, ListsAreComparable DEF HandedOver
    <1>2. {e \in ToSet(mdiff[k]) : e.schema = S} = CallEntries(k, old[i], new[j])
        BY EntriesOfShared DEF HandedOver
    <1>3. CallEntries(k, old[i], new[j]) = PlacedEntries(S, EntriesOf(k, olds, news, AlteredIn(k, olds, news)))
        BY DEF CallEntries, PlacedEntries
    <1> HIDE DEF S, olds, news
    <1>4. {e \in ToSet(mdiff[k]) : e.schema = S}
            = PlacedEntries(S, EntriesOf(k, olds, news, AlteredIn(k, olds, news)))
        BY <1>2, <1>3
    <1>5. CASE k # "table"
        <2>1. AfterPlan(k, S, olds) = Reconciled(k, olds, news)
            BY <1>1, <1>4, <1>5, ObjectsAfterPlan
        <2> QED
            BY <1>5, <2>1 DEF S, olds, news
    <1>6. CASE k = "table"
        <2>1. AfterPlan("table", S, olds) = MidwayTables(olds, news)
            BY <1>1, <1>4, <1>6, TablesAfterPlan
        <2> QED
            BY <1>6, <2>1 DEF S, olds, news
    <1> QED
        BY <1>5, <1>6

-----------------------------------------------------------------------------
(***************************************************************************)
(* What the reports show of a plan.                                        *)
(***************************************************************************)
\* What a plan has operations for: the entries but altered tables, and the changes of
\* four parts of those.
IsWholeLine(x) ==
    \E k \in Kinds : \E i \in DOMAIN handed[k] :
        (k # "table" \/ handed[k][i].action # "ALTER") /\ x = EntryLine(handed, k, i)
IsPartLine(x) ==
    \E i \in DOMAIN handed["table"] : handed["table"][i].action = "ALTER" /\
        \E p \in {"col", "idx", "fk", "chk"} : IsItemLine(x, i, p, handed["table"][i].parts[p])

\* What is handed over can be reported, and only altered tables have parts.
LEMMA HandedIsReportable ==
    ASSUME IInv, HandedOver
    PROVE  /\ Reportable(handed) /\ HandedTyped
           /\ \A i \in DOMAIN handed["table"] : handed["table"][i].action # "ALTER" =>
                \A p \in PartNames : Len(handed["table"][i].parts[p]) = 0
                                      /\ DOMAIN handed["table"][i].parts[p] = {}
    <1>1. IInv /\ phase = "done" /\ Handed
        BY DEF HandedOver
    <1>2. HandedTyped /\ \A k \in Kinds : \A i \in DOMAIN mdiff[k] : FormOf(k, mdiff[k][i], handed[k][i])
        BY <1>1, HandedForms
    <1>3. "table" \in Kinds
        BY KindFacts
    <1>4. /\ DOMAIN handed["table"] = DOMAIN mdiff["table"]
          /\ \A i \in DOMAIN mdiff["table"] : handed["table"][i] \in Changes("table", mdiff["table"][i])
        BY <1>1, <1>3 DEF Handed, HandedAs
    <1>5. \A p \in PartNames : NoItems[p] = <<>>
        BY DEF NoItems, PartNames
    <1>6. IsList(<<>>) /\ Len(<<>>) = 0 /\ DOMAIN <<>> = {}
        BY DEF IsList, ToSet
    <1>7. ASSUME NEW i \in DOMAIN handed["table"]
          PROVE  /\ \A p \in PartNames : IsList(handed["table"][i].parts[p])
                 /\ handed["table"][i].action # "ALTER" =>
                        \A p \in PartNames : Len(handed["table"][i].parts[p]) = 0
                                              /\ DOMAIN handed["table"][i].parts[p] = {}
        <2> DEFINE e == mdiff["table"][i]
                   c == handed["table"][i]
        <2>1. c \in Changes("table", e) /\ FormOf("table", e, c) /\ i \in DOMAIN mdiff["table"]
            BY <1>2, <1>3, <1>4, <1>7
        <2>2. EntryOf("table", e)
            BY <1>1, <1>3, <2>1, EntriesOfDiff
        <2> HIDE DEF e, c
        <2>3. c.action = e.action
            BY <2>1 DEF FormOf
        <2>4. CASE e.action = "ALTER"
            <3>1. PICK o \in e.was, n \in e.is : c.parts \in TableLists(o, n)
                BY <2>1, <2>4 DEF FormOf
            <3>2. IsTable(o) /\ IsTable(n)
                BY <2>2, <3>1 DEF EntryOf
            <3>3. \A p \in PartNames : ItemsAre(c.parts[p], PartEntries(o, n)[p])
                BY <3>1, <3>2, TableListsFacts
            <3>4. \A p \in PartNames : IsList(c.parts[p])
                BY <3>3 DEF ItemsAre
            <3> QED
                BY <2>3, <2>4, <3>4 DEF c
        <2>5. CASE e.action # "ALTER"
            <3>1. c = Bare(e)
                BY <2>1, <2>5 DEF Changes
            <3>2. c.parts = NoItems
                BY <3>1 DEF Bare
            <3>3. \A p \in PartNames : IsList(c.parts[p]) /\ Len(c.parts[p]) = 0 /\ DOMAIN c.parts[p] = {}
                BY <1>5, <1>6, <3>2
            <3> QED
                BY <3>3 DEF c
        <2> QED
            BY <2>4, <2>5
    <1> QED
        BY <1>2, <1>7 DEF Reportable, HandedTyped

LEMMA TextShowsPlan ==
    ASSUME IInv, HandedOver
    PROVE  /\ IsList(FormatDiffAsText(handed)) /\ IsInjective(FormatDiffAsText(handed))
           /\ \A x : x \in ToSet(FormatDiffAsText(handed)) /\ ~IsHeading(x)
                        <=> IsWholeLine(x) \/ IsPartLine(x)
    <1> DEFINE lines == FormatDiffAsText(handed)
    <1>1. /\ Reportable(handed) /\ HandedTyped
          /\ \A i \in DOMAIN handed["table"] : handed["table"][i].action # "ALTER" =>
                \A p \in PartNames : DOMAIN handed["table"][i].parts[p] = {}
        BY HandedIsReportable
    <1>2. lines = ReportOf(handed, TextSections, TextParts)
        BY DEF FormatDiffAsText, ReportOf
    <1>3. /\ GoesThrough(TextSections, Kinds) /\ ToSet(TextSections) = Kinds
          /\ GoesThrough(TextParts, PartNames) /\ ToSet(TextParts) = {"col", "idx", "fk", "chk"}
        BY TextGoesThrough, PartsGoThrough
    <1> HIDE DEF lines
    <1>4. /\ IsList(lines) /\ IsInjective(lines)
          /\ \A x : x \in ToSet(lines) <=>
                \E k \in Kinds : \E i \in DOMAIN handed[k] : IsBlockLine(x, handed, k, i, TextParts)
        BY <1>1, <1>2, <1>3, ReportFacts
    <1>5. "table" \in Kinds /\ \A p \in {"col", "idx", "fk", "chk"} : p \in PartNames
        BY KindFacts DEF PartNames
    <1>6. ASSUME NEW x, x \in ToSet(lines), ~IsHeading(x) PROVE IsWholeLine(x) \/ IsPartLine(x)
        <2>1. PICK k \in Kinds : \E i \in DOMAIN handed[k] : IsBlockLine(x, handed, k, i, TextParts)
            BY <1>4, <1>6
        <2>2. PICK i \in DOMAIN handed[k] : IsBlockLine(x, handed, k, i, TextParts)
            BY <2>1
        <2>3. CASE x = EntryLine(handed, k, i)
            <3>1. k # "table" \/ handed[k][i].action # "ALTER"
                BY <1>6, <2>3, HeadingsAre
            <3> QED
                BY <2>3, <3>1 DEF IsWholeLine
        <2>4. CASE IsUnder(x, handed, k, i, TextParts)
            <3>1. k = "table"
                BY <2>4 DEF IsUnder
            <3>2. PICK p \in {"col", "idx", "fk", "chk"} : IsItemLine(x, i, p, handed["table"][i].parts[p])
                BY <1>3, <2>4, <3>1 DEF IsUnder
            <3>3. DOMAIN handed["table"][i].parts[p] # {}
                BY <3>2 DEF IsItemLine
            <3>4. handed["table"][i].action = "ALTER"
                BY <1>1, <1>5, <3>1, <3>2, <3>3
            <3>5. i \in DOMAIN handed["table"]
                BY <3>1
            <3> QED
                BY <3>2, <3>4, <3>5, Zenon DEF IsPartLine
        <2> QED
            BY <2>2, <2>3, <2>4 DEF IsBlockLine
    <1>7. ASSUME NEW x, IsWholeLine(x) PROVE x \in ToSet(lines) /\ ~IsHeading(x)
        <2>1. PICK k \in Kinds : \E i \in DOMAIN handed[k] :
                    (k # "table" \/ handed[k][i].action # "ALTER") /\ x = EntryLine(handed, k, i)
            BY <1>7 DEF IsWholeLine
        <2>2. PICK i \in DOMAIN handed[k] :
                    (k # "table" \/ handed[k][i].action # "ALTER") /\ x = EntryLine(handed, k, i)
            BY <2>1
        <2>3. ~IsHeading(x)
            BY <2>2, HeadingsAre
        <2>4. IsBlockLine(x, handed, k, i, TextParts)
            BY <2>2 DEF IsBlockLine
        <2> QED
            BY <1>4, <2>3, <2>4
    <1>8. ASSUME NEW x, IsPartLine(x) PROVE x \in ToSet(lines) /\ ~IsHeading(x)
        <2>1. PICK i \in DOMAIN handed["table"] :
                    \E p \in {"col", "idx", "fk", "chk"} : IsItemLine(x, i, p, handed["table"][i].parts[p])
            BY <1>8 DEF IsPartLine
        <2>2. PICK p \in {"col", "idx", "fk", "chk"} : IsItemLine(x, i, p, handed["table"][i].parts[p])
            BY <2>1
        <2>3. ~IsHeading(x)
            BY <2>2, HeadingsAre
        <2>4. IsUnder(x, handed, "table", i, TextParts)
            BY <1>3, <2>2 DEF IsUnder
        <2>5. IsBlockLine(x, handed, "table", i, TextParts)
            BY <2>4 DEF IsBlockLine
        <2> QED
            BY <1>4, <1>5, <2>3, <2>5
    <1> QED
        BY <1>4, <1>6, <1>7, <1>8 DEF lines

\* The Markdown report leaves out five kinds of objects and the checks.
LEMMA MarkdownLeavesOut ==
    ASSUME IInv, HandedOver,
           NEW x, IsWholeLine(x) \/ IsPartLine(x), x \notin ToSet(FormatDiffAsMarkdown(handed))
    PROVE  \/ x.id[1] \in {"mview", "sequence", "enum", "event", "extension"}
           \/ Len(x.id) = 4 /\ x.id[3] = "chk"
    <1> DEFINE lines == FormatDiffAsMarkdown(handed)
               shown == {"schema", "table", "view", "function", "procedure"}
    <1>1. Reportable(handed)
        BY HandedIsReportable
    <1>2. lines = ReportOf(handed, MarkdownSections, MarkdownParts)
        BY DEF FormatDiffAsMarkdown, ReportOf
    <1>3. /\ GoesThrough(MarkdownSections, Kinds) /\ ToSet(MarkdownSections) = shown
          /\ GoesThrough(MarkdownParts, PartNames) /\ ToSet(MarkdownParts) = {"col", "idx", "fk"}
        BY MarkdownGoesThrough, PartsGoThrough
    <1>4. x \notin ToSet(lines)
        OBVIOUS
    <1> HIDE DEF lines
    <1>5. \A k \in shown : \A i \in DOMAIN handed[k] : ~IsBlockLine(x, handed, k, i, MarkdownParts)
        <2>1. x \in ToSet(lines) <=> \E k \in ToSet(MarkdownSections) :
                    \E i \in DOMAIN handed[k] : IsBlockLine(x, handed, k, i, MarkdownParts)
            BY <1>1, <1>2, <1>3, ReportFacts
        <2> QED
            BY <1>3, <1>4, <2>1
    <1>6. CASE IsWholeLine(x)
        <2>1. PICK k \in Kinds : \E i \in DOMAIN handed[k] : x = EntryLine(handed, k, i)
            BY <1>6 DEF IsWholeLine
        <2>2. PICK i \in DOMAIN handed[k] : x = EntryLine(handed, k, i)
            BY <2>1
        <2>3. IsBlockLine(x, handed, k, i, MarkdownParts)
            BY <2>2 DEF IsBlockLine
        <2>4. k \notin shown
            BY <1>5, <2>3
        <2>5. x.id[1] = k
            BY <2>2, HeadingsAre
        <2>6. k \in {"mview", "sequence", "enum", "event", "extension"}
            BY <2>4, KindFacts
        <2> QED
            BY <2>5, <2>6
    <1>7. CASE IsPartLine(x)
        <2>1. PICK i \in DOMAIN handed["table"] :
                    \E p \in {"col", "idx", "fk", "chk"} : IsItemLine(x, i, p, handed["table"][i].parts[p])
            BY <1>7 DEF IsPartLine
        <2>2. PICK p \in {"col", "idx", "fk", "chk"} : IsItemLine(x, i, p, handed["table"][i].parts[p])
            BY <2>1
        <2>3. p \notin {"col", "idx", "fk"}
            <3>1. SUFFICES ASSUME p \in {"col", "idx", "fk"} PROVE FALSE
                OBVIOUS
            <3>2. IsUnder(x, handed, "table", i, MarkdownParts)
                BY <1>3, <2>2, <3>1 DEF IsUnder
            <3>3. IsBlockLine(x, handed, "table", i, MarkdownParts)
                BY <3>2 DEF IsBlockLine
            <3> QED
                BY <1>5, <3>3
        <2>4. Len(x.id) = 4 /\ x.id[3] = p
            BY <2>2, HeadingsAre
        <2> QED
            BY <2>3, <2>4
    <1> QED
        BY <1>6, <1>7

-----------------------------------------------------------------------------
(***************************************************************************)
(* The planner the proofs are about is the one Migration runs.             *)
(***************************************************************************)
\* The proofs about the planner, of its part of the state.
P == INSTANCE PlannerProofs WITH
    mdiff <- Read, stage <- planStage, at <- planAt, Diffs <- Handable
LEMMA SameDiffs ==
    /\ P!Kinds = Kinds /\ Plan!Kinds = Kinds
    /\ P!Converters = Plan!Converters
    /\ \A s \in 1..10 : Plan!Converters[s] \in Kinds
    /\ P!Change = Plan!Change
    /\ P!ToSet(P!Parts) = {"col", "idx", "fk", "chk"}
    /\ Plan!ToSet(Plan!Parts) = {"col", "idx", "fk", "chk"}
    <1>1. \A s : P!ToSet(s) = Plan!ToSet(s)
        BY DEF P!ToSet, Plan!ToSet
    <1>2. /\ P!Parts = Plan!Parts /\ P!Converters = Plan!Converters
          /\ P!UnplannedParts = Plan!UnplannedParts /\ P!Item = Plan!Item
        BY DEF P!Parts, Plan!Parts, P!Converters, Plan!Converters, P!UnplannedParts,
               Plan!UnplannedParts, P!Item, Plan!Item, P!Actions, Plan!Actions, P!Flags, Plan!Flags
    <1>3. P!Kinds = Plan!Kinds
        BY <1>1, <1>2 DEF P!Kinds, Plan!Kinds
    <1>4. P!Change = Plan!Change
        BY <1>1, <1>2 DEF P!Change, Plan!Change, P!Actions, Plan!Actions, P!Flags, Plan!Flags
    <1> QED
        BY <1>1, <1>2, <1>3, <1>4, PlannerKinds

\* What the proofs about the planner assume of the diffs.
LEMMA HandableFacts ==
    /\ Handable \subseteq [P!Kinds -> Seq(P!Change)]
    /\ \A d \in Handable : \A k \in P!Kinds : \A i \in DOMAIN d[k] :
        /\ <<k, i>> \in Ids
        /\ \A p \in P!ToSet(P!Parts) : \A j \in DOMAIN d[k][i].parts[p] :
               k = "table" => <<k, i, p, j>> \in Ids
    <1>1. Handable \subseteq [P!Kinds -> Seq(P!Change)]
        BY SameDiffs DEF Handable
    <1>2. P!Kinds = Kinds /\ P!ToSet(P!Parts) = {"col", "idx", "fk", "chk"}
        BY SameDiffs
    <1>3. ASSUME NEW d \in Handable
          PROVE  \A k \in Kinds : \A i \in DOMAIN d[k] :
                    /\ <<k, i>> \in Ids
                    /\ \A p \in {"col", "idx", "fk", "chk"} : \A j \in DOMAIN d[k][i].parts[p] :
                           k = "table" => <<k, i, p, j>> \in Ids
        BY Zenon DEF Handable, Numbered
    <1> QED
        BY <1>1, <1>2, <1>3, Zenon

LEMMA SameRating ==
    ASSUME NEW kind \in Kinds \cup {"col", "idx", "fk", "chk"}, NEW x, NEW y,
           y.action = x.action, y.flags = x.flags
    PROVE  P!Rating(kind, y) = Plan!Rating(kind, x)
    <1>1. /\ P!SchemaRating = Plan!SchemaRating /\ P!ExtensionRating = Plan!ExtensionRating
          /\ P!SequenceRating = Plan!SequenceRating /\ P!TableRating = Plan!TableRating
          /\ P!IndexRating = Plan!IndexRating /\ P!ConstraintRating = Plan!ConstraintRating
          /\ P!ViewRating = Plan!ViewRating /\ P!EventRating = Plan!EventRating
          /\ P!MaterializedViewRating = Plan!MaterializedViewRating
          /\ P!RoutineRating = Plan!RoutineRating
        BY DEF P!Rated, Plan!Rated, P!SchemaRating, Plan!SchemaRating,
               P!ExtensionRating, Plan!ExtensionRating, P!SequenceRating, Plan!SequenceRating,
               P!TableRating, Plan!TableRating, P!IndexRating, Plan!IndexRating,
               P!ConstraintRating, Plan!ConstraintRating, P!ViewRating, Plan!ViewRating,
               P!MaterializedViewRating, Plan!MaterializedViewRating,
               P!RoutineRating, Plan!RoutineRating, P!EventRating, Plan!EventRating
    <1>2. \A f : P!EnumRating(f) = Plan!EnumRating(f) /\ P!ColumnRating(f) = Plan!ColumnRating(f)
        BY DEF P!Rated, Plan!Rated, P!EnumRating, Plan!EnumRating, P!ColumnRating, Plan!ColumnRating
    <1>3. \/ kind = "schema" \/ kind = "extension" \/ kind = "enum" \/ kind = "sequence"
          \/ kind = "table" \/ kind = "view" \/ kind = "mview" \/ kind = "function"
          \/ kind = "procedure" \/ kind = "event"
          \/ kind = "col" \/ kind = "idx" \/ kind = "fk" \/ kind = "chk"
        BY KindFacts
    <1> QED
        BY <1>1, <1>2, <1>3 DEF P!Rating, Plan!Rating

LEMMA SameOperation ==
    ASSUME NEW kind \in Kinds \cup {"col", "idx", "fk", "chk"}, NEW x, NEW y,
           y.action = x.action, y.flags = x.flags
    PROVE  \A id, d : P!Operation(id, kind, y, d) = Plan!Operation(id, kind, x, d)
    BY SameRating DEF P!Operation, Plan!Operation

\* A list of a table is converted to the same operations, read or not.
LEMMA SameSubOperations ==
    ASSUME NEW part \in {"col", "idx", "fk", "chk"}, NEW items
    PROVE  \A id : P!SubOperations(id, part, ReadItems(items)) = Plan!SubOperations(id, part, items)
    <1>1. DOMAIN ReadItems(items) = DOMAIN items
        BY DEF ReadItems
    <1>2. ASSUME NEW id, NEW d, NEW j \in DOMAIN items
          PROVE  P!Operation(id, part, ReadItems(items)[j], d) = Plan!Operation(id, part, items[j], d)
        <2>1. ReadItems(items)[j].action = items[j].action /\ ReadItems(items)[j].flags = items[j].flags
            BY DEF ReadItems, ReadItem
        <2> QED
            BY <2>1, SameOperation
    <1> QED
        BY <1>1, <1>2 DEF P!SubOperations, Plan!SubOperations

LEMMA SameConverted ==
    ASSUME NEW k \in Kinds, NEW i, NEW c
    PROVE  P!Converted(k, i, ReadChange(c)) = Plan!Converted(k, i, c)
    <1>1. /\ ReadChange(c).action = c.action /\ ReadChange(c).flags = c.flags
          /\ \A p \in PartNames : ReadChange(c).parts[p] = ReadItems(c.parts[p])
        BY DEF ReadChange
    <1>2. \A id : P!TableSubOperations(id, ReadChange(c)) = Plan!TableSubOperations(id, c)
        BY <1>1, SameSubOperations DEF P!TableSubOperations, Plan!TableSubOperations, PartNames
    <1>3. \A id, d : P!Operation(id, k, ReadChange(c), d) = Plan!Operation(id, k, c, d)
        <2>1. ReadChange(c).action = c.action /\ ReadChange(c).flags = c.flags
            BY <1>1
        <2> QED
            BY <2>1, SameOperation, Zenon
    <1> HIDE DEF ReadChange
    <1> QED
        BY <1>1, <1>2, <1>3 DEF P!Converted, Plan!Converted

LEMMA SameOrdering ==
    ASSUME Read' = Read
    PROVE  Plan!OrderOperations => P!OrderOperations
    BY DEF P!OrderOperations, Plan!OrderOperations, P!Order!Next, Plan!Order!Next,
           P!Order!SkipOperation, Plan!Order!SkipOperation, P!Order!VisitOperation, Plan!Order!VisitOperation,
           P!Order!Circular, Plan!Order!Circular, P!Order!SkipDependency, Plan!Order!SkipDependency,
           P!Order!VisitDependency, Plan!Order!VisitDependency, P!Order!FinishVisit, Plan!Order!FinishVisit,
           P!Order!Return, Plan!Order!Return, P!Order!Looking, Plan!Order!Looking,
           P!Order!NextDep, Plan!Order!NextDep, P!Order!Top, Plan!Order!Top,
           P!Order!Iterated, Plan!Order!Iterated, P!Order!Ops, Plan!Order!Ops,
           P!Order!input, Plan!Order!input, P!Order!search, Plan!Order!search,
           P!Order!ToSet, Plan!Order!ToSet, P!ToSet, Plan!ToSet,
           P!OpIds, Plan!OpIds, P!OpDependencies, Plan!OpDependencies

\* A step of the planner is one of the planner the proofs are about.
LEMMA PlanStepIsStep ==
    ASSUME HandedTyped, planStage \in 1..11, planAt \in Nat \ {0}, PlanStep
    PROVE  P!Next /\ UNCHANGED <<handed, vars>>
    <1>1. UNCHANGED <<handed, vars>>
        BY DEF PlanStep, Plan!ConvertChange, Plan!PanicOnDrop, Plan!NextConverter,
               Plan!OrderOperations, Plan!OrderingReturns, Plan!CategorizeRisk, Plan!ReturnStrategy
    <1>2. Read' = Read
        BY <1>1 DEF Read
    <1>3. P!search' = P!search <=> Plan!search' = Plan!search
        BY DEF P!search, Plan!search
    <1>4. P!Converting <=> Plan!Converting
        BY SameDiffs DEF P!Converting, Plan!Converting
    <1>5. ASSUME Plan!Converting
          PROVE  /\ Len(P!CurrentList) = Len(Plan!CurrentList) /\ Len(Plan!CurrentList) \in Nat
                 /\ planAt <= Len(Plan!CurrentList) =>
                        /\ P!Converted(P!Converters[planStage], planAt, P!CurrentList[planAt])
                             = Plan!Converted(Plan!Converters[planStage], planAt, Plan!CurrentList[planAt])
                        /\ P!NamesMissingObject <=> Plan!NamesMissingObject
        <2> DEFINE k == Plan!Converters[planStage]
        <2>1. planStage \in 1..10
            <3>1. Len(Plan!Converters) = 10
                BY DEF Plan!Converters
            <3> QED
                BY <1>5, <3>1 DEF Plan!Converting
        <2>2. k \in Kinds /\ P!Converters[planStage] = k
            BY <2>1, SameDiffs
        <2>3. Plan!CurrentList = handed[k] /\ P!CurrentList = Read[k]
            BY <2>2 DEF P!CurrentList, Plan!CurrentList
        <2>4. P!NamesMissingObject <=>
                k \in {"sequence", "function", "procedure", "event"} /\ Read[k][planAt].action = "DROP"
            BY <2>2, <2>3 DEF P!NamesMissingObject
        <2>5. Plan!NamesMissingObject <=>
                k \in {"sequence", "function", "procedure", "event"} /\ handed[k][planAt].action = "DROP"
            BY <2>3 DEF Plan!NamesMissingObject
        <2> HIDE DEF k
        <2>6. planAt <= Len(handed[k]) => planAt \in DOMAIN handed[k]
            BY <2>2, ReadLists
        <2>7. planAt \in DOMAIN handed[k] =>
                P!Converted(k, planAt, Read[k][planAt]) = Plan!Converted(k, planAt, handed[k][planAt])
            <3>1. k \in Kinds
                BY <2>2
            <3>2. planAt \in DOMAIN handed[k] => Read[k][planAt] = ReadChange(handed[k][planAt])
                BY <3>1, ReadLists
            <3>3. P!Converted(k, planAt, ReadChange(handed[k][planAt]))
                    = Plan!Converted(k, planAt, handed[k][planAt])
                BY <3>1, SameConverted
            <3> QED
                BY <3>2, <3>3
        <2>8. P!Converted(P!Converters[planStage], planAt, P!CurrentList[planAt])
                = P!Converted(k, planAt, Read[k][planAt])
            BY <2>2, <2>3
        <2>9. Plan!Converted(Plan!Converters[planStage], planAt, Plan!CurrentList[planAt])
                = Plan!Converted(k, planAt, handed[k][planAt])
            BY <2>3 DEF k
        <2> QED
            BY <2>2, <2>3, <2>4, <2>5, <2>6, <2>7, <2>8, <2>9, ReadLists
    <1>6. CASE Plan!ConvertChange
        <2>1. Plan!Converting
            BY <1>6 DEF Plan!ConvertChange
        <2> QED
            BY <1>2, <1>3, <1>4, <1>5, <1>6, <2>1, <1>1 DEF Plan!ConvertChange, P!ConvertChange, P!Next
    <1>7. CASE Plan!PanicOnDrop
        <2>1. Plan!Converting
            BY <1>7 DEF Plan!PanicOnDrop
        <2> QED
            BY <1>2, <1>3, <1>4, <1>5, <1>7, <2>1, <1>1 DEF Plan!PanicOnDrop, P!PanicOnDrop, P!Next
    <1>8. CASE Plan!NextConverter
        <2>1. Plan!Converting
            BY <1>8 DEF Plan!NextConverter
        <2> QED
            BY <1>2, <1>3, <1>4, <1>5, <1>8, <2>1, <1>1, SameDiffs DEF Plan!NextConverter, P!NextConverter, P!Next
    <1>9. CASE Plan!OrderOperations
        BY <1>1, <1>2, <1>9, SameOrdering DEF P!Next
    <1>10. CASE Plan!OrderingReturns
        BY <1>1, <1>2, <1>3, <1>10 DEF Plan!OrderingReturns, P!OrderingReturns, P!Next
    <1>11. CASE Plan!CategorizeRisk
        BY <1>1, <1>2, <1>3, <1>11 DEF Plan!CategorizeRisk, P!CategorizeRisk, P!Next
    <1>12. CASE Plan!ReturnStrategy
        BY <1>1, <1>2, <1>3, <1>12 DEF Plan!ReturnStrategy, P!ReturnStrategy, P!Next
    <1> QED
        BY <1>1, <1>6, <1>7, <1>8, <1>9, <1>10, <1>11, <1>12 DEF PlanStep

-----------------------------------------------------------------------------
(***************************************************************************)
(* The invariant: the comparison's, and from the moment the planner is     *)
(* called the planner's, of a diff that is the result of the comparison.   *)
(***************************************************************************)
NotPlanned ==
    /\ outcome = "comparing"
    /\ planStage = 1 /\ planAt = 1 /\ operations = <<>> /\ highRiskOps = <<>>
    /\ dataLossOps = <<>> /\ reviewed = <<>>
    /\ pos = 1 /\ visited = {} /\ tempMark = {} /\ stack = <<>>
    /\ cursor = [id \in Ids |-> 1] /\ ordered = <<>> /\ ordering = "running"
Planning == HandedOver /\ P!IInv
MigrationInv == IInv /\ (NotPlanned \/ Planning)

LEMMA PlanningInitially == P!Init => P!IInv
    BY HandableFacts, P!EmittedInitially, P!SearchInitially, P!RiskInitially, P!NamedInitially DEF P!IInv

LEMMA PlanningKept == P!IInv /\ [P!Next]_(P!vars) => P!IInv'
    BY HandableFacts, P!EmittedKept, P!SearchKept, P!RiskKept, P!NamedKept, Zenon DEF P!IInv

LEMMA MigrationInitially == MigrationInit => MigrationInv
    BY InitIsInv DEF MigrationInit, MigrationInv, NotPlanned

LEMMA ByAnalyzeStrategy ==
    ASSUME MigrationInv, AnalyzeStrategy
    PROVE  MigrationInv'
    <1>1. IInv /\ NotPlanned /\ phase = "done" /\ UNCHANGED vars
        BY DEF MigrationInv, Planning, HandedOver, P!IInv, P!EmittedInv, AnalyzeStrategy
    <1>2. IInv'
        BY <1>1, NextKeeps
    <1>3. Handed'
        <2>1. HandedAs(handed')
            BY <1>1, ResultIsHanded
        <2>2. HandedAs(handed)' <=> HandedAs(handed')
            BY <1>1, SameHanded
        <2> QED
            BY <2>1, <2>2 DEF Handed
    <1>4. phase' = "done"
        BY <1>1 DEF vars
    <1>5. (IInv /\ HandedOver => Read \in Handable)'
        BY ReadIsHandable, PTL
    <1>6. P!Init'
        <2>1. Read' \in Handable
            BY <1>2, <1>3, <1>4, <1>5 DEF HandedOver
        <2>2. /\ outcome' = "converting"
              /\ UNCHANGED <<planStage, planAt, operations, highRiskOps, dataLossOps, reviewed,
                             pos, visited, tempMark, stack, cursor, ordered, ordering>>
            BY DEF AnalyzeStrategy
        <2> QED
            BY <1>1, <2>1, <2>2 DEF P!Init, NotPlanned
    <1>7. P!IInv'
        <2>1. (P!Init => P!IInv)'
            BY PlanningInitially, PTL
        <2> QED
            BY <1>6, <2>1
    <1> QED
        BY <1>2, <1>3, <1>4, <1>7 DEF MigrationInv, Planning, HandedOver

LEMMA ByPlanStep ==
    ASSUME MigrationInv, PlanStep
    PROVE  MigrationInv'
    <1>1. outcome # "comparing"
        BY DEF PlanStep, Plan!ConvertChange, Plan!PanicOnDrop, Plan!NextConverter, Plan!Converting,
               Plan!OrderOperations, Plan!OrderingReturns, Plan!CategorizeRisk, Plan!ReturnStrategy
    <1>2. IInv /\ phase = "done" /\ Handed /\ P!IInv
        BY <1>1 DEF MigrationInv, NotPlanned, Planning, HandedOver
    <1>3. HandedTyped /\ planStage \in 1..11 /\ planAt \in Nat \ {0}
        BY <1>2, HandedForms DEF P!IInv, P!EmittedInv
    <1>4. P!Next /\ UNCHANGED <<handed, vars>>
        BY <1>3, PlanStepIsStep
    <1>5. P!IInv'
        BY <1>2, <1>4, PlanningKept
    <1>6. IInv' /\ phase' = "done"
        BY <1>2, <1>4, NextKeeps DEF vars
    <1>7. Handed'
        <2>1. HandedAs(handed)' <=> HandedAs(handed')
            BY <1>4, SameHanded
        <2> QED
            BY <1>2, <1>4, <2>1 DEF Handed
    <1> QED
        BY <1>5, <1>6, <1>7 DEF MigrationInv, Planning, HandedOver

LEMMA ByOthers ==
    ASSUME MigrationInv, CompareStep \/ UNCHANGED migrationVars
    PROVE  MigrationInv'
    <1>1. IInv' /\ UNCHANGED <<handed, planVars>>
        BY NextKeeps DEF MigrationInv, CompareStep, migrationVars
    <1>2. CASE NotPlanned
        BY <1>1, <1>2 DEF MigrationInv, NotPlanned, planVars
    <1>3. CASE Planning
        <2>1. UNCHANGED vars
            BY <1>3, NothingAfterDone DEF Planning, HandedOver, CompareStep, migrationVars
        <2>2. Handed' /\ phase' = "done"
            <3>1. HandedAs(handed)' <=> HandedAs(handed')
                BY <2>1, SameHanded
            <3> QED
                BY <1>1, <1>3, <2>1, <3>1 DEF Handed, Planning, HandedOver, vars
        <2>3. UNCHANGED P!vars
            BY <1>1 DEF planVars, Read, P!vars, P!search
        <2>4. P!IInv'
            BY <1>3, <2>3, PlanningKept DEF Planning, HandedOver
        <2> QED
            BY <1>1, <2>2, <2>4 DEF MigrationInv, Planning, HandedOver
    <1> QED
        BY <1>2, <1>3 DEF MigrationInv

LEMMA MigrationHolds == MigrationSpec => []MigrationInv
    <1>1. MigrationInv /\ [MigrationNext]_migrationVars => MigrationInv'
        BY ByAnalyzeStrategy, ByPlanStep, ByOthers DEF MigrationNext
    <1> QED
        BY <1>1, MigrationInitially, PTL DEF MigrationSpec

-----------------------------------------------------------------------------
(***************************************************************************)
(* When there is a plan, what it does, and what the reports show of it.    *)
(***************************************************************************)
\* The planner passes every entry unless it meets one it cannot name.
LEMMA PlannedUnlessNameless ==
    ASSUME IInv, Planning, outcome \in {"planned", "failed", "panic"}
    PROVE  outcome = "planned" <=>
                \A k \in NamelessKinds : \A e \in ToSet(mdiff[k]) : e.action # "DROP"
    <1>1. /\ P!EmittedInv /\ P!SearchInv /\ P!NamedInv
          /\ IInv /\ phase = "done" /\ Handed
        BY DEF Planning, HandedOver, P!IInv
    <1>2. outcome \in {"planned", "panic"} /\ (outcome = "planned" => planStage = 11)
        BY <1>1 DEF P!EmittedInv, P!SearchInv
    <1>3. /\ HandedTyped
          /\ \A k \in Kinds : \A i \in DOMAIN mdiff[k] : FormOf(k, mdiff[k][i], handed[k][i])
        BY <1>1, HandedForms
    <1>4. ASSUME NEW k \in Kinds
          PROVE  /\ DOMAIN Read[k] = DOMAIN mdiff[k]
                 /\ \A i \in DOMAIN mdiff[k] : Read[k][i].action = mdiff[k][i].action
        <2>1. DOMAIN handed[k] = DOMAIN mdiff[k]
            BY <1>1 DEF Handed, HandedAs
        <2>2. DOMAIN Read[k] = DOMAIN handed[k] /\ \A i \in DOMAIN handed[k] : Read[k][i].action = handed[k][i].action
            BY <1>3, ReadLists
        <2>3. \A i \in DOMAIN mdiff[k] : handed[k][i].action = mdiff[k][i].action
            BY <1>3 DEF FormOf
        <2> QED
            BY <2>1, <2>2, <2>3
    <1>5. \A s \in 1..10 : P!Converters[s] \in Kinds /\ P!List(s) = Read[P!Converters[s]]
        BY SameDiffs DEF P!List
    <1>6. ASSUME outcome = "planned", NEW k \in NamelessKinds, NEW e \in ToSet(mdiff[k])
          PROVE  e.action # "DROP"
        <2>1. k \in Kinds
            BY KindFacts DEF NamelessKinds
        <2>2. PICK s \in 1..10 : P!Converters[s] = k
            BY <2>1, SameDiffs, P!KindsAre, HandableFacts
        <2>3. PICK i \in DOMAIN mdiff[k] : e = mdiff[k][i]
            BY DEF ToSet
        <2>4. P!List(s) = Read[k] /\ i \in DOMAIN Read[k] /\ Read[k][i].action = e.action
            BY <1>4, <1>5, <2>1, <2>2, <2>3
        <2>5. P!Past(s, i)
            BY <1>2, <1>6, <2>2 DEF P!Past
        <2>6. ~P!Unnamed(s, i)
            BY <1>1, <2>2, <2>4, <2>5 DEF P!NamedInv, P!Stages
        <2> QED
            BY <2>2, <2>4, <2>6 DEF P!Unnamed, NamelessKinds
    <1>7. ASSUME outcome = "panic"
          PROVE  \E k \in NamelessKinds : \E e \in ToSet(mdiff[k]) : e.action = "DROP"
        <2>1. planStage \in 1..10 /\ planAt \in DOMAIN P!List(planStage) /\ P!Unnamed(planStage, planAt)
            BY <1>1, <1>7 DEF P!NamedInv, P!Stages
        <2> DEFINE k == P!Converters[planStage]
        <2>2. k \in Kinds /\ P!List(planStage) = Read[k] /\ k \in NamelessKinds
            BY <1>5, <2>1 DEF P!Unnamed, NamelessKinds
        <2>3. planAt \in DOMAIN Read[k] /\ Read[k][planAt].action = "DROP"
            BY <2>1, <2>2 DEF P!Unnamed
        <2> HIDE DEF k
        <2>4. planAt \in DOMAIN mdiff[k] /\ mdiff[k][planAt].action = "DROP"
            BY <1>4, <2>2, <2>3
        <2> QED
            BY <2>2, <2>4 DEF ToSet
    <1> QED
        BY <1>2, <1>6, <1>7

\* For all databases: AnalyzeStrategy returns a plan of their differences unless a
\* sequence, function, procedure or event is dropped from a schema that both have, and
\* panics then; it never fails (compare.go 87-92, strategy.go 224-603).
THEOREM PlansExist == MigrationSpec => []PlannedUnlessDropped
    <1>1. MigrationInv => PlannedUnlessDropped
        <2> SUFFICES ASSUME MigrationInv, outcome \in {"planned", "failed", "panic"}
                     PROVE  outcome = "planned" <=>
                                \A i \in DOMAIN old : \A n \in Found(new, old[i].name) :
                                    \A k \in NamelessKinds : \A o \in ToSet(old[i].lists[k]) :
                                        \E m \in ToSet(n.lists[k]) : Key(k, m) = Key(k, o)
            BY DEF PlannedUnlessDropped, NamelessKinds
        <2>1. IInv /\ Planning /\ phase = "done"
            BY DEF MigrationInv, NotPlanned, Planning, HandedOver
        <2>2. outcome = "planned" <=>
                \A k \in NamelessKinds : \A e \in ToSet(mdiff[k]) : e.action # "DROP"
            BY <2>1, PlannedUnlessNameless
        <2>3. \A k \in NamelessKinds :
                (\A e \in ToSet(mdiff[k]) : e.action # "DROP")
                <=> \A i \in DOMAIN old : \A n \in Found(new, old[i].name) :
                        \A o \in ToSet(old[i].lists[k]) :
                            \E m \in ToSet(n.lists[k]) : Key(k, m) = Key(k, o)
            BY <2>1, DroppedEntries
        <2> QED
            BY <2>2, <2>3
    <1> QED
        BY <1>1, MigrationHolds, PTL
LEMMA PlannedIs ==
    ASSUME IInv, Planning, outcome = "planned"
    PROVE  PlannedExactly
    <1>1. /\ P!IInv /\ IInv /\ phase = "done" /\ Handed
        BY DEF Planning, HandedOver
    <1>2. ToSet(ordered) = {r.id : r \in P!Requested}
        <2>1. P!PlanIsExact
            BY <1>1, HandableFacts, P!InvariantIsExact
        <2>2. P!ToSet(ordered) = ToSet(ordered)
            BY DEF P!ToSet, ToSet
        <2> QED
            BY <2>1, <2>2 DEF P!PlanIsExact
    <1>3. /\ HandedTyped
          /\ \A k \in Kinds : \A i \in DOMAIN mdiff[k] : FormOf(k, mdiff[k][i], handed[k][i])
        BY <1>1, HandedForms
    <1>4. ASSUME NEW k \in Kinds
          PROVE  /\ DOMAIN Read[k] = DOMAIN mdiff[k] /\ DOMAIN handed[k] = DOMAIN mdiff[k]
                 /\ \A i \in DOMAIN mdiff[k] :
                        /\ Read[k][i].action = mdiff[k][i].action
                        /\ \A p \in PartNames : DOMAIN Read[k][i].parts[p] = DOMAIN handed[k][i].parts[p]
        <2>1. DOMAIN handed[k] = DOMAIN mdiff[k]
            BY <1>1 DEF Handed, HandedAs
        <2>2. \A c : \A p \in PartNames : DOMAIN ReadChange(c).parts[p] = DOMAIN c.parts[p]
            BY DEF ReadChange, ReadItems
        <2>3. DOMAIN Read[k] = DOMAIN mdiff[k]
            BY <1>3, <2>1, ReadLists
        <2>4. ASSUME NEW i \in DOMAIN mdiff[k]
              PROVE  /\ Read[k][i].action = mdiff[k][i].action
                     /\ \A p \in PartNames : DOMAIN Read[k][i].parts[p] = DOMAIN handed[k][i].parts[p]
            <3>1. Read[k][i] = ReadChange(handed[k][i]) /\ Read[k][i].action = handed[k][i].action
                BY <1>3, <2>1, ReadLists
            <3>2. handed[k][i].action = mdiff[k][i].action
                BY <1>3 DEF FormOf
            <3> QED
                BY <2>2, <3>1, <3>2
        <2> QED
            BY <2>1, <2>3, <2>4
    <1> DEFINE Whole == UNION {{[id |-> <<k, i>>, action |-> Read[k][i].action] :
                    i \in {i \in DOMAIN Read[k] : k # "table" \/ Read[k][i].action # "ALTER"}} :
                    k \in Kinds}
               InParts == UNION {UNION {{[id |-> <<"table", i, p, j>>,
                                          action |-> Read["table"][i].parts[p][j].action] :
                                    j \in DOMAIN Read["table"][i].parts[p]} :
                                p \in {p \in {"col", "idx", "fk", "chk"} : Read["table"][i].action = "ALTER"}} :
                            i \in DOMAIN Read["table"]}
    <1>5. P!Requested = Whole \cup InParts
        BY SameDiffs DEF P!Requested
    <1>6. \A id : (\E r \in Whole : id = r.id) <=>
            \E k \in Kinds : \E i \in DOMAIN Read[k] :
                (k # "table" \/ Read[k][i].action # "ALTER") /\ id = <<k, i>>
        <2> SUFFICES ASSUME NEW id
                     PROVE  (\E r \in Whole : id = r.id) <=>
                                \E k \in Kinds : \E i \in DOMAIN Read[k] :
                                    (k # "table" \/ Read[k][i].action # "ALTER") /\ id = <<k, i>>
            OBVIOUS
        <2>1. ASSUME NEW r \in Whole
              PROVE  \E k \in Kinds : \E i \in DOMAIN Read[k] :
                        (k # "table" \/ Read[k][i].action # "ALTER") /\ r.id = <<k, i>>
            OBVIOUS
        <2>2. ASSUME NEW k \in Kinds, NEW i \in DOMAIN Read[k], k # "table" \/ Read[k][i].action # "ALTER"
              PROVE  \E r \in Whole : <<k, i>> = r.id
            <3> DEFINE r == [id |-> <<k, i>>, action |-> Read[k][i].action]
            <3>1. r \in Whole
                BY <2>2
            <3>2. r.id = <<k, i>>
                OBVIOUS
            <3> HIDE DEF Whole, r
            <3> QED
                BY <3>1, <3>2
        <2> HIDE DEF Whole
        <2> QED
            BY <2>1, <2>2
    <1>7. \A id : (\E r \in InParts : id = r.id) <=>
            \E i \in DOMAIN Read["table"] : Read["table"][i].action = "ALTER" /\
                \E p \in {"col", "idx", "fk", "chk"} : \E j \in DOMAIN Read["table"][i].parts[p] :
                    id = <<"table", i, p, j>>
        <2> DEFINE Names(id) ==
                        \E i \in DOMAIN Read["table"] : Read["table"][i].action = "ALTER" /\
                            \E p \in {"col", "idx", "fk", "chk"} : \E j \in DOMAIN Read["table"][i].parts[p] :
                                id = <<"table", i, p, j>>
        <2> SUFFICES ASSUME NEW id
                     PROVE  (\E r \in InParts : id = r.id) <=> Names(id)
            OBVIOUS
        <2>1. ASSUME NEW r \in InParts PROVE Names(r.id)
            OBVIOUS
        <2>2. ASSUME Names(id) PROVE \E r \in InParts : id = r.id
            <3>1. PICK i \in DOMAIN Read["table"], p \in {"col", "idx", "fk", "chk"} :
                        /\ Read["table"][i].action = "ALTER"
                        /\ \E j \in DOMAIN Read["table"][i].parts[p] : id = <<"table", i, p, j>>
                BY <2>2
            <3>2. PICK j \in DOMAIN Read["table"][i].parts[p] : id = <<"table", i, p, j>>
                BY <3>1
            <3> DEFINE r == [id |-> <<"table", i, p, j>>, action |-> Read["table"][i].parts[p][j].action]
            <3>3. r \in InParts
                BY <3>1
            <3>4. r.id = id
                BY <3>2
            <3> HIDE DEF InParts, r
            <3> QED
                BY <3>3, <3>4
        <2> HIDE DEF InParts, Names
        <2> QED
            BY <2>1, <2>2
    <1>8. \A id : Planned(id) <=> (\E r \in Whole : id = r.id) \/ (\E r \in InParts : id = r.id)
        <2> HIDE DEF Whole, InParts
        <2> QED
            BY <1>2, <1>5 DEF Planned
    <1> HIDE DEF Whole, InParts
    <1>9. ASSUME NEW k \in Kinds, NEW i \in DOMAIN mdiff[k]
          PROVE  Planned(<<k, i>>) <=> ~(k = "table" /\ mdiff[k][i].action = "ALTER")
        <2>1. ~(\E r \in InParts : <<k, i>> = r.id)
            BY <1>7, IdentifiersDiffer
        <2>2. (\E r \in Whole : <<k, i>> = r.id) <=> ~(k = "table" /\ mdiff[k][i].action = "ALTER")
            <3>1. (\E r \in Whole : <<k, i>> = r.id) <=>
                    \E l \in Kinds : \E m \in DOMAIN Read[l] :
                        (l # "table" \/ Read[l][m].action # "ALTER") /\ <<k, i>> = <<l, m>>
                BY <1>6, Zenon
            <3>2. \A l, m : <<k, i>> = <<l, m>> => k = l /\ i = m
                OBVIOUS
            <3>3. i \in DOMAIN Read[k] /\ Read[k][i].action = mdiff[k][i].action
                BY <1>4
            <3>4. (\E r \in Whole : <<k, i>> = r.id) <=> (k # "table" \/ Read[k][i].action # "ALTER")
                BY <3>1, <3>2, <3>3, Zenon
            <3> QED
                BY <3>3, <3>4
        <2> QED
            BY <1>8, <2>1, <2>2
    <1>10. ASSUME NEW i \in DOMAIN mdiff["table"], mdiff["table"][i].action = "ALTER",
                  NEW p \in PartNames, NEW j \in DOMAIN handed["table"][i].parts[p]
           PROVE  Planned(<<"table", i, p, j>>) <=> p \in {"col", "idx", "fk", "chk"}
        <2>1. ~(\E r \in Whole : <<"table", i, p, j>> = r.id)
            BY <1>6, IdentifiersDiffer
        <2>2. "table" \in Kinds
            BY KindFacts
        <2>3. (\E r \in InParts : <<"table", i, p, j>> = r.id) <=> p \in {"col", "idx", "fk", "chk"}
            <3>1. (\E r \in InParts : <<"table", i, p, j>> = r.id) <=>
                    \E m \in DOMAIN Read["table"] : Read["table"][m].action = "ALTER" /\
                        \E q \in {"col", "idx", "fk", "chk"} : \E l \in DOMAIN Read["table"][m].parts[q] :
                            <<"table", i, p, j>> = <<"table", m, q, l>>
                BY <1>7, Zenon
            <3>2. \A m, q, l : <<"table", i, p, j>> = <<"table", m, q, l>> => i = m /\ p = q /\ j = l
                OBVIOUS
            <3>3. /\ i \in DOMAIN Read["table"] /\ Read["table"][i].action = "ALTER"
                  /\ j \in DOMAIN Read["table"][i].parts[p]
                BY <1>4, <1>10, <2>2
            <3> QED
                BY <3>1, <3>2, <3>3, Zenon
        <2> QED
            BY <1>8, <2>1, <2>3
    <1> QED
        BY <1>9, <1>10 DEF PlannedExactly

\* For all databases, and whatever the order in which the maps are ranged over and the
\* operations come out: a plan that is carried out turns the old database into the new one,
\* but for all overloads of a procedure before the last, and for what no operation is made
\* of, which is the primary keys, unique indexes, triggers, partitions, rules and properties
\* of an altered table and whatever a new schema holds besides tables (compare.go 127-139,
\* 886-950, strategy.go 297-441).
THEOREM PlansReconcile == MigrationSpec => []PlanReconciles
    <1>1. MigrationInv => PlanReconciles
        <2> SUFFICES ASSUME MigrationInv, outcome = "planned",
                            NEW j \in DOMAIN new, NEW k \in ToSet(ObjectKinds)
                     PROVE  /\ \A o \in Found(old, new[j].name) :
                                AfterPlan(k, SchemaNamed(k, o), o.lists[k]) =
                                    IF k = "table" THEN MidwayTables(o.lists[k], new[j].lists[k])
                                    ELSE Reconciled(k, o.lists[k], new[j].lists[k])
                            /\ Found(old, new[j].name) = {} /\ k # "event" =>
                                AfterPlan(k, new[j].name, <<>>) =
                                    IF k = "table" THEN ListContents(k, new[j].lists[k]) ELSE {}
            BY DEF PlanReconciles
        <2>1. IInv /\ HandedOver /\ PlannedExactly
            BY PlannedIs DEF MigrationInv, NotPlanned, Planning
        <2>2. ASSUME NEW o \in Found(old, new[j].name)
              PROVE  AfterPlan(k, SchemaNamed(k, o), o.lists[k]) =
                        IF k = "table" THEN MidwayTables(o.lists[k], new[j].lists[k])
                        ELSE Reconciled(k, o.lists[k], new[j].lists[k])
            <3>1. PICK i \in DOMAIN old : o = old[i] /\ old[i].name = new[j].name
                BY DEF Found
            <3> QED
                BY <2>1, <3>1, PlanOfShared
        <2>3. ASSUME Found(old, new[j].name) = {}, k # "event"
              PROVE  AfterPlan(k, new[j].name, <<>>) =
                        IF k = "table" THEN ListContents(k, new[j].lists[k]) ELSE {}
            <3>1. CASE k = "table"
                BY <2>1, <2>3, <3>1, TablesOfAdded
            <3>2. CASE k # "table"
                BY <2>1, <2>3, <3>2, ObjectsOfAdded
            <3> QED
                BY <3>1, <3>2
        <2> QED
            BY <2>2, <2>3
    <1> QED
        BY <1>1, MigrationHolds, PTL

\* The lines of the operations.
LEMMA LinesOfPlan ==
    ASSUME IInv, Planning, outcome = "planned", NEW x
    PROVE  x \in {Line(operations[n].id, operations[n].action) : n \in DOMAIN operations}
            <=> IsWholeLine(x) \/ IsPartLine(x)
    <1>1. P!IInv /\ HandedTyped
        BY HandedIsReportable DEF Planning, HandedOver
    <1>2. P!PlanIsExact
        BY <1>1, HandableFacts, P!InvariantIsExact
    <1>3. \A id, action : Line(id, action) = [id |-> id, action |-> action]
        BY DEF Line
    <1>4. {Line(operations[n].id, operations[n].action) : n \in DOMAIN operations} = P!Requested
        BY <1>2, <1>3 DEF P!PlanIsExact
    <1> DEFINE Whole == UNION {{[id |-> <<k, i>>, action |-> Read[k][i].action] :
                    i \in {i \in DOMAIN Read[k] : k # "table" \/ Read[k][i].action # "ALTER"}} :
                    k \in Kinds}
               InParts == UNION {UNION {{[id |-> <<"table", i, p, j>>,
                                          action |-> Read["table"][i].parts[p][j].action] :
                                    j \in DOMAIN Read["table"][i].parts[p]} :
                                p \in {p \in {"col", "idx", "fk", "chk"} : Read["table"][i].action = "ALTER"}} :
                            i \in DOMAIN Read["table"]}
    <1>5. P!Requested = Whole \cup InParts
        BY SameDiffs DEF P!Requested
    <1>6. \A k \in Kinds : DOMAIN Read[k] = DOMAIN handed[k] /\
            \A i \in DOMAIN handed[k] : /\ Read[k][i] = ReadChange(handed[k][i])
                                        /\ Read[k][i].action = handed[k][i].action
        BY <1>1, ReadLists
    <1>7. x \in Whole <=> IsWholeLine(x)
        <2>1. x \in Whole <=> \E k \in Kinds : \E i \in DOMAIN Read[k] :
                    (k # "table" \/ Read[k][i].action # "ALTER")
                        /\ x = [id |-> <<k, i>>, action |-> Read[k][i].action]
            OBVIOUS
        <2> HIDE DEF Whole
        <2>2. \A k, i : EntryLine(handed, k, i) = [id |-> <<k, i>>, action |-> handed[k][i].action]
            BY <1>3 DEF EntryLine
        <2>3. ASSUME NEW k \in Kinds, NEW i \in DOMAIN handed[k]
              PROVE  (k # "table" \/ Read[k][i].action # "ALTER")
                            /\ x = [id |-> <<k, i>>, action |-> Read[k][i].action]
                     <=> (k # "table" \/ handed[k][i].action # "ALTER") /\ x = EntryLine(handed, k, i)
            <3>1. Read[k][i].action = handed[k][i].action
                BY <1>6
            <3>2. EntryLine(handed, k, i) = [id |-> <<k, i>>, action |-> Read[k][i].action]
                BY <2>2, <3>1
            <3> QED
                BY <3>1, <3>2
        <2> QED
            <3>1. IsWholeLine(x) <=> \E k \in Kinds : \E i \in DOMAIN handed[k] :
                        (k # "table" \/ handed[k][i].action # "ALTER") /\ x = EntryLine(handed, k, i)
                BY DEF IsWholeLine
            <3>2. \A k \in Kinds : DOMAIN Read[k] = DOMAIN handed[k]
                BY <1>6
            <3> QED
                BY ONLY <2>1, <2>3, <3>1, <3>2, Zenon
    <1>8. x \in InParts <=> IsPartLine(x)
        <2>1. x \in InParts <=> \E i \in DOMAIN Read["table"] :
                    \E p \in {p \in {"col", "idx", "fk", "chk"} : Read["table"][i].action = "ALTER"} :
                        \E j \in DOMAIN Read["table"][i].parts[p] :
                            x = [id |-> <<"table", i, p, j>>, action |-> Read["table"][i].parts[p][j].action]
            OBVIOUS
        <2> HIDE DEF InParts
        <2>2. "table" \in Kinds
            BY KindFacts
        <2> DEFINE parts == {"col", "idx", "fk", "chk"}
                   Is(i, p) == \E j \in DOMAIN Read["table"][i].parts[p] :
                        x = [id |-> <<"table", i, p, j>>, action |-> Read["table"][i].parts[p][j].action]
        <2>3. ASSUME NEW i \in DOMAIN handed["table"], NEW p \in parts
              PROVE  Is(i, p) <=> IsItemLine(x, i, p, handed["table"][i].parts[p])
            <3> DEFINE items == handed["table"][i].parts[p]
            <3>1. Read["table"][i] = ReadChange(handed["table"][i])
                BY <1>6, <2>2
            <3>2. Read["table"][i].parts[p] = ReadItems(items)
                BY <2>3, <3>1 DEF ReadChange, PartNames
            <3> HIDE DEF items
            <3>3. DOMAIN ReadItems(items) = DOMAIN items
                  /\ \A j \in DOMAIN items : ReadItems(items)[j].action = items[j].action
                BY DEF ReadItems, ReadItem
            <3>4. \A j : Line(<<"table", i, p, j>>, items[j].action)
                            = [id |-> <<"table", i, p, j>>, action |-> items[j].action]
                BY <1>3
            <3>5. (\E j \in DOMAIN ReadItems(items) :
                        x = [id |-> <<"table", i, p, j>>, action |-> ReadItems(items)[j].action])
                    <=> IsItemLine(x, i, p, items)
                BY <3>3, <3>4, Zenon DEF IsItemLine
            <3> QED
                BY <3>2, <3>5, Zenon DEF items
        <2>4. DOMAIN Read["table"] = DOMAIN handed["table"]
              /\ \A i \in DOMAIN handed["table"] : Read["table"][i].action = handed["table"][i].action
            BY <1>6, <2>2
        <2>5. x \in InParts <=> \E i \in DOMAIN Read["table"] : Read["table"][i].action = "ALTER" /\
                    \E p \in {"col", "idx", "fk", "chk"} :
                        \E j \in DOMAIN Read["table"][i].parts[p] :
                            x = [id |-> <<"table", i, p, j>>, action |-> Read["table"][i].parts[p][j].action]
            BY <2>1
        <2>6. IsPartLine(x) <=> \E i \in DOMAIN handed["table"] : handed["table"][i].action = "ALTER" /\
                    \E p \in {"col", "idx", "fk", "chk"} : IsItemLine(x, i, p, handed["table"][i].parts[p])
            BY Zenon DEF IsPartLine
        <2>7. x \in InParts <=> \E i \in DOMAIN Read["table"] : Read["table"][i].action = "ALTER" /\
                    \E p \in parts : Is(i, p)
            BY <2>5
        <2>8. IsPartLine(x) <=> \E i \in DOMAIN handed["table"] : handed["table"][i].action = "ALTER" /\
                    \E p \in parts : IsItemLine(x, i, p, handed["table"][i].parts[p])
            BY <2>6
        <2> HIDE DEF Is, parts
        <2>9. \A i \in DOMAIN handed["table"] : \A p \in parts :
                    Is(i, p) <=> IsItemLine(x, i, p, handed["table"][i].parts[p])
            BY <2>3
        <2> QED
            BY ONLY <2>4, <2>7, <2>8, <2>9
    <1> HIDE DEF Whole, InParts
    <1> QED
        BY <1>4, <1>5, <1>7, <1>8
\* For all databases, and whatever the order in which the maps are ranged over: the text
\* report on a diff has the operations of its plan, each once, and the headings of altered
\* tables; the Markdown report leaves out five kinds of objects and the checks of a table;
\* the total a report prints is its lines and the changes of primary keys and unique
\* indexes, CountChanges adds those of partitions, triggers and rules, and the counts by
\* risk add up to the operations (text.go 12-309, markdown.go 12-148, json.go 127-153,
\* diff/types.go 288-317).
THEOREM ReportsShowPlans == MigrationSpec => []ReportShowsThePlan
    <1>1. MigrationInv => ReportShowsThePlan
        <2> SUFFICES ASSUME MigrationInv, outcome = "planned" PROVE ReportShowsThePlan
            BY DEF ReportShowsThePlan
        <2> DEFINE lines == FormatDiffAsText(handed)
                   operationLines == {Line(operations[n].id, operations[n].action) : n \in DOMAIN operations}
                   headings == {l \in ToSet(lines) : l.id[1] = "table" /\ Len(l.id) = 2 /\ l.action = "ALTER"}
                   count(parts) == Sum([i \in DOMAIN handed["table"] |->
                                                PartCount(handed["table"][i], parts)])
                   byRisk == RiskDistribution(operations)
                   risks == Sum([i \in 1..Cardinality(DOMAIN byRisk) |->
                                        byRisk[SetToSeq(DOMAIN byRisk)[i]]])
        <2>1. IInv /\ Planning /\ HandedOver /\ P!IInv
            BY DEF MigrationInv, NotPlanned, Planning, HandedOver
        <2>2. /\ IsInjective(lines)
              /\ \A x : x \in ToSet(lines) /\ ~IsHeading(x) <=> IsWholeLine(x) \/ IsPartLine(x)
            BY <2>1, TextShowsPlan
        <2>3. \A x : x \in operationLines <=> IsWholeLine(x) \/ IsPartLine(x)
            BY <2>1, LinesOfPlan
        <2>4. headings = {l \in ToSet(lines) : IsHeading(l)}
            BY DEF IsHeading
        <2>5. \A x \in operationLines : x \notin ToSet(FormatDiffAsMarkdown(handed)) =>
                    \/ x.id[1] \in {"mview", "sequence", "enum", "event", "extension"}
                    \/ Len(x.id) = 4 /\ x.id[3] = "chk"
            <3> HIDE DEF operationLines
            <3> QED
                BY <2>1, <2>3, MarkdownLeavesOut
        <2>6. /\ CountTotalChanges(handed) = Len(lines) + count(<<"pk", "unique">>)
              /\ CountChanges(handed) =
                    CountTotalChanges(handed) + count(<<"partition", "trigger", "rule">>)
            <3>1. /\ Reportable(handed)
                  /\ \A i \in DOMAIN handed["table"] : handed["table"][i].action # "ALTER" =>
                        \A p \in PartNames : Len(handed["table"][i].parts[p]) = 0
                BY <2>1, HandedIsReportable
            <3>2. /\ CountTotalChanges(handed) = Len(lines) + TablesCount(handed, KeyParts)
                  /\ CountChanges(handed) =
                        CountTotalChanges(handed) + TablesCount(handed, OtherParts)
                BY <3>1, TotalCounts
            <3> QED
                BY <3>2 DEF TablesCount, KeyParts, OtherParts
        <2>7. risks = Len(ordered)
            <3>1. P!PlanIsExact
                BY <2>1, HandableFacts, P!InvariantIsExact
            <3>2. Len(ordered) = Len(operations)
                BY <3>1 DEF P!PlanIsExact
            <3>3. operations \in Seq(P!OpRecords)
                BY <2>1 DEF P!IInv, P!EmittedInv
            <3>4. IsList(operations)
                BY <3>3, ListIn
            <3> QED
                BY <3>2, <3>4, RisksAddUp
        <2> HIDE DEF lines, operationLines, headings, count, risks
        <2>8. ToSet(lines) \ headings = operationLines
            BY <2>2, <2>3, <2>4
        <2>9. \A l \in operationLines \ ToSet(FormatDiffAsMarkdown(handed)) :
                    \/ l.id[1] \in {"mview", "sequence", "enum", "event", "extension"}
                    \/ Len(l.id) = 4 /\ l.id[3] = "chk"
            BY <2>5
        <2> QED
            BY <2>2, <2>6, <2>7, <2>8, <2>9
                DEF ReportShowsThePlan, lines, operationLines, headings, count, risks
    <1> QED
        BY <1>1, MigrationHolds, PTL
=============================================================================

----------------------------- MODULE DumpProofs -----------------------------
(***************************************************************************)
(* Proofs about filters and the scripts of exporter.ExportSQL, for every   *)
(* database, every pattern and any number of filters: what a combination   *)
(* keeps, what a filtered copy holds, what a script leaves.                *)
(***************************************************************************)
EXTENDS Dump, SequenceTheorems, WellFoundedInduction, TLAPS

(***************************************************************************)
(* Lists and the functions that run through them.                          *)
(***************************************************************************)
LEMMA LeastOf ==
    ASSUME NEW S, S \subseteq Nat, S # {}
    PROVE  \E m \in S : \A n \in S : m <= n
    <1>1. PICK m \in S : \A n \in S : <<n, m>> \notin OpToRel(<, Nat)
        BY NatLessThanWellFounded, WFMin
    <1>2. \A n \in S : ~(n < m)
        BY <1>1 DEF OpToRel
    <1>3. \A n \in S : m <= n
        BY <1>2
    <1> QED
        BY <1>3

\* What holds at 0 and passes from each position to the next holds up to n.
LEMMA EveryPosition ==
    ASSUME NEW n \in Nat, NEW good, 0 \in good,
           \A i \in 1..n : i - 1 \in good => i \in good
    PROVE  0..n \subseteq good
    <1> DEFINE bad == (0..n) \ good
    <1>1. CASE bad # {}
        <2>a. bad \subseteq Nat
            OBVIOUS
        <2>1. PICK k \in bad : \A j \in bad : k <= j
            BY <1>1, <2>a, LeastOf
        <2>2. k \in 1..n
            BY <2>1
        <2>3. k - 1 \in 0..n /\ k - 1 \notin bad
            BY <2>1, <2>2
        <2> QED
            BY <2>1, <2>2, <2>3
    <1> QED
        BY <1>1

\* A function on 0..n that is given by its first value and its steps exists.
AreSteps(next, n, V) == next \in [1..n -> [V -> V]]
Unfolds(f, base, next, n, V) ==
    f \in [0..n -> V] /\ f[0] = base /\ \A i \in 1..n : f[i] = next[i][f[i - 1]]

LEMMA RecursionExists ==
    ASSUME NEW V, NEW base \in V, NEW n \in Nat, NEW next, AreSteps(next, n, V)
    PROVE  \E f : Unfolds(f, base, next, n, V)
    <1> USE DEF AreSteps, Unfolds
    <1> DEFINE UpTo(k, f) == f[0] = base /\ \A i \in 1..k : f[i] = next[i][f[i - 1]]
               Reaches(k) == \E f \in [0..k -> V] : UpTo(k, f)
               good == {k \in 0..n : Reaches(k)}
    <1>1. Reaches(0)
        <2> DEFINE first == [i \in 0..0 |-> base]
        <2>1. first \in [0..0 -> V]
            OBVIOUS
        <2>2. UpTo(0, first)
            OBVIOUS
        <2> QED
            BY <2>1, <2>2
    <1>2. ASSUME NEW k \in 1..n, Reaches(k - 1)
          PROVE  Reaches(k)
        <2>1. PICK f \in [0..(k - 1) -> V] : UpTo(k - 1, f)
            BY <1>2
        <2> DEFINE g == [i \in 0..k |-> IF i = k THEN next[k][f[k - 1]] ELSE f[i]]
        <2>2. next[k] \in [V -> V] /\ f[k - 1] \in V
            BY <2>1
        <2>3. g \in [0..k -> V]
            BY <2>2
        <2>4. g[0] = base
            BY <2>1
        <2>5. ASSUME NEW i \in 1..k PROVE g[i] = next[i][g[i - 1]]
            <3>1. g[i - 1] = f[i - 1]
                BY <2>5
            <3>2. CASE i = k
                BY <3>1, <3>2
            <3>3. CASE i # k
                <4>1. i \in 1..(k - 1)
                    BY <3>3
                <4>2. f[i] = next[i][f[i - 1]]
                    BY <2>1, <4>1
                <4>3. g[i] = f[i]
                    BY <3>3
                <4> QED
                    BY <3>1, <4>2, <4>3
            <3> QED
                BY <3>2, <3>3
        <2> HIDE DEF g
        <2> QED
            BY <2>3, <2>4, <2>5
    <1> HIDE DEF Reaches
    <1>3. 0 \in good /\ \A k \in 1..n : k - 1 \in good => k \in good
        BY <1>1, <1>2
    <1>4. n \in good
        <2> HIDE DEF good
        <2>1. 0..n \subseteq good
            BY <1>3, EveryPosition
        <2> QED
            BY <2>1
    <1> QED
        BY <1>4 DEF Reaches

LEMMA AppendedMembers ==
    ASSUME NEW S, NEW list \in Seq(S), NEW x \in S
    PROVE  /\ Append(list, x) \in Seq(S)
           /\ ToSet(Append(list, x)) = ToSet(list) \cup {x}
    <1> DEFINE longer == Append(list, x)
    <1>1. longer \in Seq(S) /\ Len(longer) = Len(list) + 1 /\ Len(list) \in Nat
        OBVIOUS
    <1>2. \A i \in 1..Len(list) : longer[i] = list[i]
        OBVIOUS
    <1>3. longer[Len(list) + 1] = x
        OBVIOUS
    <1>4. DOMAIN longer = 1..(Len(list) + 1) /\ DOMAIN list = 1..Len(list)
        BY <1>1
    <1> HIDE DEF longer
    <1>5. 1..(Len(list) + 1) = 1..Len(list) \cup {Len(list) + 1}
        BY <1>1
    <1>6. ToSet(longer) = {longer[i] : i \in 1..Len(list) \cup {Len(list) + 1}}
          /\ ToSet(list) = {list[i] : i \in 1..Len(list)}
        BY <1>4, <1>5 DEF ToSet
    <1>7. ToSet(longer) = ToSet(list) \cup {x}
        BY <1>2, <1>3, <1>6
    <1> QED
        BY <1>1, <1>7 DEF longer

\* What a loop keeps of a list: members of it that pass, all of them, and a list.
LEMMA KeepOnlyKeeps ==
    ASSUME NEW S, NEW list \in Seq(S), NEW passing
    PROVE  /\ KeepOnly(list, passing) \in Seq(S)
           /\ ToSet(KeepOnly(list, passing)) = ToSet(list) \cap passing
    <1> DEFINE n == Len(list)
               V == Seq(S)
               Extend(i, v) == IF list[i] \in passing THEN Append(v, list[i]) ELSE v
               next == [i \in 1..n |-> [v \in V |-> Extend(i, v)]]
               Value(f, i) == IF i = 0 THEN <<>>
                              ELSE IF list[i] \in passing THEN Append(f[i - 1], list[i])
                              ELSE f[i - 1]
               Kept(f) == f = [i \in 0..n |-> Value(f, i)]
               kept == CHOOSE f : Kept(f)
               UpTo(i) == {list[j] : j \in 1..i} \cap passing
               good == {i \in 0..n : kept[i] \in V /\ ToSet(kept[i]) = UpTo(i)}
    <1>1. n \in Nat /\ (\A i \in 1..n : list[i] \in S) /\ <<>> \in V
        OBVIOUS
    <1>2. KeepOnly(list, passing) = kept[n]
        BY DEF KeepOnly
    <1>3. UpTo(n) = ToSet(list) \cap passing
        BY DEF ToSet
    <1>4. ASSUME NEW i \in 1..n, NEW v \in V
          PROVE  Extend(i, v) \in V
        BY <1>1, AppendedMembers
    <1> HIDE DEF n, V, kept
    <1>5. AreSteps(next, n, V)
        <2> HIDE DEF Extend
        <2> QED
            BY <1>4 DEF AreSteps
    <1>6. PICK f : Unfolds(f, <<>>, next, n, V)
        <2> HIDE DEF next
        <2> QED
            BY <1>1, <1>5, RecursionExists
    <1>7. ASSUME NEW i \in 1..n
          PROVE  f[i] = Extend(i, f[i - 1])
        <2>1. f[i - 1] \in V
            BY <1>1, <1>6 DEF Unfolds
        <2> HIDE DEF Extend
        <2> QED
            BY <1>6, <2>1 DEF Unfolds
    <1>8. Kept(f)
        <2>1. ASSUME NEW i \in 0..n
              PROVE  f[i] = Value(f, i)
            <3>1. CASE i = 0
                BY <1>6, <3>1 DEF Unfolds
            <3>2. CASE i # 0
                <4>1. i \in 1..n
                    BY <1>1, <3>2
                <4>2. f[i] = Extend(i, f[i - 1])
                    BY <1>7, <4>1
                <4> QED
                    BY <3>2, <4>2
            <3> QED
                BY <3>1, <3>2
        <2> HIDE DEF Value
        <2> QED
            BY <1>6, <2>1 DEF Unfolds
    <1>9. Kept(kept)
        <2> HIDE DEF Kept
        <2> QED
            BY <1>8 DEF kept
    <1>10. ASSUME NEW i \in 0..n
           PROVE  kept[i] = Value(kept, i)
        <2> HIDE DEF Value
        <2> QED
            BY <1>9
    <1>11. 0 \in good
        BY <1>1, <1>10 DEF ToSet
    <1>12. ASSUME NEW i \in 1..n, i - 1 \in good
           PROVE  i \in good
        <2>1. kept[i - 1] \in V /\ ToSet(kept[i - 1]) = UpTo(i - 1)
            BY <1>12
        <2>2. i \in 0..n /\ i # 0 /\ 1..i = 1..(i - 1) \cup {i}
            BY <1>1
        <2>3. UpTo(i) = UpTo(i - 1) \cup ({list[i]} \cap passing)
            BY <2>2
        <2> HIDE DEF UpTo
        <2>4. kept[i] \in V /\ ToSet(kept[i]) = UpTo(i)
            <3>1. CASE list[i] \in passing
                <4>1. kept[i] = Append(kept[i - 1], list[i])
                    BY <1>10, <2>2, <3>1
                <4>2. /\ Append(kept[i - 1], list[i]) \in V
                      /\ ToSet(Append(kept[i - 1], list[i])) = ToSet(kept[i - 1]) \cup {list[i]}
                    BY <1>1, <2>1, AppendedMembers DEF V
                <4> QED
                    BY <2>1, <2>3, <3>1, <4>1, <4>2
            <3>2. CASE list[i] \notin passing
                BY <1>10, <2>1, <2>3, <3>2
            <3> QED
                BY <3>1, <3>2
        <2> QED
            BY <2>4
    <1> HIDE DEF UpTo
    <1>13. n \in good
        <2> HIDE DEF good
        <2>1. 0..n \subseteq good
            BY <1>1, <1>11, <1>12, EveryPosition
        <2> QED
            BY <1>1, <2>1
    <1> QED
        BY <1>2, <1>3, <1>13 DEF V

-----------------------------------------------------------------------------
(***************************************************************************)
(* Options and their combination.                                          *)
(***************************************************************************)
AllPatterns == Patterns \cup TestPatterns
OptionRecords ==
    [nil : {FALSE},
     includeSchemas : SchemaLists \cup {{}}, excludeSchemas : SchemaLists \cup {{}, SystemSchemas},
     includeTables : SUBSET AllPatterns, excludeTables : SUBSET AllPatterns,
     includeViews : SUBSET AllPatterns, excludeViews : SUBSET AllPatterns,
     includeFunctions : SUBSET AllPatterns, excludeFunctions : SUBSET AllPatterns,
     minSize : Nat, maxSize : Nat, removeEmpty : BOOLEAN]

\* The options are well formed, whatever calls were made on them.
FilterInv ==
    /\ db \in Databases
    /\ filters \in Seq(OptionRecords \cup {Nil})

-----------------------------------------------------------------------------
LEMMA NilIsNoOption == Nil \notin OptionRecords
    BY DEF Nil, OptionRecords

LEMMA ConstructorsAreOptions == Constructors \subseteq OptionRecords
    <1>1. NewFilterOptions \in OptionRecords
        BY DEF NewFilterOptions, OptionRecords
    <1>2. ExcludeSystemSchemas \in OptionRecords
        BY DEF ExcludeSystemSchemas, NewFilterOptions, OptionRecords
    <1>3. ExcludeTestTables \in OptionRecords
        BY DEF ExcludeTestTables, NewFilterOptions, OptionRecords, AllPatterns
    <1>4. ASSUME NEW l \in SchemaLists
          PROVE  FilterBySchema(l) \in OptionRecords
        BY DEF FilterBySchema, NewFilterOptions, OptionRecords
    <1>5. ASSUME NEW p \in Patterns
          PROVE  FilterByPattern(p) \in OptionRecords
        BY DEF FilterByPattern, NewFilterOptions, OptionRecords, AllPatterns
    <1>6. ASSUME NEW min \in Sizes, NEW max \in Sizes
          PROVE  FilterBySize(min, max) \in OptionRecords
        BY FilterAssumption DEF FilterBySize, NewFilterOptions, OptionRecords
    <1> QED
        BY <1>1, <1>2, <1>3, <1>4, <1>5, <1>6 DEF Constructors

\* A call leaves options in the place of the last filter.
LEMMA CallKeepsOptions ==
    ASSUME FilterInv, NEW o, Called(o), Last(filters) \in OptionRecords => o \in OptionRecords
    PROVE  FilterInv'
    <1>1. filters # <<>> /\ Last(filters) # Nil /\ db' = db
          /\ filters' = [filters EXCEPT ![Len(filters)] = o]
        BY DEF Called
    <1>2. Last(filters) \in OptionRecords \cup {Nil}
        BY <1>1 DEF FilterInv, Last
    <1> QED
        BY <1>1, <1>2 DEF FilterInv

LEMMA OptionsInitially == Init => FilterInv
    BY DEF Init, FilterInv

LEMMA OptionsKept == FilterInv /\ [Next]_vars => FilterInv'
    <1> SUFFICES ASSUME FilterInv, [Next]_vars PROVE FilterInv'
        OBVIOUS
    <1> USE FilterAssumption
    <1>1. CASE Construct
        BY <1>1, ConstructorsAreOptions DEF Construct, FilterInv
    <1>2. CASE WithIncludeSchemas
        BY <1>2, CallKeepsOptions DEF WithIncludeSchemas, OptionRecords
    <1>3. CASE WithExcludeSchemas
        BY <1>3, CallKeepsOptions DEF WithExcludeSchemas, OptionRecords
    <1>4. CASE WithIncludeTablesPattern
        BY <1>4, CallKeepsOptions DEF WithIncludeTablesPattern, OptionRecords, AllPatterns
    <1>5. CASE WithExcludeTablesPattern
        BY <1>5, CallKeepsOptions DEF WithExcludeTablesPattern, OptionRecords, AllPatterns
    <1>6. CASE WithBadPattern
        BY <1>6, CallKeepsOptions DEF WithBadPattern
    <1>7. CASE WithTableSizeRange
        BY <1>7, CallKeepsOptions DEF WithTableSizeRange, OptionRecords
    <1>8. CASE WithRemoveEmptySchemas
        BY <1>8, CallKeepsOptions DEF WithRemoveEmptySchemas, OptionRecords
    <1>9. CASE SetPatterns
        BY <1>9, CallKeepsOptions DEF SetPatterns, OptionRecords, AllPatterns
    <1>10. CASE Apply \/ UNCHANGED vars
        BY <1>10 DEF Apply, vars, FilterInv
    <1> QED
        BY <1>1, <1>2, <1>3, <1>4, <1>5, <1>6, <1>7, <1>8, <1>9, <1>10 DEF Next

-----------------------------------------------------------------------------
\* Finitely many sizes are bounded.
LEMMA Bounded ==
    ASSUME NEW n \in Nat, NEW f \in [1..n -> Nat]
    PROVE  \E m \in Nat : \A i \in 1..n : f[i] <= m
    <1> DEFINE BoundedTo(k) == \E m \in Nat : \A i \in 1..k : f[i] <= m
               Open == {k \in 0..n : ~BoundedTo(k)}
    <1>1. BoundedTo(0)
        OBVIOUS
    <1>2. ASSUME NEW k \in 1..n, BoundedTo(k - 1)
          PROVE  BoundedTo(k)
        <2>1. PICK m \in Nat : \A i \in 1..(k - 1) : f[i] <= m
            BY <1>2
        <2>2. PICK l \in Nat : l >= m /\ l >= f[k]
            BY <2>1
        <2>3. \A i \in 1..k : i = k \/ i \in 1..(k - 1)
            OBVIOUS
        <2>4. \A i \in 1..k : f[i] \in Nat /\ f[i] <= l
            BY <2>1, <2>2, <2>3
        <2> QED
            BY <2>4
    <1> HIDE DEF BoundedTo
    <1>3. Open = {}
        <2> SUFFICES ASSUME Open # {} PROVE FALSE
            OBVIOUS
        <2>1. Open \subseteq Nat
            OBVIOUS
        <2>2. PICK k \in Open : \A j \in Open : k <= j
            BY <2>1, LeastOf
        <2>3. k \in 1..n
            BY <1>1, <2>2
        <2>4. k - 1 \in 0..n /\ k - 1 \notin Open
            BY <2>2, <2>3
        <2>5. BoundedTo(k - 1)
            BY <2>4
        <2> QED
            BY <1>2, <2>2, <2>3, <2>5
    <1>4. BoundedTo(n)
        BY <1>3
    <1> QED
        BY <1>4 DEF BoundedTo

\* And one of them is the largest.
LEMMA LargestOf ==
    ASSUME NEW n \in Nat \ {0}, NEW f \in [1..n -> Nat]
    PROVE  \E i \in 1..n : \A j \in 1..n : f[j] <= f[i]
    <1> DEFINE Above == {m \in Nat : \A i \in 1..n : f[i] <= m}
    <1>1. Above # {} /\ Above \subseteq Nat
        BY Bounded
    <1>2. PICK m \in Above : \A l \in Above : m <= l
        BY <1>1, LeastOf
    <1>3. m \in Nat /\ \A i \in 1..n : f[i] \in Nat /\ f[i] <= m
        BY <1>2
    <1>4. CASE m = 0
        BY <1>3, <1>4
    <1>5. CASE m # 0
        <2>1. m - 1 \in Nat /\ m - 1 \notin Above
            BY <1>2, <1>3, <1>5
        <2>2. PICK i \in 1..n : ~(f[i] <= m - 1)
            BY <2>1
        <2>3. f[i] = m
            BY <1>3, <2>2
        <2> QED
            BY <1>3, <2>3
    <1> QED
        BY <1>4, <1>5

\* The lower limit of a combination is the largest of the lower limits.
LEMMA MinSizeOfGiven ==
    ASSUME NEW fs \in Seq(OptionRecords \cup {Nil})
    PROVE  /\ MinSizeOf(Given(fs)) \in Nat
           /\ \A o \in Given(fs) : o.minSize <= MinSizeOf(Given(fs))
           /\ MinSizeOf(Given(fs)) > 0 => \E o \in Given(fs) : o.minSize = MinSizeOf(Given(fs))
    <1> DEFINE given == Given(fs)
               size == [i \in 1..Len(fs) |-> IF fs[i] = Nil THEN 0 ELSE fs[i].minSize]
    <1>1. given \subseteq OptionRecords /\ \A o \in given : \E i \in 1..Len(fs) : o = fs[i] /\ o # Nil
        BY DEF Given
    <1>2. CASE given = {}
        BY <1>2 DEF MinSizeOf
    <1>3. CASE given # {}
        <2>a. Len(fs) \in Nat \ {0} /\ \A i \in 1..Len(fs) : fs[i] \in OptionRecords \cup {Nil}
            BY <1>1, <1>3, LenProperties
        <2>1. Len(fs) \in Nat \ {0} /\ size \in [1..Len(fs) -> Nat]
            BY <2>a DEF OptionRecords
        <2>2. PICK i \in 1..Len(fs) : \A j \in 1..Len(fs) : size[j] <= size[i]
            BY <2>1, LargestOf
        <2>3. \A o \in given : o.minSize \in Nat /\ o.minSize <= size[i]
            BY <1>1, <2>2 DEF OptionRecords
        <2>4. \E o \in given : o.minSize = size[i]
            <3>1. CASE fs[i] = Nil
                BY <1>3, <2>3, <3>1
            <3>2. CASE fs[i] # Nil
                BY <3>2 DEF Given
            <3> QED
                BY <3>1, <3>2
        <2>5. \E m \in {o.minSize : o \in given} : \A o \in given : o.minSize <= m
            BY <2>3, <2>4
        <2>6. /\ MinSizeOf(given) \in {o.minSize : o \in given}
              /\ \A o \in given : o.minSize <= MinSizeOf(given)
            BY <1>3, <2>5 DEF MinSizeOf
        <2> QED
            BY <2>3, <2>6
    <1> QED
        BY <1>2, <1>3

\* The upper limit is the smallest there is, zero when there is none.
LEMMA MaxSizeOfGiven ==
    ASSUME NEW options \in SUBSET OptionRecords
    PROVE  /\ MaxSizeOf(options) \in Nat
           /\ \A o \in options : o.maxSize > 0 =>
                 MaxSizeOf(options) > 0 /\ MaxSizeOf(options) <= o.maxSize
           /\ MaxSizeOf(options) > 0 => \E o \in options : o.maxSize = MaxSizeOf(options)
    <1>1. MaxSizesOf(options) \subseteq Nat \ {0}
        BY DEF MaxSizesOf, OptionRecords
    <1>2. \A o \in options : o.maxSize > 0 => o.maxSize \in MaxSizesOf(options)
        BY DEF MaxSizesOf, OptionRecords
    <1>3. CASE MaxSizesOf(options) = {}
        BY <1>2, <1>3 DEF MaxSizeOf
    <1>4. CASE MaxSizesOf(options) # {}
        <2>1. \E m \in MaxSizesOf(options) : \A n \in MaxSizesOf(options) : m <= n
            BY <1>1, <1>4, LeastOf
        <2>2. /\ MaxSizeOf(options) \in MaxSizesOf(options)
              /\ \A n \in MaxSizesOf(options) : MaxSizeOf(options) <= n
            BY <1>4, <2>1 DEF MaxSizeOf
        <2>3. \E o \in options : o.maxSize = MaxSizeOf(options)
            BY <2>2 DEF MaxSizesOf
        <2> QED
            BY <1>1, <1>2, <2>2, <2>3
    <1> QED
        BY <1>3, <1>4

\* What the limits of every filter let through, those of the combination do, and
\* nothing else.
LEMMA SizesAreCut ==
    ASSUME NEW fs \in Seq(OptionRecords \cup {Nil}), NEW size \in Nat
    PROVE  WithinSize(size, CombineFilters(fs)) <=> \A o \in Given(fs) : WithinSize(size, o)
    <1> DEFINE given == Given(fs)
               c == CombineFilters(fs)
    <1>1. c.minSize = MinSizeOf(given) /\ c.maxSize = MaxSizeOf(given)
        BY DEF CombineFilters
    <1>2. given \subseteq OptionRecords
        BY DEF Given
    <1>3. \A o \in given : o.minSize \in Nat /\ o.maxSize \in Nat
        BY <1>2 DEF OptionRecords
    <1> HIDE DEF given, c
    <1>4. /\ MinSizeOf(given) \in Nat
          /\ \A o \in given : o.minSize <= MinSizeOf(given)
          /\ MinSizeOf(given) > 0 => \E o \in given : o.minSize = MinSizeOf(given)
        BY MinSizeOfGiven DEF given
    <1>5. /\ MaxSizeOf(given) \in Nat
          /\ \A o \in given : o.maxSize > 0 =>
                MaxSizeOf(given) > 0 /\ MaxSizeOf(given) <= o.maxSize
          /\ MaxSizeOf(given) > 0 => \E o \in given : o.maxSize = MaxSizeOf(given)
        BY <1>2, MaxSizeOfGiven
    <1>6. (c.minSize > 0 => size >= c.minSize)
            <=> \A o \in given : o.minSize > 0 => size >= o.minSize
        BY <1>1, <1>3, <1>4
    <1>7. (c.maxSize > 0 => size <= c.maxSize)
            <=> \A o \in given : o.maxSize > 0 => size <= o.maxSize
        BY <1>1, <1>3, <1>5
    <1> QED
        BY <1>6, <1>7 DEF WithinSize, given, c

-----------------------------------------------------------------------------
\* Lists of names and of patterns: excludes are united, and so are includes, which lets
\* through what any of several include lists names.
LEMMA SchemasAreCut ==
    ASSUME NEW fs, NEW name
    PROVE  LET given == Given(fs)
               all == ShouldIncludeSchema(name, CombineFilters(fs))
               each == \A o \in given : ShouldIncludeSchema(name, o)
           IN  /\ each => all
               /\ all /\ ~IncludesClash(given) => each
    <1> DEFINE given == Given(fs)
               c == CombineFilters(fs)
    <1>1. /\ c.includeSchemas = UNION {o.includeSchemas : o \in given}
          /\ c.excludeSchemas = UNION {o.excludeSchemas : o \in given}
        BY DEF CombineFilters
    <1>2. ~IncludesClash(given) =>
            \A o, p \in given : o.includeSchemas # {} /\ p.includeSchemas # {} => o = p
        BY DEF IncludesClash
    <1> HIDE DEF given, c
    <1>3. (\A o \in given : ShouldIncludeSchema(name, o)) => ShouldIncludeSchema(name, c)
        BY <1>1 DEF ShouldIncludeSchema
    <1>4. ShouldIncludeSchema(name, c) /\ ~IncludesClash(given) =>
            \A o \in given : ShouldIncludeSchema(name, o)
        BY <1>1, <1>2 DEF ShouldIncludeSchema
    <1> QED
        BY <1>3, <1>4 DEF given, c

LEMMA TablesAreCut ==
    ASSUME NEW fs, NEW name
    PROVE  LET given == Given(fs)
               c == CombineFilters(fs)
               all == Selected(name, c.includeTables, c.excludeTables)
               each == \A o \in given : Selected(name, o.includeTables, o.excludeTables)
           IN  /\ each => all
               /\ all /\ ~IncludesClash(given) => each
    <1> DEFINE given == Given(fs)
               c == CombineFilters(fs)
    <1>1. /\ c.includeTables = UNION {o.includeTables : o \in given}
          /\ c.excludeTables = UNION {o.excludeTables : o \in given}
        BY DEF CombineFilters
    <1>2. ~IncludesClash(given) =>
            \A o, p \in given : o.includeTables # {} /\ p.includeTables # {} => o = p
        BY DEF IncludesClash
    <1> HIDE DEF given, c
    <1>3. (\A o \in given : Selected(name, o.includeTables, o.excludeTables))
            => Selected(name, c.includeTables, c.excludeTables)
        BY <1>1 DEF Selected, MatchesAnyPattern
    <1>4. Selected(name, c.includeTables, c.excludeTables) /\ ~IncludesClash(given) =>
            \A o \in given : Selected(name, o.includeTables, o.excludeTables)
        BY <1>1, <1>2 DEF Selected, MatchesAnyPattern
    <1> QED
        BY <1>3, <1>4 DEF given, c

LEMMA ViewsAreCut ==
    ASSUME NEW fs, NEW name
    PROVE  LET given == Given(fs)
               c == CombineFilters(fs)
               all == Selected(name, c.includeViews, c.excludeViews)
               each == \A o \in given : Selected(name, o.includeViews, o.excludeViews)
           IN  /\ each => all
               /\ all /\ ~IncludesClash(given) => each
    <1> DEFINE given == Given(fs)
               c == CombineFilters(fs)
    <1>1. /\ c.includeViews = UNION {o.includeViews : o \in given}
          /\ c.excludeViews = UNION {o.excludeViews : o \in given}
        BY DEF CombineFilters
    <1>2. ~IncludesClash(given) =>
            \A o, p \in given : o.includeViews # {} /\ p.includeViews # {} => o = p
        BY DEF IncludesClash
    <1> HIDE DEF given, c
    <1>3. (\A o \in given : Selected(name, o.includeViews, o.excludeViews))
            => Selected(name, c.includeViews, c.excludeViews)
        BY <1>1 DEF Selected, MatchesAnyPattern
    <1>4. Selected(name, c.includeViews, c.excludeViews) /\ ~IncludesClash(given) =>
            \A o \in given : Selected(name, o.includeViews, o.excludeViews)
        BY <1>1, <1>2 DEF Selected, MatchesAnyPattern
    <1> QED
        BY <1>3, <1>4 DEF given, c

LEMMA FunctionsAreCut ==
    ASSUME NEW fs, NEW name
    PROVE  LET given == Given(fs)
               c == CombineFilters(fs)
               all == Selected(name, c.includeFunctions, c.excludeFunctions)
               each == \A o \in given : Selected(name, o.includeFunctions, o.excludeFunctions)
           IN  /\ each => all
               /\ all /\ ~IncludesClash(given) => each
    <1> DEFINE given == Given(fs)
               c == CombineFilters(fs)
    <1>1. /\ c.includeFunctions = UNION {o.includeFunctions : o \in given}
          /\ c.excludeFunctions = UNION {o.excludeFunctions : o \in given}
        BY DEF CombineFilters
    <1>2. ~IncludesClash(given) =>
            \A o, p \in given : o.includeFunctions # {} /\ p.includeFunctions # {} => o = p
        BY DEF IncludesClash
    <1> HIDE DEF given, c
    <1>3. (\A o \in given : Selected(name, o.includeFunctions, o.excludeFunctions))
            => Selected(name, c.includeFunctions, c.excludeFunctions)
        BY <1>1 DEF Selected, MatchesAnyPattern
    <1>4. Selected(name, c.includeFunctions, c.excludeFunctions) /\ ~IncludesClash(given) =>
            \A o \in given : Selected(name, o.includeFunctions, o.excludeFunctions)
        BY <1>1, <1>2 DEF Selected, MatchesAnyPattern
    <1> QED
        BY <1>3, <1>4 DEF given, c

-----------------------------------------------------------------------------
\* An object of a database: where it is, and that a table has a size.
LEMMA ObjectOfDatabase ==
    ASSUME NEW d \in Databases, NEW x \in Objects(d)
    PROVE  x[2] = "table" => x[3].size \in Nat
    <1>1. PICK i \in DOMAIN d : x \in UNION {{<<d[i].name, k, y>> : y \in ToSet(d[i].lists[k])} : k \in Kinds}
        BY DEF Objects
    <1>2. PICK k \in Kinds : \E y \in ToSet(d[i].lists[k]) : x = <<d[i].name, k, y>>
        BY <1>1
    <1>3. PICK y \in ToSet(d[i].lists[k]) : x = <<d[i].name, k, y>>
        BY <1>2
    <1> QED
        BY <1>1, <1>3, FilterAssumption

\* The combination of filters of any number lets an object through that each of them
\* does, and no other unless two of them have include lists of one kind.
LEMMA CombinationCuts ==
    ASSUME NEW fs \in Seq(OptionRecords \cup {Nil}), NEW schema, NEW kind, NEW x,
           kind = "table" => x.size \in Nat
    PROVE  LET combined == Keeps(CombineFilters(fs), schema, kind, x)
               byAll == \A o \in Given(fs) : Keeps(o, schema, kind, x)
           IN  /\ byAll => combined
               /\ combined /\ ~IncludesClash(Given(fs)) => byAll
    <1> DEFINE given == Given(fs)
               c == CombineFilters(fs)
               clash == IncludesClash(given)
               InSchema(o) == ShouldIncludeSchema(schema, o)
               Tables(o) == Selected(x.name, o.includeTables, o.excludeTables)
               Size(o) == WithinSize(x.size, o)
               Views(o) == Selected(x.name, o.includeViews, o.excludeViews)
               Functions(o) == Selected(x.name, o.includeFunctions, o.excludeFunctions)
    <1>1. ((\A o \in given : InSchema(o)) => InSchema(c))
          /\ (InSchema(c) /\ ~clash => \A o \in given : InSchema(o))
        BY SchemasAreCut
    <1>2. ((\A o \in given : Tables(o)) => Tables(c))
          /\ (Tables(c) /\ ~clash => \A o \in given : Tables(o))
        BY TablesAreCut
    <1>3. kind = "table" => (Size(c) <=> \A o \in given : Size(o))
        BY SizesAreCut
    <1>4. ((\A o \in given : Views(o)) => Views(c))
          /\ (Views(c) /\ ~clash => \A o \in given : Views(o))
        BY ViewsAreCut
    <1>5. ((\A o \in given : Functions(o)) => Functions(c))
          /\ (Functions(c) /\ ~clash => \A o \in given : Functions(o))
        BY FunctionsAreCut
    <1>6. \A o : Keeps(o, schema, kind, x) <=>
                    /\ InSchema(o)
                    /\ kind = "table" => Tables(o) /\ Size(o)
                    /\ kind \in {"view", "mview"} => Views(o)
                    /\ kind = "function" => Functions(o)
        BY DEF Keeps
    <1> HIDE DEF given, c, clash, InSchema, Tables, Size, Views, Functions
    <1>7. (\A o \in given : Keeps(o, schema, kind, x)) => Keeps(c, schema, kind, x)
        BY <1>1, <1>2, <1>3, <1>4, <1>5, <1>6
    <1>8. Keeps(c, schema, kind, x) /\ ~clash => \A o \in given : Keeps(o, schema, kind, x)
        BY <1>1, <1>2, <1>3, <1>4, <1>5, <1>6
    <1> QED
        BY <1>7, <1>8 DEF given, c, clash

-----------------------------------------------------------------------------
(***************************************************************************)
(* What FilterSchema returns.                                              *)
(***************************************************************************)
\* A schema with a list of every kind.
IsSchema(s) ==
    /\ s = [name |-> s.name, lists |-> [k \in Kinds |-> s.lists[k]]]
    /\ \A k \in Kinds : IsList(s.lists[k])
ObjectsIn(s) == UNION {{<<s.name, k, x>> : x \in ToSet(s.lists[k])} : k \in Kinds}
\* What the pattern lists and the limits let through of a schema that is included.
KeptInSchema(o, kind, x) ==
    /\ kind # "rule"
    /\ kind = "table" =>
        Selected(x.name, o.includeTables, o.excludeTables) /\ WithinSize(x.size, o)
    /\ kind \in {"view", "mview"} => Selected(x.name, o.includeViews, o.excludeViews)
    /\ kind = "function" => Selected(x.name, o.includeFunctions, o.excludeFunctions)

LEMMA DatabaseIsList ==
    ASSUME NEW d \in Databases
    PROVE  IsList(d) /\ \A s \in ToSet(d) : IsSchema(s)
    BY FilterAssumption DEF IsSchema, ToSet

LEMMA EmptyList ==
    ASSUME NEW list, IsList(list)
    PROVE  list = <<>> <=> ToSet(list) = {}
    BY DEF IsList, ToSet

\* A loop over a list keeps the members that pass.
LEMMA KeptMembers ==
    ASSUME NEW list, IsList(list), NEW passing, passing \subseteq ToSet(list)
    PROVE  IsList(KeepOnly(list, passing)) /\ ToSet(KeepOnly(list, passing)) = passing
    <1> DEFINE S == ToSet(list)
               kept == KeepOnly(list, passing)
    <1>1. list \in Seq(S)
        BY DEF IsList
    <1>2. kept \in Seq(S) /\ ToSet(kept) = passing
        <2> HIDE DEF S
        <2>1. kept \in Seq(S) /\ ToSet(kept) = ToSet(list) \cap passing
            BY <1>1, KeepOnlyKeeps
        <2> QED
            BY <2>1
    <1> HIDE DEF kept
    <1>3. \A i \in 1..Len(kept) : kept[i] \in ToSet(kept)
        BY <1>2 DEF ToSet
    <1>4. kept \in Seq(ToSet(kept))
        <2> DEFINE T == ToSet(kept)
        <2>1. \A i \in 1..Len(kept) : kept[i] \in T
            BY <1>3
        <2>2. Len(kept) \in Nat /\ kept = [i \in 1..Len(kept) |-> kept[i]]
            BY <1>2
        <2> HIDE DEF T
        <2>3. kept \in [1..Len(kept) -> T]
            BY <2>1, <2>2
        <2> QED
            BY <2>2, <2>3 DEF T
    <1> QED
        BY <1>2, <1>4 DEF kept, IsList

\* The lists of a copy.
LEMMA CopyLists ==
    ASSUME NEW s, IsSchema(s), NEW o
    PROVE  LET c == FilterSchemaObjects(s, o)
           IN  /\ c.name = s.name
               /\ c.lists["table"] = FilterTables(s.lists["table"], o)
               /\ c.lists["view"] = FilterViews(s.lists["view"], o)
               /\ c.lists["mview"] = FilterViews(s.lists["mview"], o)
               /\ c.lists["function"] = FilterFunctions(s.lists["function"], o)
               /\ c.lists["rule"] = <<>>
               /\ \A k \in Kinds \ {"table", "view", "mview", "function", "rule"} :
                    c.lists[k] = s.lists[k]
    <1> DEFINE c == FilterSchemaObjects(s, o)
               lists == s.lists
    <1>1. DOMAIN lists = Kinds /\ {"name", "lists"} \subseteq DOMAIN s
        BY DEF IsSchema
    <1>2. c.name = s.name /\ c.lists = FilterLists(lists, o)
        BY <1>1 DEF FilterSchemaObjects
    <1> HIDE DEF c, lists
    <1>3. {"table", "view", "mview", "function", "rule"} \subseteq DOMAIN lists
        BY <1>1 DEF Kinds
    <1> QED
        BY <1>1, <1>2, <1>3 DEF FilterLists, lists, c

LEMMA CopyHolds ==
    ASSUME NEW s, IsSchema(s), NEW o
    PROVE  LET c == FilterSchemaObjects(s, o)
           IN  /\ c.name = s.name
               /\ \A k \in Kinds : IsList(c.lists[k])
               /\ \A k \in Kinds :
                    ToSet(c.lists[k]) = {x \in ToSet(s.lists[k]) : KeptInSchema(o, k, x)}
    <1> DEFINE c == FilterSchemaObjects(s, o)
               L(k) == s.lists[k]
               Good(k, l) == IsList(l) /\ ToSet(l) = {x \in ToSet(L(k)) : KeptInSchema(o, k, x)}
    <1>1. \A k \in Kinds : IsList(L(k))
        BY DEF IsSchema
    <1>2. /\ c.name = s.name
          /\ c.lists["table"] = FilterTables(L("table"), o)
          /\ c.lists["view"] = FilterViews(L("view"), o)
          /\ c.lists["mview"] = FilterViews(L("mview"), o)
          /\ c.lists["function"] = FilterFunctions(L("function"), o)
          /\ c.lists["rule"] = <<>>
          /\ \A k \in Kinds \ {"table", "view", "mview", "function", "rule"} : c.lists[k] = L(k)
        BY CopyLists
    <1> HIDE DEF c, L
    <1>3. Good("table", FilterTables(L("table"), o))
        BY <1>1, KeptMembers DEF FilterTables, KeptInSchema, Kinds
    <1>4. ASSUME NEW k \in {"view", "mview"}
          PROVE  Good(k, FilterViews(L(k), o))
        <2>1. IsList(L(k)) /\ FilteredViews(L(k), o) \subseteq ToSet(L(k))
            BY <1>1 DEF Kinds, FilteredViews
        <2> QED
            BY <2>1, KeptMembers DEF FilterViews, FilteredViews, KeptInSchema
    <1>5. Good("function", FilterFunctions(L("function"), o))
        BY <1>1, KeptMembers DEF FilterFunctions, KeptInSchema, Kinds
    <1>6. Good("rule", <<>>)
        BY DEF KeptInSchema, IsList, ToSet
    <1>7. ASSUME NEW k \in Kinds \ {"table", "view", "mview", "function", "rule"}
          PROVE  Good(k, L(k))
        BY <1>1 DEF KeptInSchema
    <1> HIDE DEF Good
    <1>8. \A k \in Kinds : Good(k, c.lists[k])
        BY <1>2, <1>3, <1>4, <1>5, <1>6, <1>7 DEF Kinds
    <1> QED
        BY <1>2, <1>8 DEF Good, c, L

\* A copy is empty for isSchemaEmpty exactly when it holds no object, and holds of its
\* schema what the options let through.
LEMMA CopyObjects ==
    ASSUME NEW s, IsSchema(s), NEW o
    PROVE  LET c == FilterSchemaObjects(s, o)
           IN  /\ ObjectsIn(c) = {x \in ObjectsIn(s) : KeptInSchema(o, x[2], x[3])}
               /\ IsSchemaEmpty(c) <=> ObjectsIn(c) = {}
    <1> DEFINE c == FilterSchemaObjects(s, o)
               L(k) == s.lists[k]
               M(k) == c.lists[k]
    <1>1. /\ c.name = s.name
          /\ \A k \in Kinds : IsList(M(k))
          /\ \A k \in Kinds : ToSet(M(k)) = {x \in ToSet(L(k)) : KeptInSchema(o, k, x)}
        BY CopyHolds
    <1>2. ObjectsIn(s) = UNION {{<<s.name, k, x>> : x \in ToSet(L(k))} : k \in Kinds}
        BY DEF ObjectsIn
    <1>3. ObjectsIn(c) = UNION {{<<s.name, k, x>> : x \in ToSet(M(k))} : k \in Kinds}
        BY <1>1 DEF ObjectsIn
    <1>4. IsSchemaEmpty(c) <=> \A k \in Kinds \ {"rule"} : M(k) = <<>>
        BY DEF IsSchemaEmpty
    <1> HIDE DEF c, L, M
    <1>5. ObjectsIn(c) = {x \in ObjectsIn(s) : KeptInSchema(o, x[2], x[3])}
        BY <1>1, <1>2, <1>3
    <1>6. \A k \in Kinds : M(k) = <<>> <=> ToSet(M(k)) = {}
        BY <1>1, EmptyList
    <1>7. "rule" \in Kinds /\ ToSet(M("rule")) = {}
        BY <1>1 DEF KeptInSchema, Kinds
    <1>8. ObjectsIn(c) = {} <=> \A k \in Kinds : ToSet(M(k)) = {}
        <2>1. \A k \in Kinds : \A x \in ToSet(M(k)) : <<s.name, k, x>> \in ObjectsIn(c)
            BY <1>3
        <2>2. \A x \in ObjectsIn(c) : \E k \in Kinds : ToSet(M(k)) # {}
            BY <1>3
        <2> QED
            BY <2>1, <2>2
    <1> QED
        BY <1>4, <1>5, <1>6, <1>7, <1>8 DEF c

\* The copies a filtered database consists of.
LEMMA FilteredCopies ==
    ASSUME NEW d, IsList(d), \A s \in ToSet(d) : IsSchema(s), NEW o, o # Nil
    PROVE  /\ IsList(FilterSchema(d, o))
           /\ ToSet(FilterSchema(d, o)) =
                {c \in {FilterSchemaObjects(s, o) :
                            s \in {s \in ToSet(d) : ShouldIncludeSchema(s.name, o)}} :
                    o.removeEmpty => ~IsSchemaEmpty(c)}
    <1> DEFINE passing == {s \in ToSet(d) : ShouldIncludeSchema(s.name, o)}
               included == KeepOnly(d, passing)
               copies == [i \in DOMAIN included |-> FilterSchemaObjects(included[i], o)]
               left == {c \in ToSet(copies) : o.removeEmpty => ~IsSchemaEmpty(c)}
    <1>1. FilterSchema(d, o) = KeepOnly(copies, left)
        BY DEF FilterSchema
    <1>2. IsList(included) /\ ToSet(included) = passing
        <2>1. passing \subseteq ToSet(d)
            OBVIOUS
        <2> HIDE DEF passing
        <2> QED
            BY <2>1, KeptMembers
    <1> HIDE DEF included
    <1>3. ToSet(copies) = {FilterSchemaObjects(s, o) : s \in passing}
        <2> HIDE DEF passing
        <2> QED
            BY <1>2 DEF ToSet
    <1>4. IsList(copies)
        <2> DEFINE T == ToSet(copies)
        <2>1. DOMAIN included = 1..Len(included) /\ Len(included) \in Nat
            BY <1>2 DEF IsList
        <2>2. \A i \in 1..Len(included) : copies[i] \in T
            BY <2>1 DEF ToSet
        <2>3. copies = [i \in 1..Len(included) |-> copies[i]]
            BY <2>1
        <2> HIDE DEF T, copies
        <2>4. copies \in [1..Len(included) -> T]
            BY <2>2, <2>3
        <2>5. copies \in Seq(T)
            BY <2>1, <2>4
        <2> QED
            BY <2>5 DEF IsList, T
    <1>5. left \subseteq ToSet(copies)
        OBVIOUS
    <1>6. IsList(KeepOnly(copies, left)) /\ ToSet(KeepOnly(copies, left)) = left
        <2> HIDE DEF copies, left
        <2> QED
            BY <1>4, <1>5, KeptMembers
    <1> QED
        BY <1>1, <1>3, <1>6

\* Of a database: the objects the options keep, rules excepted, and the schemas with
\* something in them, or all that are included.
LEMMA FilterSchemaIsExact ==
    ASSUME NEW d, IsList(d), \A s \in ToSet(d) : IsSchema(s), NEW o, o # Nil
    PROVE  LET f == FilterSchema(d, o)
           IN  /\ Objects(f) = {x \in Objects(d) : x[2] # "rule" /\ Keeps(o, x[1], x[2], x[3])}
               /\ SchemasOf(f) =
                    {n \in SchemasOf(d) : /\ ShouldIncludeSchema(n, o)
                                          /\ o.removeEmpty => \E x \in Objects(f) : x[1] = n}
    <1> DEFINE f == FilterSchema(d, o)
               Copy(s) == FilterSchemaObjects(s, o)
               S == ToSet(d)
               F == ToSet(f)
               In(s) == ShouldIncludeSchema(s.name, o)
    <1>1. Objects(d) = UNION {ObjectsIn(s) : s \in S} /\ Objects(f) = UNION {ObjectsIn(s) : s \in F}
        BY DEF Objects, ObjectsIn, ToSet
    <1>2. SchemasOf(d) = {s.name : s \in S} /\ SchemasOf(f) = {s.name : s \in F}
        BY DEF SchemasOf, ToSet
    <1>3. F = {c \in {Copy(s) : s \in {s \in S : In(s)}} : o.removeEmpty => ~IsSchemaEmpty(c)}
        BY FilteredCopies
    <1>4. ASSUME NEW s \in S
          PROVE  /\ Copy(s).name = s.name
                 /\ ObjectsIn(Copy(s)) = {x \in ObjectsIn(s) : KeptInSchema(o, x[2], x[3])}
                 /\ IsSchemaEmpty(Copy(s)) <=> ObjectsIn(Copy(s)) = {}
        BY CopyHolds, CopyObjects
    <1>5. ASSUME NEW s, NEW x \in ObjectsIn(s)
          PROVE  x[1] = s.name
        BY DEF ObjectsIn
    <1>6. ASSUME NEW s, NEW x \in ObjectsIn(s)
          PROVE  x[2] # "rule" /\ Keeps(o, x[1], x[2], x[3]) <=> In(s) /\ KeptInSchema(o, x[2], x[3])
        BY <1>5 DEF Keeps, KeptInSchema
    <1> HIDE DEF f, Copy, S, F, In
    <1>7. Objects(f) = {x \in Objects(d) : x[2] # "rule" /\ Keeps(o, x[1], x[2], x[3])}
        <2>1. ASSUME NEW x \in Objects(f)
              PROVE  x \in Objects(d) /\ x[2] # "rule" /\ Keeps(o, x[1], x[2], x[3])
            <3>1. PICK s \in S : In(s) /\ x \in ObjectsIn(Copy(s))
                BY <1>1, <1>3
            <3>2. x \in ObjectsIn(s) /\ KeptInSchema(o, x[2], x[3])
                BY <1>4, <3>1
            <3> QED
                BY <1>1, <1>6, <3>1, <3>2
        <2>2. ASSUME NEW x \in Objects(d), x[2] # "rule", Keeps(o, x[1], x[2], x[3])
              PROVE  x \in Objects(f)
            <3>1. PICK s \in S : x \in ObjectsIn(s)
                BY <1>1
            <3>2. In(s) /\ x \in ObjectsIn(Copy(s))
                BY <1>4, <1>6, <2>2, <3>1
            <3>3. Copy(s) \in F
                BY <1>3, <1>4, <3>2
            <3> QED
                BY <1>1, <3>2, <3>3
        <2> QED
            BY <2>1, <2>2
    <1>8. ASSUME NEW n \in SchemasOf(f)
          PROVE  /\ n \in SchemasOf(d) /\ ShouldIncludeSchema(n, o)
                 /\ o.removeEmpty => \E x \in Objects(f) : x[1] = n
        <2>1. PICK s \in S : /\ In(s) /\ Copy(s) \in F /\ n = Copy(s).name
                             /\ o.removeEmpty => ~IsSchemaEmpty(Copy(s))
            BY <1>2, <1>3
        <2>2. n = s.name /\ ShouldIncludeSchema(n, o)
            BY <1>4, <2>1 DEF In
        <2>3. ASSUME o.removeEmpty
              PROVE  \E x \in Objects(f) : x[1] = n
            <3>1. PICK x : x \in ObjectsIn(Copy(s))
                BY <1>4, <2>1, <2>3
            <3>2. x \in Objects(f) /\ x[1] = Copy(s).name
                BY <1>1, <1>5, <2>1, <3>1
            <3> QED
                BY <2>1, <3>2
        <2> QED
            BY <1>2, <2>2, <2>3
    <1>9. ASSUME NEW n \in SchemasOf(d), ShouldIncludeSchema(n, o),
                 o.removeEmpty => \E x \in Objects(f) : x[1] = n
          PROVE  n \in SchemasOf(f)
        <2>1. CASE o.removeEmpty
            <3>1. PICK x \in Objects(f) : x[1] = n
                BY <1>9, <2>1
            <3>2. PICK c \in F : x \in ObjectsIn(c)
                BY <1>1
            <3> QED
                BY <1>2, <1>5, <3>1, <3>2
        <2>2. CASE ~o.removeEmpty
            <3>1. PICK s \in S : n = s.name
                BY <1>2
            <3>2. In(s)
                BY <1>9, <3>1 DEF In
            <3>3. Copy(s) \in F
                BY <1>3, <2>2, <3>2
            <3> QED
                BY <1>2, <1>4, <3>1, <3>3
        <2> QED
            BY <2>1, <2>2
    <1>10. SchemasOf(f) = {n \in SchemasOf(d) : /\ ShouldIncludeSchema(n, o)
                                                /\ o.removeEmpty => \E x \in Objects(f) : x[1] = n}
        BY <1>8, <1>9
    <1> QED
        BY <1>7, <1>10 DEF f

-----------------------------------------------------------------------------
(***************************************************************************)
(* The filters of a caller who exports what is left.                       *)
(***************************************************************************)
\* What was filtered is what FilterSchema makes of the database.
FilteredInv == FilterInv /\ (step = "filtered" => filtered = FilterSchema(db, opts))

LEMMA FilteredInitially == DumpInit => FilteredInv
    BY OptionsInitially DEF DumpInit, Init, FilteredInv

LEMMA FilteredKept == FilteredInv /\ [DumpNext]_dumpVars => FilteredInv'
    <1> SUFFICES ASSUME FilteredInv, [DumpNext]_dumpVars PROVE FilteredInv'
        OBVIOUS
    <1> USE DEF FilteredInv
    <1>1. CASE FilterStep
        <2>1. FilterInv'
            BY <1>1, OptionsKept DEF FilterStep
        <2>2. CASE Apply
            BY <2>1, <2>2 DEF Apply
        <2>3. CASE ~Apply
            <3>1. step' = step /\ step = "building"
                BY <1>1, <2>3 DEF FilterStep, Next, Construct, Called, WithIncludeSchemas,
                    WithExcludeSchemas, WithIncludeTablesPattern, WithExcludeTablesPattern,
                    WithBadPattern, WithTableSizeRange, WithRemoveEmptySchemas, SetPatterns
            <3> QED
                BY <2>1, <3>1
        <2> QED
            BY <2>2, <2>3
    <1>2. CASE ExportStep
        BY <1>2 DEF ExportStep, Export!ExportSQL, FilterInv
    <1>3. CASE ReplayStep
        BY <1>3 DEF ReplayStep, Export!RunStatement, FilterInv
    <1>4. CASE UNCHANGED dumpVars
        BY <1>4 DEF dumpVars, FilterInv
    <1> QED
        BY <1>1, <1>2, <1>3, <1>4 DEF DumpNext

\* Whatever calls were made on the filters, their combination keeps of the database what
\* all of them keep, and no more unless include lists of one kind meet
\* (filter.go 345-386).
THEOREM CombinationIsIntersection == DumpSpec => []CombineIsIntersection
    <1>1. FilteredInv => CombineIsIntersection
        <2> SUFFICES ASSUME FilterInv, NEW x \in Objects(db)
                     PROVE  LET combined == Keeps(CombineFilters(filters), x[1], x[2], x[3])
                                byAll == \A o \in Given(filters) : Keeps(o, x[1], x[2], x[3])
                            IN  /\ byAll => combined
                                /\ combined /\ ~IncludesClash(Given(filters)) => byAll
            BY DEF CombineIsIntersection, FilteredInv
        <2>1. db \in Databases /\ filters \in Seq(OptionRecords \cup {Nil})
            BY DEF FilterInv
        <2>2. x[2] = "table" => x[3].size \in Nat
            BY <2>1, ObjectOfDatabase
        <2> QED
            BY <2>1, <2>2, CombinationCuts
    <1> QED
        BY <1>1, FilteredInitially, FilteredKept, PTL DEF DumpSpec

\* The copy holds what the options keep, rules excepted, and no other object; no schema
\* is missing and none is left over (filter.go 42-106).
THEOREM FilteredCopyIsExact == DumpSpec => []FilteredIsExact
    <1>1. FilteredInv => FilteredIsExact
        <2> SUFFICES ASSUME FilteredInv, step = "filtered", opts # Nil
                     PROVE  FilteredIsExact
            BY DEF FilteredIsExact
        <2>1. filtered = FilterSchema(db, opts) /\ IsList(db) /\ \A s \in ToSet(db) : IsSchema(s)
            BY DatabaseIsList DEF FilteredInv, FilterInv
        <2> QED
            BY <2>1, FilterSchemaIsExact DEF FilteredIsExact
    <1> QED
        BY <1>1, FilteredInitially, FilteredKept, PTL DEF DumpSpec
-----------------------------------------------------------------------------
(***************************************************************************)
(* Lists of lists, joined.                                                 *)
(***************************************************************************)
\* Two lists joined: its members and where they stand.
LEMMA Joined ==
    ASSUME NEW a, IsList(a), NEW b, IsList(b)
    PROVE  /\ IsList(a \o b)
           /\ Len(a \o b) = Len(a) + Len(b)
           /\ ToSet(a \o b) = ToSet(a) \cup ToSet(b)
           /\ \A i \in 1..Len(a) : (a \o b)[i] = a[i]
           /\ \A i \in 1..Len(b) : (a \o b)[Len(a) + i] = b[i]
    <1> DEFINE S == ToSet(a) \cup ToSet(b)
               n == Len(a)
               m == Len(b)
               c == a \o b
    <1>1. a \in Seq(S) /\ b \in Seq(S)
        <2>1. a \in Seq(ToSet(a)) /\ b \in Seq(ToSet(b))
            BY DEF IsList
        <2> QED
            BY <2>1
    <1> HIDE DEF S
    <1>2. /\ n \in Nat /\ m \in Nat /\ c \in Seq(S) /\ Len(c) = n + m
          /\ \A i \in 1..n : c[i] = a[i]
          /\ \A i \in 1..m : c[n + i] = b[i]
        BY <1>1
    <1>3. DOMAIN a = 1..n /\ DOMAIN b = 1..m /\ DOMAIN c = 1..(n + m)
        BY <1>1, <1>2
    <1> HIDE DEF c, n, m
    <1>4. ASSUME NEW i \in 1..(n + m)
          PROVE  c[i] \in S
        BY <1>2
    <1>5. ASSUME NEW x \in S
          PROVE  x \in ToSet(c)
        <2>1. CASE x \in ToSet(a)
            <3>1. PICK i \in 1..n : x = a[i]
                BY <1>3, <2>1 DEF ToSet
            <3>2. i \in 1..(n + m) /\ c[i] = x
                BY <1>2, <3>1
            <3> QED
                BY <1>3, <3>2 DEF ToSet
        <2>2. CASE x \in ToSet(b)
            <3>1. PICK i \in 1..m : x = b[i]
                BY <1>3, <2>2 DEF ToSet
            <3>2. n + i \in 1..(n + m) /\ c[n + i] = x
                BY <1>2, <3>1
            <3> QED
                BY <1>3, <3>2 DEF ToSet
        <2> QED
            BY <2>1, <2>2 DEF S
    <1>6. ToSet(c) = S
        BY <1>3, <1>4, <1>5 DEF ToSet
    <1>7. IsList(c)
        BY <1>2, <1>6 DEF IsList
    <1> QED
        BY <1>2, <1>6, <1>7 DEF S, c, n, m

\* FlattenSeq joins one list after another.
Flattens(f, seqs) ==
    /\ DOMAIN f = 0..Len(seqs) /\ f[0] = <<>>
    /\ \A i \in 1..Len(seqs) : f[i] = f[i - 1] \o seqs[i]
    /\ \A i \in 0..Len(seqs) : IsList(f[i])
    /\ FlattenSeq(seqs) = f[Len(seqs)]

\* What a list is made of.
LEMMA EmptyIsList == IsList(<<>>) /\ ToSet(<<>>) = {} /\ Len(<<>>) = 0
    BY DEF IsList, ToSet

LEMMA ListFacts ==
    ASSUME NEW list, IsList(list)
    PROVE  /\ Len(list) \in Nat /\ DOMAIN list = 1..Len(list)
           /\ \A i \in 1..Len(list) : list[i] \in ToSet(list)
           /\ \A x \in ToSet(list) : \E i \in 1..Len(list) : x = list[i]
           /\ Len(list) = 0 => list = <<>>
    BY DEF IsList, ToSet

LEMMA FlattenSteps ==
    ASSUME NEW seqs, IsList(seqs), \A x \in ToSet(seqs) : IsList(x)
    PROVE  \E f : Flattens(f, seqs)
    <1> DEFINE n == Len(seqs)
               T == UNION {ToSet(x) : x \in ToSet(seqs)}
               V == Seq(T)
               Extend(i, v) == v \o seqs[i]
               next == [i \in 1..n |-> [v \in V |-> Extend(i, v)]]
    <1>1. n \in Nat /\ \A i \in 1..n : IsList(seqs[i]) /\ seqs[i] \in ToSet(seqs)
        BY ListFacts
    <1>2. \A i \in 1..n : seqs[i] \in V
        <2> SUFFICES ASSUME NEW i \in 1..n PROVE seqs[i] \in V
            OBVIOUS
        <2>1. seqs[i] \in Seq(ToSet(seqs[i])) /\ ToSet(seqs[i]) \subseteq T
            BY <1>1 DEF IsList
        <2> HIDE DEF T
        <2> QED
            BY <2>1
    <1>3. ASSUME NEW v \in V
          PROVE  IsList(v)
        <2>1. Len(v) \in Nat /\ v \in [1..Len(v) -> T] /\ DOMAIN v = 1..Len(v)
            OBVIOUS
        <2>2. v \in [1..Len(v) -> ToSet(v)]
            BY <2>1 DEF ToSet
        <2> QED
            BY <2>1, <2>2 DEF IsList
    <1> HIDE DEF T
    <1>4. ASSUME NEW i \in 1..n, NEW v \in V
          PROVE  Extend(i, v) \in V
        BY <1>2
    <1>5. <<>> \in V
        OBVIOUS
    <1> HIDE DEF n, V
    <1>6. AreSteps(next, n, V)
        <2> HIDE DEF Extend
        <2> QED
            BY <1>4 DEF AreSteps
    <1>7. PICK f : Unfolds(f, <<>>, next, n, V)
        <2> HIDE DEF next
        <2> QED
            BY <1>1, <1>5, <1>6, RecursionExists
    <1>8. DOMAIN f = 0..n /\ f[0] = <<>> /\ \A i \in 0..n : f[i] \in V
        BY <1>7 DEF Unfolds
    <1>9. ASSUME NEW i \in 1..n
          PROVE  f[i] = f[i - 1] \o seqs[i]
        <2>1. f[i - 1] \in V
            BY <1>1, <1>8
        <2>2. f[i] = Extend(i, f[i - 1])
            <3> HIDE DEF Extend
            <3> QED
                BY <1>7, <2>1 DEF Unfolds
        <2> QED
            BY <2>2
    <1>10. FlattenSeq(seqs) = f[n]
        <2>1. CASE n = 0
            BY <1>8, <2>1, ListFacts DEF FlattenSeq, n
        <2>2. CASE n # 0
            <3> DEFINE Value(g, i) == IF i = 1 THEN seqs[i] ELSE g[i - 1] \o seqs[i]
                       Flat(g) == g = [i \in 1..n |-> Value(g, i)]
                       flatten == CHOOSE g : Flat(g)
                       rest == [i \in 1..n |-> f[i]]
            <3>1. FlattenSeq(seqs) = flatten[n]
                BY <2>2 DEF FlattenSeq, n
            <3>2. <<>> \o seqs[1] = seqs[1]
                <4>1. seqs[1] \in Seq(ToSet(seqs[1]))
                    BY <1>1, <2>2 DEF IsList
                <4> QED
                    BY <4>1
            <3>a. f[1] = seqs[1]
                <4>1. 1 \in 1..n /\ 1 - 1 = 0
                    BY <1>1, <2>2
                <4>2. f[1] = f[0] \o seqs[1]
                    BY <1>9, <4>1
                <4> QED
                    BY <1>8, <3>2, <4>2
            <3>3. ASSUME NEW i \in 1..n
                  PROVE  rest[i] = Value(rest, i)
                <4>1. CASE i = 1
                    BY <3>a, <4>1
                <4>2. CASE i # 1
                    <5>1. i - 1 \in 1..n
                        BY <1>1, <4>2
                    <5> QED
                        BY <1>9, <4>2, <5>1
                <4> QED
                    BY <4>1, <4>2
            <3>4. Flat(rest)
                <4> HIDE DEF Value
                <4> QED
                    BY <3>3
            <3> HIDE DEF flatten
            <3>5. Flat(flatten)
                <4> HIDE DEF Flat
                <4> QED
                    BY <3>4 DEF flatten
            <3>6. ASSUME NEW i \in 1..n
                  PROVE  flatten[i] = Value(flatten, i)
                <4> HIDE DEF Value
                <4> QED
                    BY <3>5
            <3> DEFINE good == {0} \cup {i \in 1..n : flatten[i] = f[i]}
            <3>7. ASSUME NEW i \in 1..n, i - 1 \in good
                  PROVE  i \in good
                <4>1. CASE i = 1
                    BY <3>a, <3>6, <4>1
                <4>2. CASE i # 1
                    <5>1. i - 1 \in 1..n /\ flatten[i - 1] = f[i - 1]
                        BY <1>1, <3>7, <4>2
                    <5> QED
                        BY <1>9, <3>6, <4>2, <5>1
                <4> QED
                    BY <4>1, <4>2
            <3>8. 0..n \subseteq good
                <4>1. 0 \in good
                    OBVIOUS
                <4> HIDE DEF good
                <4> QED
                    BY <1>1, <3>7, <4>1, EveryPosition
            <3> QED
                BY <1>1, <2>2, <3>1, <3>8
        <2> QED
            BY <2>1, <2>2
    <1>11. Flattens(f, seqs)
        BY <1>3, <1>8, <1>9, <1>10 DEF Flattens, n
    <1> QED
        BY <1>11

-----------------------------------------------------------------------------
(***************************************************************************)
(* A script run from what is present.                                      *)
(***************************************************************************)
\* What there is after a statement, and after each statement of a list.
Present(before, statement) ==
    IF Export!Succeeds(statement, before) THEN before \cup statement.makes ELSE before
Ran(present, list) ==
    LET ran[i \in 0..Len(list)] ==
            IF i = 0 THEN present ELSE Present(ran[i - 1], list[i])
    IN  ran
After(present, list) == Ran(present, list)[Len(list)]
MadeBy(list) == UNION {x.makes : x \in ToSet(list)}

LEMMA RanSteps ==
    ASSUME NEW present, NEW list, IsList(list)
    PROVE  /\ Ran(present, list)[0] = present
           /\ \A i \in 1..Len(list) :
                Ran(present, list)[i] = Present(Ran(present, list)[i - 1], list[i])
    <1> DEFINE n == Len(list)
               U == present \cup MadeBy(list)
               V == SUBSET U
               next == [i \in 1..n |-> [v \in V |-> Present(v, list[i])]]
               Value(g, i) == IF i = 0 THEN present ELSE Present(g[i - 1], list[i])
               Runs(g) == g = [i \in 0..n |-> Value(g, i)]
               ran == CHOOSE g : Runs(g)
    <1>1. n \in Nat /\ \A i \in 1..n : list[i].makes \subseteq U
        BY ListFacts DEF MadeBy
    <1>2. Ran(present, list) = ran
        BY DEF Ran
    <1>3. present \in V
        OBVIOUS
    <1>4. ASSUME NEW i \in 1..n, NEW v \in V
          PROVE  Present(v, list[i]) \in V
        BY <1>1 DEF Present
    <1> HIDE DEF n, U, V, ran
    <1>5. AreSteps(next, n, V)
        BY <1>4 DEF AreSteps
    <1>6. PICK f : Unfolds(f, present, next, n, V)
        <2> HIDE DEF next
        <2> QED
            BY <1>1, <1>3, <1>5, RecursionExists
    <1>7. f \in [0..n -> V] /\ f[0] = present
        BY <1>6 DEF Unfolds
    <1>8. ASSUME NEW i \in 1..n
          PROVE  f[i] = Present(f[i - 1], list[i])
        <2>1. f[i - 1] \in V
            BY <1>1, <1>6 DEF Unfolds
        <2>2. f[i] = next[i][f[i - 1]]
            BY <1>6 DEF Unfolds
        <2> QED
            BY <2>1, <2>2
    <1>9. Runs(f)
        <2>1. ASSUME NEW i \in 0..n
              PROVE  f[i] = Value(f, i)
            <3>1. CASE i = 0
                BY <1>7, <3>1
            <3>2. CASE i # 0
                <4>1. i \in 1..n
                    BY <1>1, <3>2
                <4> QED
                    BY <1>8, <3>2, <4>1
            <3> QED
                BY <3>1, <3>2
        <2> HIDE DEF Value
        <2> QED
            BY <1>7, <2>1
    <1>10. Runs(ran)
        <2> HIDE DEF Runs
        <2> QED
            BY <1>9 DEF ran
    <1>11. ASSUME NEW i \in 0..n
           PROVE  ran[i] = Value(ran, i)
        <2> HIDE DEF Value
        <2> QED
            BY <1>10
    <1>12. ran[0] = present
        BY <1>1, <1>11
    <1>13. ASSUME NEW i \in 1..n
           PROVE  ran[i] = Present(ran[i - 1], list[i])
        <2>1. i \in 0..n /\ i # 0
            BY <1>1
        <2> QED
            BY <1>11, <2>1
    <1> QED
        BY <1>2, <1>12, <1>13 DEF n

\* There is one such function.
LEMMA RanIsUnique ==
    ASSUME NEW present, NEW list, IsList(list), NEW f, f[0] = present,
           \A i \in 1..Len(list) : f[i] = Present(f[i - 1], list[i])
    PROVE  \A i \in 0..Len(list) : f[i] = Ran(present, list)[i]
    <1> DEFINE n == Len(list)
               ran == Ran(present, list)
               good == {i \in 0..n : f[i] = ran[i]}
    <1>1. ran[0] = present /\ \A i \in 1..n : ran[i] = Present(ran[i - 1], list[i])
        BY RanSteps
    <1>2. n \in Nat
        BY ListFacts
    <1> HIDE DEF ran, n
    <1>3. 0 \in good
        BY <1>1, <1>2
    <1>4. ASSUME NEW i \in 1..n, i - 1 \in good
          PROVE  i \in good
        <2>1. i \in 0..n /\ f[i - 1] = ran[i - 1]
            BY <1>2, <1>4
        <2>2. f[i] = Present(f[i - 1], list[i])
            BY DEF n
        <2> QED
            BY <1>1, <2>1, <2>2
    <1>5. 0..n \subseteq good
        <2> HIDE DEF good
        <2> QED
            BY <1>2, <1>3, <1>4, EveryPosition
    <1> QED
        BY <1>5 DEF ran, n

\* Of two lists one after the other, the second begins with what the first has left.
LEMMA RanJoined ==
    ASSUME NEW present, NEW a, IsList(a), NEW b, IsList(b)
    PROVE  After(present, a \o b) = After(After(present, a), b)
    <1> DEFINE n == Len(a)
               m == Len(b)
               c == a \o b
               ran == Ran(present, c)
               first == Ran(present, a)
               middle == first[n]
               later == [i \in 0..m |-> ran[n + i]]
               second == Ran(middle, b)
    <1>1. n \in Nat /\ m \in Nat
        BY ListFacts
    <1>2. /\ IsList(c) /\ Len(c) = n + m
          /\ \A i \in 1..n : c[i] = a[i]
          /\ \A i \in 1..m : c[n + i] = b[i]
        BY Joined
    <1> HIDE DEF n, m, c, first, second, middle, ran
    <1>3. ran[0] = present /\ \A i \in 1..(n + m) : ran[i] = Present(ran[i - 1], c[i])
        BY <1>2, RanSteps DEF ran
    <1>4. \A i \in 1..n : ran[i] = Present(ran[i - 1], a[i])
        <2> SUFFICES ASSUME NEW i \in 1..n PROVE ran[i] = Present(ran[i - 1], a[i])
            OBVIOUS
        <2>1. i \in 1..(n + m)
            BY <1>1
        <2> QED
            BY <1>2, <1>3, <2>1
    <1>5. \A i \in 0..n : ran[i] = first[i]
        BY <1>3, <1>4, RanIsUnique DEF n, first
    <1>6. ran[n] = middle
        BY <1>1, <1>5 DEF middle
    <1>7. later[0] = middle
        BY <1>1, <1>6
    <1>8. \A i \in 1..m : later[i] = Present(later[i - 1], b[i])
        <2> SUFFICES ASSUME NEW i \in 1..m PROVE later[i] = Present(later[i - 1], b[i])
            OBVIOUS
        <2>1. n + i \in 1..(n + m) /\ (n + i) - 1 = n + (i - 1) /\ i \in 0..m /\ i - 1 \in 0..m
            BY <1>1
        <2>2. ran[n + i] = Present(ran[n + (i - 1)], b[i])
            BY <1>2, <1>3, <2>1
        <2> QED
            BY <2>1, <2>2
    <1>9. \A i \in 0..m : later[i] = second[i]
        <2> HIDE DEF later
        <2> QED
            BY <1>7, <1>8, RanIsUnique DEF m, second
    <1>10. later[m] = ran[n + m]
        BY <1>1
    <1>11. ran[n + m] = second[m]
        <2> HIDE DEF later
        <2> QED
            BY <1>1, <1>9, <1>10
    <1> QED
        BY <1>2, <1>11 DEF After, ran, second, middle, first, n, m, c

LEMMA RanEmpty ==
    ASSUME NEW present
    PROVE  After(present, <<>>) = present
    BY EmptyIsList, RanSteps DEF After

\* What there is stays.
LEMMA RanGrows ==
    ASSUME NEW present, NEW list, IsList(list), NEW k \in 0..Len(list)
    PROVE  \A i \in 0..Len(list) : k <= i => Ran(present, list)[k] \subseteq Ran(present, list)[i]
    <1> DEFINE n == Len(list)
               ran == Ran(present, list)
               good == {i \in 0..n : k <= i => ran[k] \subseteq ran[i]}
    <1>1. \A i \in 1..n : ran[i] = Present(ran[i - 1], list[i])
        BY RanSteps
    <1>2. n \in Nat /\ k \in 0..n
        BY ListFacts
    <1> HIDE DEF ran, n
    <1>3. 0 \in good
        BY <1>2
    <1>4. ASSUME NEW i \in 1..n, i - 1 \in good
          PROVE  i \in good
        <2>1. ran[i - 1] \subseteq ran[i]
            BY <1>1 DEF Present
        <2>2. i \in 0..n /\ (k <= i - 1 => ran[k] \subseteq ran[i - 1])
            BY <1>2, <1>4
        <2>3. k = i \/ k <= i - 1 \/ k > i
            BY <1>2, <2>2
        <2> QED
            BY <1>2, <2>1, <2>2, <2>3
    <1>5. 0..n \subseteq good
        <2> HIDE DEF good
        <2> QED
            BY <1>2, <1>3, <1>4, EveryPosition
    <1> QED
        BY <1>5 DEF ran, n

LEMMA AfterGrows ==
    ASSUME NEW present, NEW list, IsList(list)
    PROVE  present \subseteq After(present, list)
    <1>1. 0 \in 0..Len(list) /\ Len(list) \in 0..Len(list) /\ 0 <= Len(list)
        BY ListFacts
    <1>2. Ran(present, list)[0] \subseteq Ran(present, list)[Len(list)]
        BY <1>1, RanGrows
    <1> QED
        BY <1>2, RanSteps DEF After

\* What a statement that needs nothing but what was there at first is to create, and
\* nothing else that must not be there yet, is there afterwards.
LEMMA NeedlessSucceeds ==
    ASSUME NEW present, NEW list, IsList(list), NEW x \in ToSet(list),
           x.parses, x.needs \subseteq present \cup x.makes,
           NEW id \in x.makes, x.fresh \subseteq {id}
    PROVE  id \in After(present, list)
    <1> DEFINE n == Len(list)
               ran == Ran(present, list)
    <1>1. PICK i \in 1..n : x = list[i]
        BY ListFacts
    <1>2. n \in Nat /\ 0 \in 0..n /\ n \in 0..n /\ i \in 0..n /\ i - 1 \in 0..n /\ 0 <= i - 1 /\ i <= n
        BY ListFacts
    <1>3. ran[0] = present /\ ran[i] = Present(ran[i - 1], x)
        BY <1>1, RanSteps
    <1>4. ran[0] \subseteq ran[i - 1] /\ ran[i] \subseteq ran[n]
        BY <1>2, RanGrows
    <1> HIDE DEF ran, n
    <1>5. id \in ran[i]
        <2>1. CASE id \in ran[i - 1]
            BY <1>3, <2>1 DEF Present
        <2>2. CASE id \notin ran[i - 1]
            <3>1. Export!Succeeds(x, ran[i - 1])
                BY <1>3, <1>4, <2>2 DEF Export!Succeeds
            <3> QED
                BY <1>3, <3>1 DEF Present
        <2> QED
            BY <2>1, <2>2
    <1>6. id \in ran[n]
        BY <1>4, <1>5
    <1> QED
        BY <1>6 DEF After, ran, n

\* If nothing fails there is, after each statement, what all so far have made.
LEMMA AllSucceeded ==
    ASSUME NEW present, NEW list, IsList(list),
           \A i \in 1..Len(list) : Export!Succeeds(list[i], Ran(present, list)[i - 1])
    PROVE  After(present, list) = present \cup MadeBy(list)
    <1> DEFINE n == Len(list)
               ran == Ran(present, list)
               UpTo(i) == UNION {list[j].makes : j \in 1..i}
               good == {i \in 0..n : ran[i] = present \cup UpTo(i)}
    <1>1. n \in Nat /\ ran[0] = present /\ \A i \in 1..n : ran[i] = Present(ran[i - 1], list[i])
        BY ListFacts, RanSteps
    <1>2. \A i \in 1..n : Export!Succeeds(list[i], ran[i - 1])
        OBVIOUS
    <1>3. MadeBy(list) = UpTo(n)
        <2>1. ToSet(list) = {list[j] : j \in 1..n}
            BY ListFacts DEF ToSet
        <2> HIDE DEF n
        <2> QED
            BY <2>1 DEF MadeBy
    <1> HIDE DEF ran, n
    <1>4. 0 \in good
        BY <1>1
    <1>5. ASSUME NEW i \in 1..n, i - 1 \in good
          PROVE  i \in good
        <2>1. i \in 0..n /\ 1..i = 1..(i - 1) \cup {i}
            BY <1>1
        <2>2. UpTo(i) = UpTo(i - 1) \cup list[i].makes
            BY <2>1
        <2>3. ran[i - 1] = present \cup UpTo(i - 1)
            BY <1>5
        <2> HIDE DEF UpTo
        <2>4. ran[i] = ran[i - 1] \cup list[i].makes
            BY <1>1, <1>2 DEF Present
        <2> QED
            BY <2>1, <2>2, <2>3, <2>4
    <1>6. 0..n \subseteq good
        <2> HIDE DEF good
        <2> QED
            BY <1>1, <1>4, <1>5, EveryPosition
    <1>7. ran[n] = present \cup UpTo(n)
        <2>1. n \in good
            BY <1>1, <1>6
        <2> QED
            BY <2>1
    <1> QED
        BY <1>3, <1>7 DEF After, ran, n

-----------------------------------------------------------------------------
(***************************************************************************)
(* The statements of a script are lists.                                   *)
(***************************************************************************)
IsTable(t) ==
    /\ IsList(t.columns) /\ IsList(t.fks) /\ IsList(t.checks)
    /\ IsList(t.indexes) /\ IsList(t.triggers)
Exportable(s) ==
    (\A k \in Kinds : IsList(s.lists[k])) /\ \A t \in ToSet(s.lists["table"]) : IsTable(t)

\* The operators on lists are the same in the module of the exporter.
LEMMA SameToSet == ASSUME NEW list PROVE Export!ToSet(list) = ToSet(list)
    BY DEF Export!ToSet, ToSet
LEMMA SameFlattenSeq == ASSUME NEW list PROVE Export!FlattenSeq(list) = FlattenSeq(list)
    BY DEF Export!FlattenSeq, FlattenSeq
LEMMA SameKeepOnly ==
    ASSUME NEW list, NEW passing
    PROVE  Export!KeepOnly(list, passing) = KeepOnly(list, passing)
    BY DEF Export!KeepOnly, KeepOnly

LEMMA FunctionIsList ==
    ASSUME NEW n \in Nat, NEW f, DOMAIN f = 1..n, f = [i \in 1..n |-> f[i]]
    PROVE  IsList(f) /\ Len(f) = n
    <1> DEFINE T == ToSet(f)
    <1>1. \A i \in 1..n : f[i] \in T
        BY DEF ToSet
    <1> HIDE DEF T
    <1>2. f \in [1..n -> T]
        BY <1>1
    <1>3. f \in Seq(T) /\ Len(f) = n
        BY <1>2
    <1> QED
        BY <1>3 DEF IsList, T

LEMMA FlattenMembers ==
    ASSUME NEW seqs, IsList(seqs), \A x \in ToSet(seqs) : IsList(x)
    PROVE  /\ IsList(FlattenSeq(seqs))
           /\ ToSet(FlattenSeq(seqs)) = UNION {ToSet(x) : x \in ToSet(seqs)}
    <1> DEFINE n == Len(seqs)
               UpTo(i) == UNION {ToSet(seqs[j]) : j \in 1..i}
    <1>1. PICK f : Flattens(f, seqs)
        BY FlattenSteps
    <1>2. n \in Nat /\ (\A i \in 1..n : IsList(seqs[i])) /\ ToSet(seqs) = {seqs[i] : i \in 1..n}
        BY ListFacts DEF ToSet
    <1>3. /\ f[0] = <<>> /\ FlattenSeq(seqs) = f[n]
          /\ \A i \in 1..n : f[i] = f[i - 1] \o seqs[i]
          /\ \A i \in 0..n : IsList(f[i])
        BY <1>1 DEF Flattens
    <1> HIDE DEF n
    <1> DEFINE good == {i \in 0..n : ToSet(f[i]) = UpTo(i)}
    <1>4. 0 \in good
        BY <1>2, <1>3, EmptyIsList
    <1>5. ASSUME NEW i \in 1..n, i - 1 \in good
          PROVE  i \in good
        <2>1. i \in 0..n /\ i - 1 \in 0..n /\ 1..i = 1..(i - 1) \cup {i}
            BY <1>2
        <2>2. UpTo(i) = UpTo(i - 1) \cup ToSet(seqs[i])
            BY <2>1
        <2>3. ToSet(f[i - 1]) = UpTo(i - 1)
            BY <1>5
        <2>4. ToSet(f[i - 1] \o seqs[i]) = ToSet(f[i - 1]) \cup ToSet(seqs[i])
            BY <1>2, <1>3, <2>1, Joined
        <2> HIDE DEF UpTo
        <2> QED
            BY <1>3, <2>1, <2>2, <2>3, <2>4
    <1>6. 0..n \subseteq good
        <2> HIDE DEF good
        <2> QED
            BY <1>2, <1>4, <1>5, EveryPosition
    <1>7. IsList(f[n]) /\ ToSet(f[n]) = UpTo(n)
        BY <1>2, <1>3, <1>6
    <1>8. UpTo(n) = UNION {ToSet(x) : x \in ToSet(seqs)}
        BY <1>2
    <1> QED
        BY <1>3, <1>7, <1>8

-----------------------------------------------------------------------------
LEMMA SingleList ==
    ASSUME NEW x
    PROVE  IsList(<<x>>) /\ ToSet(<<x>>) = {x} /\ Len(<<x>>) = 1
    BY DEF IsList, ToSet

\* A list made of another, member by member.
LEMMA ObjectStatements ==
    ASSUME NEW kind \in Kinds, NEW s, Exportable(s), NEW d
    PROVE  /\ IsList(Export!GenerateObjectDDLs(kind, s, d))
           /\ ToSet(Export!GenerateObjectDDLs(kind, s, d)) =
                {Export!CreateObject(kind, x, s.name, d) :
                    x \in {x \in ToSet(s.lists[kind]) : Export!WrittenIn(d, kind)}}
    <1> DEFINE l == s.lists[kind]
               out == [i \in DOMAIN l |-> Export!CreateObject(kind, l[i], s.name, d)]
    <1>1. IsList(l)
        BY DEF Exportable
    <1>2. Len(l) \in Nat /\ DOMAIN l = 1..Len(l) /\ ToSet(l) = {l[i] : i \in 1..Len(l)}
        BY <1>1, ListFacts DEF ToSet
    <1>3. Export!GenerateObjectDDLs(kind, s, d) = IF Export!WrittenIn(d, kind) THEN out ELSE <<>>
        BY DEF Export!GenerateObjectDDLs
    <1>4. IsList(out)
        <2>1. DOMAIN out = 1..Len(l) /\ out = [i \in 1..Len(l) |-> out[i]]
            BY <1>2
        <2> HIDE DEF out, l
        <2> QED
            BY <1>2, <2>1, FunctionIsList
    <1>5. ToSet(out) = {Export!CreateObject(kind, x, s.name, d) : x \in ToSet(l)}
        BY <1>2 DEF ToSet
    <1> HIDE DEF out, l
    <1>6. CASE Export!WrittenIn(d, kind)
        BY <1>3, <1>4, <1>5, <1>6 DEF l
    <1>7. CASE ~Export!WrittenIn(d, kind)
        BY <1>3, <1>7, EmptyIsList DEF l
    <1> QED
        BY <1>6, <1>7

LEMMA IndexStatements ==
    ASSUME NEW t, IsTable(t), NEW schema, NEW d
    PROVE  LET name == Export!QualifiedName(schema, t.name, d)
           IN  /\ IsList(Export!TableIndexes(t, schema, d))
               /\ ToSet(Export!TableIndexes(t, schema, d)) =
                    {Export!Create({Export!PartId("index", name, x.name)},
                                      {Export!Id("table", name)} \cup x.needs) :
                        x \in {x \in ToSet(t.indexes) : ~x.primary}}
    <1> DEFINE name == Export!QualifiedName(schema, t.name, d)
               MadeOf(x) == Export!Create({Export!PartId("index", name, x.name)},
                                           {Export!Id("table", name)} \cup x.needs)
               passing == {x \in ToSet(t.indexes) : ~x.primary}
               kept == KeepOnly(t.indexes, passing)
               out == [i \in DOMAIN kept |-> MadeOf(kept[i])]
    <1>1. Export!TableIndexes(t, schema, d) = out
        <2>1. Export!KeepOnly(t.indexes, {x \in Export!ToSet(t.indexes) : ~x.primary}) = kept
            BY SameKeepOnly, SameToSet
        <2> HIDE DEF kept
        <2> QED
            BY <2>1 DEF Export!TableIndexes
    <1>2. IsList(kept) /\ ToSet(kept) = passing
        <2>1. IsList(t.indexes) /\ passing \subseteq ToSet(t.indexes)
            BY DEF IsTable
        <2> HIDE DEF passing
        <2> QED
            BY <2>1, KeptMembers
    <1> HIDE DEF kept, MadeOf
    <1>3. Len(kept) \in Nat /\ DOMAIN kept = 1..Len(kept) /\ ToSet(kept) = {kept[i] : i \in 1..Len(kept)}
        BY <1>2, ListFacts DEF ToSet
    <1>4. IsList(out)
        <2>1. DOMAIN out = 1..Len(kept) /\ out = [i \in 1..Len(kept) |-> out[i]]
            BY <1>3
        <2> HIDE DEF out
        <2> QED
            BY <1>3, <2>1, FunctionIsList
    <1>5. ToSet(out) = {MadeOf(x) : x \in passing}
        <2> HIDE DEF passing
        <2> QED
            BY <1>2, <1>3 DEF ToSet
    <1> QED
        BY <1>1, <1>4, <1>5 DEF MadeOf

\* The statement of a trigger: its body, which is all of one or not.
TriggerStatement(x, name) ==
    IF x.statement
    THEN Export!Create({Export!PartId("trigger", name, x.name)}, {Export!Id("table", name)} \cup x.needs)
    ELSE Export!Create({}, x.needs)

LEMMA TriggerStatements ==
    ASSUME NEW t, IsTable(t), NEW schema, NEW d
    PROVE  /\ IsList(Export!TableTriggers(t, schema, d))
           /\ ToSet(Export!TableTriggers(t, schema, d)) =
                {TriggerStatement(x, Export!QualifiedName(schema, t.name, d)) : x \in ToSet(t.triggers)}
    <1> DEFINE name == Export!QualifiedName(schema, t.name, d)
               l == t.triggers
               out == [i \in DOMAIN l |-> TriggerStatement(l[i], name)]
    <1>1. Export!TableTriggers(t, schema, d) = out
        BY DEF Export!TableTriggers, TriggerStatement
    <1>2. IsList(l)
        BY DEF IsTable
    <1>3. Len(l) \in Nat /\ DOMAIN l = 1..Len(l) /\ ToSet(l) = {l[i] : i \in 1..Len(l)}
        BY <1>2, ListFacts DEF ToSet
    <1> HIDE DEF l, name
    <1>4. IsList(out)
        <2>1. DOMAIN out = 1..Len(l) /\ out = [i \in 1..Len(l) |-> out[i]]
            BY <1>3
        <2> HIDE DEF out
        <2> QED
            BY <1>3, <2>1, FunctionIsList
    <1>5. ToSet(out) = {TriggerStatement(x, name) : x \in ToSet(l)}
        BY <1>3 DEF ToSet
    <1> QED
        BY <1>1, <1>4, <1>5 DEF l, name

\* The statements of a table: it, its comment, its indexes, its triggers.
LEMMA TableStatements ==
    ASSUME NEW t, IsTable(t), NEW schema, NEW d
    PROVE  /\ IsList(Export!GenerateTableDDL(t, schema, d))
           /\ ToSet(Export!GenerateTableDDL(t, schema, d)) =
                {Export!CreateTable(t, schema, d)} \cup ToSet(Export!TableComment(t, schema, d))
                    \cup ToSet(Export!TableIndexes(t, schema, d))
                    \cup ToSet(Export!TableTriggers(t, schema, d))
    <1> DEFINE a == <<Export!CreateTable(t, schema, d)>>
               b == Export!TableComment(t, schema, d)
               c == Export!TableIndexes(t, schema, d)
               e == Export!TableTriggers(t, schema, d)
    <1>1. IsList(a) /\ ToSet(a) = {Export!CreateTable(t, schema, d)}
        BY SingleList
    <1>2. IsList(b)
        BY SingleList, EmptyIsList DEF Export!TableComment
    <1>3. IsList(c) /\ IsList(e)
        BY IndexStatements, TriggerStatements
    <1>4. Export!GenerateTableDDL(t, schema, d) = a \o b \o c \o e
        BY DEF Export!GenerateTableDDL
    <1> HIDE DEF a, b, c, e
    <1>5. IsList(a \o b) /\ ToSet(a \o b) = ToSet(a) \cup ToSet(b)
        BY <1>1, <1>2, Joined
    <1>6. IsList(a \o b \o c) /\ ToSet(a \o b \o c) = ToSet(a) \cup ToSet(b) \cup ToSet(c)
        BY <1>3, <1>5, Joined
    <1>7. IsList(a \o b \o c \o e)
          /\ ToSet(a \o b \o c \o e) = ToSet(a) \cup ToSet(b) \cup ToSet(c) \cup ToSet(e)
        BY <1>3, <1>6, Joined
    <1> QED
        BY <1>1, <1>4, <1>7 DEF b, c, e

LEMMA TablesStatements ==
    ASSUME NEW s, Exportable(s), NEW d
    PROVE  /\ IsList(Export!GenerateTables(s, d))
           /\ ToSet(Export!GenerateTables(s, d)) =
                UNION {ToSet(Export!GenerateTableDDL(t, s.name, d)) : t \in ToSet(s.lists["table"])}
    <1> DEFINE l == s.lists["table"]
               MadeOf(t) == Export!GenerateTableDDL(t, s.name, d)
               out == [i \in DOMAIN l |-> MadeOf(l[i])]
    <1>1. Export!GenerateTables(s, d) = FlattenSeq(out)
        BY SameFlattenSeq DEF Export!GenerateTables
    <1>2. IsList(l) /\ \A t \in ToSet(l) : IsTable(t)
        BY DEF Exportable, Kinds
    <1>3. Len(l) \in Nat /\ DOMAIN l = 1..Len(l) /\ ToSet(l) = {l[i] : i \in 1..Len(l)}
        BY <1>2, ListFacts DEF ToSet
    <1>4. \A t \in ToSet(l) : IsList(MadeOf(t))
        BY <1>2, TableStatements
    <1> HIDE DEF l, MadeOf
    <1>5. IsList(out)
        <2>1. DOMAIN out = 1..Len(l) /\ out = [i \in 1..Len(l) |-> out[i]]
            BY <1>3
        <2> HIDE DEF out
        <2> QED
            BY <1>3, <2>1, FunctionIsList
    <1>6. ToSet(out) = {MadeOf(t) : t \in ToSet(l)}
        BY <1>3 DEF ToSet
    <1> HIDE DEF out
    <1>7. /\ IsList(FlattenSeq(out))
          /\ ToSet(FlattenSeq(out)) = UNION {ToSet(x) : x \in ToSet(out)}
        BY <1>4, <1>5, <1>6, FlattenMembers
    <1>8. UNION {ToSet(x) : x \in ToSet(out)} = UNION {ToSet(MadeOf(t)) : t \in ToSet(l)}
        BY <1>6
    <1> QED
        BY <1>1, <1>7, <1>8 DEF l, MadeOf

-----------------------------------------------------------------------------
(***************************************************************************)
(* A schema's script, kind after kind.                                     *)
(***************************************************************************)
\* The lists a schema's script consists of: the schema itself, then kind after kind.
SchemaParts(s, d) ==
    [i \in 1..11 |->
        IF i = 1 THEN Export!CreateSchema(s, d)
        ELSE IF i = 5 THEN Export!GenerateTables(s, d)
        ELSE Export!GenerateObjectDDLs(Export!KindOrder[i - 1], s, d)]

LEMMA KindOrderIs ==
    /\ Export!KindOrder[1] = "extension" /\ Export!KindOrder[2] = "enum"
    /\ Export!KindOrder[3] = "sequence" /\ Export!KindOrder[4] = "table"
    /\ Export!KindOrder[5] = "view" /\ Export!KindOrder[6] = "mview"
    /\ Export!KindOrder[7] = "function" /\ Export!KindOrder[8] = "procedure"
    /\ Export!KindOrder[9] = "event" /\ Export!KindOrder[10] = "rule"
    /\ Len(Export!KindOrder) = 10
    BY DEF Export!KindOrder

LEMMA KindOrderHas ==
    /\ \A k \in 1..10 : Export!KindOrder[k] \in Kinds /\ (Export!KindOrder[k] = "table" <=> k = 4)
    /\ ToSet(Export!KindOrder) = {Export!KindOrder[k] : k \in 1..10}
    /\ ToSet(Export!KindOrder) = Kinds
    <1>1. \A k \in 1..10 : k = 1 \/ k = 2 \/ k = 3 \/ k = 4 \/ k = 5 \/ k = 6 \/ k = 7 \/ k = 8
                            \/ k = 9 \/ k = 10
        OBVIOUS
    <1>2. ToSet(Export!KindOrder) = {Export!KindOrder[k] : k \in 1..10}
        BY DEF ToSet, Export!KindOrder
    <1>3. \A k \in 1..10 : Export!KindOrder[k] \in Kinds /\ (Export!KindOrder[k] = "table" <=> k = 4)
        BY <1>1, KindOrderIs DEF Kinds
    <1>4. Kinds \subseteq {Export!KindOrder[k] : k \in 1..10}
        <2>1. 1 \in 1..10 /\ 2 \in 1..10 /\ 3 \in 1..10 /\ 4 \in 1..10 /\ 5 \in 1..10
              /\ 6 \in 1..10 /\ 7 \in 1..10 /\ 8 \in 1..10 /\ 9 \in 1..10 /\ 10 \in 1..10
            OBVIOUS
        <2> QED
            BY <2>1, KindOrderIs DEF Kinds
    <1> QED
        BY <1>2, <1>3, <1>4

LEMMA SchemaPartsAreLists ==
    ASSUME NEW s, Exportable(s), NEW d
    PROVE  /\ IsList(SchemaParts(s, d)) /\ Len(SchemaParts(s, d)) = 11
           /\ \A i \in 1..11 : IsList(SchemaParts(s, d)[i])
           /\ \A x \in ToSet(SchemaParts(s, d)) : IsList(x)
    <1> DEFINE parts == SchemaParts(s, d)
    <1>1. IsList(parts) /\ Len(parts) = 11
        <2>1. DOMAIN parts = 1..11 /\ parts = [i \in 1..11 |-> parts[i]]
            BY DEF SchemaParts
        <2> HIDE DEF parts
        <2> QED
            BY <2>1, FunctionIsList
    <1>2. ASSUME NEW i \in 1..11
          PROVE  IsList(parts[i])
        <2>1. CASE i = 1
            <3>1. IsList(Export!CreateSchema(s, d))
                BY SingleList, EmptyIsList DEF Export!CreateSchema
            <3> QED
                BY <2>1, <3>1 DEF SchemaParts
        <2>2. CASE i = 5
            BY <2>2, TablesStatements DEF SchemaParts
        <2>3. CASE i # 1 /\ i # 5
            <3>1. Export!KindOrder[i - 1] \in Kinds
                BY <2>3, KindOrderHas
            <3>2. IsList(Export!GenerateObjectDDLs(Export!KindOrder[i - 1], s, d))
                BY <3>1, ObjectStatements
            <3> QED
                BY <2>3, <3>2 DEF SchemaParts
        <2> QED
            BY <2>1, <2>2, <2>3
    <1> HIDE DEF parts
    <1>3. \A x \in ToSet(parts) : IsList(x)
        <2>1. \A x \in ToSet(parts) : \E i \in 1..Len(parts) : x = parts[i]
            BY <1>1, ListFacts
        <2>2. ASSUME NEW x \in ToSet(parts)
              PROVE  IsList(x)
            <3>1. PICK i \in 1..11 : x = parts[i]
                BY <1>1, <2>1
            <3> QED
                BY <1>2, <3>1
        <2> QED
            BY <2>2
    <1> QED
        BY <1>1, <1>2, <1>3 DEF parts

LEMMA SchemaIsItsParts ==
    ASSUME NEW s, Exportable(s), NEW d
    PROVE  Export!GenerateSchema(s, d) = FlattenSeq(SchemaParts(s, d))
    <1> DEFINE parts == SchemaParts(s, d)
               Of(kind) == Export!GenerateObjectDDLs(kind, s, d)
    <1>1. IsList(parts) /\ Len(parts) = 11 /\ (\A i \in 1..11 : IsList(parts[i]))
          /\ \A x \in ToSet(parts) : IsList(x)
        BY SchemaPartsAreLists
    <1>2. /\ parts[1] = Export!CreateSchema(s, d)
          /\ parts[2] = Of("extension") /\ parts[3] = Of("enum") /\ parts[4] = Of("sequence")
          /\ parts[5] = Export!GenerateTables(s, d)
          /\ parts[6] = Of("view") /\ parts[7] = Of("mview") /\ parts[8] = Of("function")
          /\ parts[9] = Of("procedure") /\ parts[10] = Of("event") /\ parts[11] = Of("rule")
        BY KindOrderIs DEF SchemaParts
    <1>3. Export!GenerateSchema(s, d) =
            parts[1] \o parts[2] \o parts[3] \o parts[4] \o parts[5] \o parts[6] \o parts[7]
                \o parts[8] \o parts[9] \o parts[10] \o parts[11]
        BY <1>2 DEF Export!GenerateSchema
    <1> HIDE DEF parts
    <1>4. PICK f : Flattens(f, parts)
        BY <1>1, FlattenSteps
    <1>5. f[0] = <<>> /\ FlattenSeq(parts) = f[11]
        BY <1>1, <1>4 DEF Flattens
    <1>6. ASSUME NEW i \in 1..11
          PROVE  f[i] = f[i - 1] \o parts[i]
        BY <1>1, <1>4 DEF Flattens
    <1>7. f[1] = parts[1]
        <2>1. 1 \in 1..11 /\ 1 - 1 = 0
            OBVIOUS
        <2>2. f[1] = f[0] \o parts[1]
            BY <1>6, <2>1
        <2>3. <<>> \o parts[1] = parts[1]
            <3>1. parts[1] \in Seq(ToSet(parts[1]))
                BY <1>1, <2>1 DEF IsList
            <3> QED
                BY <3>1
        <2> QED
            BY <1>5, <2>2, <2>3
    <1>8. f[2] = f[1] \o parts[2]
        <2>1. 2 \in 1..11 /\ 2 - 1 = 1
            OBVIOUS
        <2> QED
            BY <1>6, <2>1
    <1>9. f[3] = f[2] \o parts[3]
        <2>1. 3 \in 1..11 /\ 3 - 1 = 2
            OBVIOUS
        <2> QED
            BY <1>6, <2>1
    <1>10. f[4] = f[3] \o parts[4]
        <2>1. 4 \in 1..11 /\ 4 - 1 = 3
            OBVIOUS
        <2> QED
            BY <1>6, <2>1
    <1>11. f[5] = f[4] \o parts[5]
        <2>1. 5 \in 1..11 /\ 5 - 1 = 4
            OBVIOUS
        <2> QED
            BY <1>6, <2>1
    <1>12. f[6] = f[5] \o parts[6]
        <2>1. 6 \in 1..11 /\ 6 - 1 = 5
            OBVIOUS
        <2> QED
            BY <1>6, <2>1
    <1>13. f[7] = f[6] \o parts[7]
        <2>1. 7 \in 1..11 /\ 7 - 1 = 6
            OBVIOUS
        <2> QED
            BY <1>6, <2>1
    <1>14. f[8] = f[7] \o parts[8]
        <2>1. 8 \in 1..11 /\ 8 - 1 = 7
            OBVIOUS
        <2> QED
            BY <1>6, <2>1
    <1>15. f[9] = f[8] \o parts[9]
        <2>1. 9 \in 1..11 /\ 9 - 1 = 8
            OBVIOUS
        <2> QED
            BY <1>6, <2>1
    <1>16. f[10] = f[9] \o parts[10]
        <2>1. 10 \in 1..11 /\ 10 - 1 = 9
            OBVIOUS
        <2> QED
            BY <1>6, <2>1
    <1>17. f[11] = f[10] \o parts[11]
        <2>1. 11 \in 1..11 /\ 11 - 1 = 10
            OBVIOUS
        <2> QED
            BY <1>6, <2>1
    <1> QED
        BY <1>3, <1>5, <1>7, <1>8, <1>9, <1>10, <1>11, <1>12, <1>13, <1>14, <1>15, <1>16, <1>17, Zenon
           DEF parts

-----------------------------------------------------------------------------
\* A list of lists is run one after the other.
RunsThrough(there, present, seqs) ==
    /\ there[0] = present
    /\ \A i \in 1..Len(seqs) : there[i] = After(there[i - 1], seqs[i])
    /\ there[Len(seqs)] = After(present, FlattenSeq(seqs))

LEMMA FlattenRuns ==
    ASSUME NEW present, NEW seqs, IsList(seqs), \A x \in ToSet(seqs) : IsList(x)
    PROVE  \E there : RunsThrough(there, present, seqs)
    <1> DEFINE n == Len(seqs)
    <1>1. PICK f : Flattens(f, seqs)
        BY FlattenSteps
    <1>2. n \in Nat /\ \A i \in 1..n : IsList(seqs[i])
        BY ListFacts
    <1>3. /\ f[0] = <<>> /\ FlattenSeq(seqs) = f[n]
          /\ \A i \in 1..n : f[i] = f[i - 1] \o seqs[i]
          /\ \A i \in 0..n : IsList(f[i])
        BY <1>1 DEF Flattens
    <1> HIDE DEF n
    <1> DEFINE there == [i \in 0..n |-> After(present, f[i])]
    <1>4. there[0] = present
        <2>1. there[0] = After(present, f[0])
            BY <1>2
        <2> HIDE DEF there
        <2> QED
            BY <1>3, <2>1, RanEmpty
    <1>5. ASSUME NEW i \in 1..n
          PROVE  there[i] = After(there[i - 1], seqs[i])
        <2>1. i \in 0..n /\ i - 1 \in 0..n
            BY <1>2
        <2>2. there[i] = After(present, f[i]) /\ there[i - 1] = After(present, f[i - 1])
            BY <2>1
        <2> HIDE DEF there
        <2>3. After(present, f[i - 1] \o seqs[i]) = After(After(present, f[i - 1]), seqs[i])
            BY <1>2, <1>3, <2>1, RanJoined
        <2> QED
            BY <1>3, <2>2, <2>3
    <1>6. there[n] = After(present, FlattenSeq(seqs))
        BY <1>2, <1>3
    <1> HIDE DEF there
    <1>7. RunsThrough(there, present, seqs)
        BY <1>4, <1>5, <1>6 DEF RunsThrough, n
    <1> QED
        BY <1>7

-----------------------------------------------------------------------------
\* A list of flags, one per member.
LEMMA FlagList ==
    ASSUME NEW l, IsList(l), NEW f, f = [i \in DOMAIN l |-> f[i]]
    PROVE  IsList(f) /\ Len(f) = Len(l)
    <1>1. Len(l) \in Nat /\ DOMAIN l = 1..Len(l)
        BY ListFacts
    <1>2. DOMAIN f = 1..Len(l) /\ f = [i \in 1..Len(l) |-> f[i]]
        BY <1>1
    <1> QED
        BY <1>1, <1>2, FunctionIsList

LEMMA JoinedItems ==
    ASSUME NEW a, IsList(a), NEW b, IsList(b), NEW n, Len(a) = n, NEW m, Len(b) = m,
           NEW c, c = a \o b
    PROVE  /\ IsList(c) /\ Len(c) = n + m
           /\ \A i \in 1..n : c[i] = a[i]
           /\ \A i \in 1..m : c[n + i] = b[i]
    <1>1. IsList(a \o b)
        BY Joined
    <1>2. Len(a \o b) = Len(a) + Len(b)
        BY Joined
    <1>3. \A i \in 1..Len(a) : (a \o b)[i] = a[i]
        BY Joined
    <1>4. \A i \in 1..Len(b) : (a \o b)[Len(a) + i] = b[i]
        BY Joined
    <1> QED
        BY <1>1, <1>2, <1>3, <1>4, Zenon

LEMMA PairAndOne ==
    ASSUME NEW pair, IsList(pair), Len(pair) = 2, NEW one, IsList(one), Len(one) = 1
    PROVE  LET out == pair \o one
           IN  out = [i \in 1..3 |-> out[i]] /\ out[1] = pair[1] /\ out[2] = pair[2] /\ out[3] = one[1]
    <1> DEFINE out == pair \o one
    <1>1. IsList(pair) /\ IsList(one)
        OBVIOUS
    <1>2. IsList(out)
        BY Joined
    <1>3. Len(out) = Len(pair) + Len(one)
        BY Joined
    <1>4. \A i \in 1..Len(pair) : out[i] = pair[i]
        BY Joined
    <1>a. \A i \in 1..Len(one) : out[Len(pair) + i] = one[i]
        BY ONLY <1>1, Joined
    <1> HIDE DEF out
    <1>5. out = [i \in 1..3 |-> out[i]]
        <2>1. Len(out) = 3
            BY <1>3
        <2> QED
            BY <1>2, <2>1 DEF IsList
    <1>6. 1 \in 1..Len(pair) /\ 2 \in 1..Len(pair) /\ 1 \in 1..Len(one) /\ Len(pair) + 1 = 3
        OBVIOUS
    <1>7. out[1] = pair[1] /\ out[2] = pair[2] /\ out[3] = one[1]
        BY <1>4, <1>a, <1>6
    <1> QED
        BY <1>5, <1>7 DEF out

LEMMA TripleIs ==
    ASSUME NEW a, NEW b, NEW c
    PROVE  <<a, b>> \o <<c>> = <<a, b, c>>
    <1> DEFINE pair == <<a, b>>
               one == <<c>>
               triple == <<a, b, c>>
               out == pair \o one
    <1>1. IsList(one) /\ Len(one) = 1 /\ one[1] = c
        BY SingleList
    <1>2. IsList(pair) /\ Len(pair) = 2 /\ pair[1] = a /\ pair[2] = b
        <2>1. DOMAIN pair = 1..2 /\ pair = [i \in 1..2 |-> pair[i]] /\ pair[1] = a /\ pair[2] = b
            OBVIOUS
        <2> HIDE DEF pair
        <2> QED
            BY <2>1, FunctionIsList
    <1>3. triple = [i \in 1..3 |-> triple[i]] /\ triple[1] = a /\ triple[2] = b /\ triple[3] = c
        OBVIOUS
    <1> HIDE DEF pair, one
    <1>4. out = [i \in 1..3 |-> out[i]] /\ out[1] = pair[1] /\ out[2] = pair[2] /\ out[3] = one[1]
        BY <1>1, <1>2, PairAndOne
    <1> HIDE DEF out, triple
    <1>5. \A i \in 1..3 : out[i] = triple[i]
        <2>1. \A i \in 1..3 : i = 1 \/ i = 2 \/ i = 3
            OBVIOUS
        <2> QED
            BY <1>1, <1>2, <1>3, <1>4, <2>1
    <1>6. out = triple
        BY <1>3, <1>4, <1>5
    <1> QED
        BY <1>6 DEF out, pair, one, triple

\* Routines and rules have a signature.
Signed == {"function", "procedure", "rule"}

\* The name of an object: an extension's own, or the qualified one and the signature.
LEMMA NameOfIs ==
    ASSUME NEW kind, NEW x, NEW schema, NEW d
    PROVE  LET place == Export!QualifiedName(schema, x.name, d)
               name == Export!NameOf(kind, x, schema, d)
           IN  /\ kind = "extension" => name = <<x.name>>
               /\ kind # "extension" /\ kind \notin Signed => name = place
               /\ kind \in Signed => name = <<place[1], place[2], x.signature>>
    <1> DEFINE place == Export!QualifiedName(schema, x.name, d)
    <1>1. PICK a, b : place = <<a, b>>
        BY DEF Export!QualifiedName
    <1>2. kind # "extension" => Export!NameOf(kind, x, schema, d) = place \o Export!Signature(kind, x)
        BY DEF Export!NameOf
    <1>3. kind = "extension" => Export!NameOf(kind, x, schema, d) = <<x.name>>
        BY DEF Export!NameOf
    <1> HIDE DEF place
    <1>4. CASE kind \notin Signed
        <2>1. Export!Signature(kind, x) = <<>>
            BY <1>4 DEF Export!Signature, Signed
        <2>2. <<a, b>> \o <<>> = <<a, b>>
            OBVIOUS
        <2> QED
            BY <1>1, <1>2, <1>3, <1>4, <2>1, <2>2 DEF place
    <1>5. CASE kind \in Signed
        <2>1. Export!Signature(kind, x) = <<x.signature>> /\ kind # "extension"
            BY <1>5 DEF Export!Signature, Signed
        <2>3. place[1] = a /\ place[2] = b
            BY <1>1
        <2>4. <<a, b>> \o <<x.signature>> = <<a, b, x.signature>>
            BY TripleIs
        <2> QED
            BY <1>1, <1>2, <1>5, <2>1, <2>3, <2>4 DEF place
    <1> QED
        BY <1>4, <1>5

\* The statement of an object makes it and nothing else.
LEMMA ObjectStatement ==
    ASSUME NEW kind, NEW x, NEW schema, NEW d
    PROVE  LET y == Export!CreateObject(kind, x, schema, d)
               id == Export!Id(kind, Export!NameOf(kind, x, schema, d))
           IN  /\ y.parses /\ y.makes = {id} /\ y.fresh \subseteq {id}
               /\ kind = "extension" => y.needs = Export!NeedsOf(kind, x, d)
               /\ kind \notin {"extension", "table"} =>
                    y.needs = Export!InSchema(schema, d) \cup Export!NeedsOf(kind, x, d)
    <1> DEFINE id == Export!Id(kind, Export!NameOf(kind, x, schema, d))
               y == Export!CreateObject(kind, x, schema, d)
    <1>1. ASSUME NEW makes, NEW needs
          PROVE  /\ Export!Create(makes, needs).parses /\ Export!CreateAnyway(makes, needs).parses
                 /\ Export!Create(makes, needs).makes = makes /\ Export!CreateAnyway(makes, needs).makes = makes
                 /\ Export!Create(makes, needs).needs = needs /\ Export!CreateAnyway(makes, needs).needs = needs
                 /\ Export!Create(makes, needs).fresh = makes /\ Export!CreateAnyway(makes, needs).fresh = {}
        BY DEF Export!Create, Export!CreateAnyway
    <1>2. CASE kind = "extension"
        <2>1. y = Export!CreateAnyway({id}, Export!InSchema(x.schema, d))
            BY <1>2 DEF Export!CreateObject
        <2>2. Export!NeedsOf(kind, x, d) = Export!InSchema(x.schema, d)
            BY <1>2 DEF Export!NeedsOf
        <2> HIDE DEF y, id
        <2>3. y.parses /\ y.makes = {id} /\ y.fresh = {} /\ y.needs = Export!InSchema(x.schema, d)
            BY <1>1, <2>1
        <2> QED
            BY <1>2, <2>2, <2>3 DEF y, id
    <1>3. CASE kind # "extension"
        <2> DEFINE needs == Export!InSchema(schema, d) \cup x.needs
        <2>1. y = Export!CreateAnyway({id}, needs) \/ y = Export!Create({id}, needs)
            BY <1>3 DEF Export!CreateObject
        <2>2. kind # "table" => Export!NeedsOf(kind, x, d) = x.needs
            BY <1>3 DEF Export!NeedsOf
        <2> HIDE DEF y, id, needs
        <2>3. y.parses /\ y.makes = {id} /\ y.fresh \subseteq {id} /\ y.needs = needs
            BY <1>1, <2>1
        <2> QED
            BY <1>3, <2>2, <2>3 DEF y, id, needs
    <1> QED
        BY <1>2, <1>3

\* There is a comma after every item of a table but the last, and a server that accepts
\* each column parses the whole.
LEMMA TableParses ==
    ASSUME NEW t, IsTable(t), Export!ColumnsAccepted(t), NEW schema, NEW d
    PROVE  Export!CreateTable(t, schema, d).parses
    <1> DEFINE a == Export!ColumnCommas(t)
               b == Export!CheckCommas(t)
               e == Export!ForeignKeyCommas(t)
               n == Len(t.columns)
               m == Len(t.checks)
               k == Len(t.fks)
               c == a \o b \o e
    <1>1. IsList(t.columns) /\ IsList(t.checks) /\ IsList(t.fks)
        BY DEF IsTable
    <1>2. n \in Nat /\ m \in Nat /\ k \in Nat /\ (m = 0 <=> t.checks = <<>>) /\ (k = 0 <=> t.fks = <<>>)
          /\ DOMAIN t.columns = 1..n /\ DOMAIN t.checks = 1..m /\ DOMAIN t.fks = 1..k
        BY <1>1, ListFacts, EmptyIsList
    <1>3. \A i \in 1..n : a[i] = (i < n \/ t.fks # <<>> \/ t.checks # <<>>)
        BY <1>2 DEF Export!ColumnCommas
    <1>4. \A i \in 1..m : b[i] = (i < m \/ t.fks # <<>>)
        BY <1>2 DEF Export!CheckCommas
    <1>5. \A i \in 1..k : e[i] = (i < k)
        BY <1>2 DEF Export!ForeignKeyCommas
    <1>6. IsList(a) /\ Len(a) = n
        <2>1. a = [i \in DOMAIN t.columns |-> a[i]]
            BY DEF Export!ColumnCommas
        <2> HIDE DEF a
        <2> QED
            BY <1>1, <2>1, FlagList
    <1>7. IsList(b) /\ Len(b) = m
        <2>1. b = [i \in DOMAIN t.checks |-> b[i]]
            BY DEF Export!CheckCommas
        <2> HIDE DEF b
        <2> QED
            BY <1>1, <2>1, FlagList
    <1>8. IsList(e) /\ Len(e) = k
        <2>1. e = [i \in DOMAIN t.fks |-> e[i]]
            BY DEF Export!ForeignKeyCommas
        <2> HIDE DEF e
        <2> QED
            BY <1>1, <2>1, FlagList
    <1>9. Export!ItemCommas(t) = c
        BY DEF Export!ItemCommas
    <1> HIDE DEF a, b, e, n, m, k
    <1> DEFINE ab == a \o b
    <1>10. ab = a \o b /\ c = ab \o e
        OBVIOUS
    <1> HIDE DEF ab, c
    <1>11. IsList(ab) /\ Len(ab) = n + m
        <2>1. IsList(ab)
            BY <1>6, <1>7, <1>10, JoinedItems
        <2>2. Len(ab) = n + m
            BY <1>6, <1>7, <1>10, Joined, Zenon
        <2> QED
            BY <2>1, <2>2
    <1>a. \A i \in 1..n : ab[i] = a[i]
        BY <1>6, <1>7, <1>10, JoinedItems
    <1>b. \A i \in 1..m : ab[n + i] = b[i]
        BY <1>6, <1>7, <1>10, JoinedItems
    <1>c. IsList(c) /\ Len(c) = n + m + k
        <2>1. IsList(c)
            BY <1>8, <1>10, <1>11, JoinedItems
        <2>2. Len(c) = n + m + k
            BY <1>8, <1>10, <1>11, <2>1, Joined, Zenon
        <2> QED
            BY <2>1, <2>2
    <1>d. \A i \in 1..(n + m) : c[i] = ab[i]
        BY <1>8, <1>10, <1>11, JoinedItems
    <1>e. \A i \in 1..k : c[n + m + i] = e[i]
        BY <1>8, <1>10, <1>11, JoinedItems
    <1>12. DOMAIN c = 1..(n + m + k)
        BY <1>c, ListFacts
    <1>13. ASSUME NEW i \in 1..(n + m + k)
           PROVE  c[i] = (i < n + m + k)
        <2>1. CASE i \in 1..n
            <3>1. i \in 1..(n + m)
                BY <1>2, <2>1
            <3>2. c[i] = (i < n \/ t.fks # <<>> \/ t.checks # <<>>)
                BY <1>3, <1>a, <1>d, <2>1, <3>1
            <3>3. (i < n \/ t.fks # <<>> \/ t.checks # <<>>) <=> i < n + m + k
                BY <1>2, <2>1
            <3> QED
                BY <3>2, <3>3
        <2>2. CASE i - n \in 1..m
            <3>1. i \in 1..(n + m) /\ n + (i - n) = i
                BY <1>2, <2>2
            <3>2. c[i] = (i - n < m \/ t.fks # <<>>)
                BY <1>4, <1>b, <1>d, <2>2, <3>1
            <3>3. (i - n < m \/ t.fks # <<>>) <=> i < n + m + k
                BY <1>2, <2>2
            <3> QED
                BY <3>2, <3>3
        <2>3. CASE i - n - m \in 1..k
            <3>1. n + m + (i - n - m) = i
                BY <1>2, <2>3
            <3>2. c[i] = (i - n - m < k)
                BY <1>5, <1>e, <2>3, <3>1
            <3>3. (i - n - m < k) <=> i < n + m + k
                BY <1>2, <2>3
            <3> QED
                BY <3>2, <3>3
        <2>4. i \in 1..n \/ i - n \in 1..m \/ i - n - m \in 1..k
            BY <1>2
        <2> QED
            BY <2>1, <2>2, <2>3, <2>4
    <1>14. Export!WellSeparated(c)
        BY <1>c, <1>12, <1>13 DEF Export!WellSeparated
    <1> QED
        BY <1>9, <1>14 DEF Export!CreateTable

-----------------------------------------------------------------------------
(***************************************************************************)
(* What scripts make.                                                      *)
(***************************************************************************)
\* What the objects of one kind of a schema are known by.
ObjectIds(kind, x, s, d) ==
    IF kind = "table"
    THEN Export!TableIds(x, Export!NameOf(kind, x, s.name, d))
            \cup Export!AttachedIds(x, Export!NameOf(kind, x, s.name, d), d)
    ELSE {Export!Id(kind, Export!NameOf(kind, x, s.name, d))}
KindIds(kind, s, d) ==
    UNION {ObjectIds(kind, x, s, d) : x \in {x \in ToSet(s.lists[kind]) : Export!WrittenIn(d, kind)}}

LEMMA MadeByIndexes ==
    ASSUME NEW t, IsTable(t), NEW schema, NEW d
    PROVE  LET name == Export!QualifiedName(schema, t.name, d)
           IN  MadeBy(Export!TableIndexes(t, schema, d)) =
                {Export!PartId("index", name, x.name) : x \in {x \in ToSet(t.indexes) : ~x.primary}}
    <1> DEFINE name == Export!QualifiedName(schema, t.name, d)
               MadeOf(x) == Export!Create({Export!PartId("index", name, x.name)},
                                           {Export!Id("table", name)} \cup x.needs)
               kept == {x \in ToSet(t.indexes) : ~x.primary}
    <1>1. ToSet(Export!TableIndexes(t, schema, d)) = {MadeOf(x) : x \in kept}
        BY IndexStatements
    <1>2. \A x \in kept : MadeOf(x).makes = {Export!PartId("index", name, x.name)}
        BY DEF Export!Create, Export!CreateAnyway
    <1> HIDE DEF MadeOf, kept, name
    <1>3. MadeBy(Export!TableIndexes(t, schema, d)) = {Export!PartId("index", name, x.name) : x \in kept}
        BY <1>1, <1>2 DEF MadeBy
    <1> QED
        BY <1>3 DEF kept, name

LEMMA MadeByTriggers ==
    ASSUME NEW t, IsTable(t), NEW schema, NEW d
    PROVE  LET name == Export!QualifiedName(schema, t.name, d)
           IN  MadeBy(Export!TableTriggers(t, schema, d)) =
                {Export!PartId("trigger", name, x.name) : x \in {x \in ToSet(t.triggers) : x.statement}}
    <1> DEFINE name == Export!QualifiedName(schema, t.name, d)
               made == Export!TableTriggers(t, schema, d)
    <1>1. ToSet(made) = {TriggerStatement(x, name) : x \in ToSet(t.triggers)}
        BY TriggerStatements
    <1>2. \A x : TriggerStatement(x, name).makes =
                    IF x.statement THEN {Export!PartId("trigger", name, x.name)} ELSE {}
        BY DEF Export!Create, Export!CreateAnyway, TriggerStatement
    <1> HIDE DEF name, made
    <1> DEFINE whole == {x \in ToSet(t.triggers) : x.statement}
    <1>3. MadeBy(made) = {Export!PartId("trigger", name, x.name) : x \in whole}
        <2>1. MadeBy(made) = UNION {TriggerStatement(x, name).makes : x \in ToSet(t.triggers)}
            BY <1>1 DEF MadeBy
        <2>2. ASSUME NEW x \in whole
              PROVE  /\ x \in ToSet(t.triggers)
                     /\ TriggerStatement(x, name).makes = {Export!PartId("trigger", name, x.name)}
            BY <1>2
        <2>3. ASSUME NEW x \in ToSet(t.triggers), x \notin whole
              PROVE  TriggerStatement(x, name).makes = {}
            BY <1>2, <2>3
        <2> HIDE DEF whole
        <2> QED
            BY <2>1, <2>2, <2>3
    <1> QED
        BY <1>3 DEF name, made, whole

LEMMA MadeByTable ==
    ASSUME NEW t, IsTable(t), NEW schema, NEW d \in Export!Dialects
    PROVE  LET name == Export!QualifiedName(schema, t.name, d)
           IN  MadeBy(Export!GenerateTableDDL(t, schema, d)) =
                Export!TableIds(t, name) \cup Export!AttachedIds(t, name, d)
    <1> DEFINE name == Export!QualifiedName(schema, t.name, d)
               create == Export!CreateTable(t, schema, d)
               comment == Export!TableComment(t, schema, d)
               indexes == {Export!PartId("index", name, x.name) : x \in {x \in ToSet(t.indexes) : ~x.primary}}
               triggers == {Export!PartId("trigger", name, x.name) : x \in {x \in ToSet(t.triggers) : x.statement}}
               columns == {Export!PartId("comment", name, c.name) : c \in {c \in ToSet(t.columns) : c.comment}}
               own == IF t.comment THEN {Export!Id("comment", name)} ELSE {}
    <1>1. MadeBy(Export!GenerateTableDDL(t, schema, d)) =
            create.makes \cup MadeBy(comment) \cup MadeBy(Export!TableIndexes(t, schema, d))
                \cup MadeBy(Export!TableTriggers(t, schema, d))
        <2>1. ToSet(Export!GenerateTableDDL(t, schema, d)) =
                {create} \cup ToSet(comment) \cup ToSet(Export!TableIndexes(t, schema, d))
                    \cup ToSet(Export!TableTriggers(t, schema, d))
            BY TableStatements
        <2> HIDE DEF create, comment
        <2> QED
            BY <2>1 DEF MadeBy
    <1>2. MadeBy(Export!TableIndexes(t, schema, d)) = indexes
        BY MadeByIndexes
    <1>3. MadeBy(Export!TableTriggers(t, schema, d)) = triggers
        BY MadeByTriggers
    <1>4. MadeBy(comment) = IF d = "postgres" THEN own ELSE {}
        <2>1. CASE t.comment /\ d = "postgres"
            <3>1. ToSet(comment) = {Export!CreateAnyway({Export!Id("comment", name)}, {Export!Id("table", name)})}
                BY <2>1, SingleList DEF Export!TableComment
            <3> QED
                <4>1. MadeBy(comment) = {Export!Id("comment", name)}
                    <5> HIDE DEF comment
                    <5> QED
                        BY <3>1 DEF MadeBy, Export!Create, Export!CreateAnyway
                <4> QED
                    BY <2>1, <4>1
        <2>2. CASE ~(t.comment /\ d = "postgres")
            <3>1. comment = <<>>
                BY <2>2 DEF Export!TableComment
            <3> QED
                BY <2>2, <3>1, EmptyIsList DEF MadeBy
        <2> QED
            BY <2>1, <2>2
    <1>5. create.makes = Export!TableIds(t, name) \cup (IF d = "mysql" THEN columns ELSE {})
        BY DEF Export!CreateTable, Export!TableIds, Export!ToSet, ToSet
    <1>6. Export!AttachedIds(t, name, d) =
            indexes \cup triggers \cup (IF d = "postgres" THEN own ELSE columns)
        BY DEF Export!AttachedIds, Export!ToSet, ToSet
    <1>7. d = "mysql" <=> d # "postgres"
        BY DEF Export!Dialects
    <1> HIDE DEF name, create, comment, indexes, triggers, columns, own
    <1>8. MadeBy(Export!GenerateTableDDL(t, schema, d)) =
            Export!TableIds(t, name) \cup Export!AttachedIds(t, name, d)
        BY <1>1, <1>2, <1>3, <1>4, <1>5, <1>6, <1>7
    <1> QED
        BY <1>8 DEF name

LEMMA MadeByTables ==
    ASSUME NEW s, Exportable(s), NEW d \in Export!Dialects
    PROVE  MadeBy(Export!GenerateTables(s, d)) = KindIds("table", s, d)
    <1> DEFINE l == s.lists["table"]
               MadeOf(t) == Export!GenerateTableDDL(t, s.name, d)
               Ids(t) == ObjectIds("table", t, s, d)
    <1>1. ToSet(Export!GenerateTables(s, d)) = UNION {ToSet(MadeOf(t)) : t \in ToSet(l)}
        BY TablesStatements
    <1>2. ASSUME NEW t \in ToSet(l)
          PROVE  MadeBy(MadeOf(t)) = Ids(t)
        <2>1. IsTable(t)
            BY DEF Exportable
        <2>2. Export!NameOf("table", t, s.name, d) = Export!QualifiedName(s.name, t.name, d)
            BY NameOfIs DEF Signed
        <2> QED
            BY <2>1, <2>2, MadeByTable DEF ObjectIds
    <1>3. KindIds("table", s, d) = UNION {Ids(t) : t \in ToSet(l)}
        BY DEF KindIds, Export!WrittenIn
    <1> HIDE DEF MadeOf, Ids, l
    <1>4. MadeBy(Export!GenerateTables(s, d)) = UNION {MadeBy(MadeOf(t)) : t \in ToSet(l)}
        BY <1>1 DEF MadeBy
    <1> QED
        BY <1>2, <1>3, <1>4

LEMMA MadeByObjects ==
    ASSUME NEW kind \in Kinds, kind # "table", NEW s, Exportable(s), NEW d
    PROVE  MadeBy(Export!GenerateObjectDDLs(kind, s, d)) = KindIds(kind, s, d)
    <1> DEFINE there == {x \in ToSet(s.lists[kind]) : Export!WrittenIn(d, kind)}
               MadeOf(x) == Export!CreateObject(kind, x, s.name, d)
    <1>1. ToSet(Export!GenerateObjectDDLs(kind, s, d)) = {MadeOf(x) : x \in there}
        BY ObjectStatements
    <1>2. \A x : MadeOf(x).makes = ObjectIds(kind, x, s, d)
        BY ObjectStatement DEF ObjectIds
    <1>3. KindIds(kind, s, d) = UNION {ObjectIds(kind, x, s, d) : x \in there}
        BY DEF KindIds
    <1> HIDE DEF there, MadeOf
    <1> QED
        BY <1>1, <1>2, <1>3 DEF MadeBy

\* What the dialect exports of a schema: the schema itself and the objects of each kind.
LEMMA ExportedIds ==
    ASSUME NEW s, NEW d
    PROVE  Export!Exported(s, d) =
            Export!InSchema(s.name, d) \cup UNION {KindIds(kind, s, d) : kind \in Kinds}
    <1>1. Export!ToSet(Export!KindOrder) = Kinds
        BY KindOrderHas, SameToSet
    <1>2. Export!Exported(s, d) =
            Export!InSchema(s.name, d) \cup
            UNION {UNION {ObjectIds(k, x, s, d) : x \in Export!ToSet(s.lists[k])} :
                    k \in {k \in Export!ToSet(Export!KindOrder) : Export!WrittenIn(d, k)}}
        BY DEF Export!Exported, ObjectIds
    <1>3. \A k : Export!ToSet(s.lists[k]) = ToSet(s.lists[k])
        BY SameToSet
    <1>4. \A k : KindIds(k, s, d) =
            IF Export!WrittenIn(d, k) THEN UNION {ObjectIds(k, x, s, d) : x \in ToSet(s.lists[k])} ELSE {}
        BY DEF KindIds
    <1>5. UNION {UNION {ObjectIds(k, x, s, d) : x \in Export!ToSet(s.lists[k])} :
                    k \in {k \in Kinds : Export!WrittenIn(d, k)}}
            = UNION {KindIds(kind, s, d) : kind \in Kinds}
        BY <1>3, <1>4
    <1> QED
        BY <1>1, <1>2, <1>5

LEMMA MadeByParts ==
    ASSUME NEW s, Exportable(s), NEW d \in Export!Dialects
    PROVE  LET parts == SchemaParts(s, d)
           IN  /\ MadeBy(parts[1]) = Export!InSchema(s.name, d)
               /\ \A k \in 1..10 : MadeBy(parts[k + 1]) = KindIds(Export!KindOrder[k], s, d)
    <1> DEFINE parts == SchemaParts(s, d)
               Kind(k) == Export!KindOrder[k]
    <1>1. MadeBy(parts[1]) = Export!InSchema(s.name, d)
        <2>1. parts[1] = Export!CreateSchema(s, d)
            BY DEF SchemaParts
        <2>2. d = "mysql" <=> d # "postgres"
            BY DEF Export!Dialects
        <2>3. CASE d = "postgres" /\ s.name \notin {"", "public"}
            <3>1. ToSet(parts[1]) = {Export!CreateAnyway({Export!Id("schema", <<s.name>>)}, {})}
                BY <2>1, <2>3, SingleList DEF Export!CreateSchema
            <3> QED
                <4>1. MadeBy(parts[1]) = {Export!Id("schema", <<s.name>>)}
                    <5> HIDE DEF parts
                    <5> QED
                        BY <3>1 DEF MadeBy, Export!Create, Export!CreateAnyway
                <4> QED
                    BY <2>2, <2>3, <4>1 DEF Export!InSchema
        <2>4. CASE ~(d = "postgres" /\ s.name \notin {"", "public"})
            <3>1. ToSet(parts[1]) = {}
                BY <2>1, <2>4, EmptyIsList DEF Export!CreateSchema
            <3> QED
                BY <2>2, <2>4, <3>1 DEF MadeBy, Export!InSchema
        <2> QED
            BY <2>3, <2>4
    <1>2. ASSUME NEW k \in 1..10
          PROVE  MadeBy(parts[k + 1]) = KindIds(Kind(k), s, d)
        <2>1. k + 1 \in 1..11 /\ k + 1 # 1 /\ (k + 1 = 5 <=> k = 4) /\ k + 1 - 1 = k
            OBVIOUS
        <2>2. Kind(k) \in Kinds /\ (Kind(k) = "table" <=> k = 4)
            BY KindOrderHas
        <2>3. CASE k = 4
            BY <2>1, <2>2, <2>3, MadeByTables DEF SchemaParts
        <2>4. CASE k # 4
            <3>1. parts[k + 1] = Export!GenerateObjectDDLs(Kind(k), s, d)
                BY <2>1, <2>4 DEF SchemaParts
            <3> HIDE DEF parts, Kind
            <3> QED
                BY <2>2, <2>4, <3>1, MadeByObjects
        <2> QED
            BY <2>3, <2>4
    <1> QED
        BY <1>1, <1>2

LEMMA MadeBySchema ==
    ASSUME NEW s, Exportable(s), NEW d \in Export!Dialects
    PROVE  MadeBy(Export!GenerateSchema(s, d)) = Export!Exported(s, d)
    <1> DEFINE parts == SchemaParts(s, d)
               Kind(k) == Export!KindOrder[k]
    <1>1. /\ IsList(parts) /\ Len(parts) = 11
          /\ \A x \in ToSet(parts) : IsList(x)
        BY SchemaPartsAreLists
    <1>2. MadeBy(parts[1]) = Export!InSchema(s.name, d)
        BY MadeByParts
    <1>3. \A k \in 1..10 : MadeBy(parts[k + 1]) = KindIds(Kind(k), s, d)
        BY MadeByParts
    <1> HIDE DEF parts
    <1>4. MadeBy(Export!GenerateSchema(s, d)) = UNION {MadeBy(x) : x \in ToSet(parts)}
        <2>1. ToSet(Export!GenerateSchema(s, d)) = UNION {ToSet(x) : x \in ToSet(parts)}
            <3>1. Export!GenerateSchema(s, d) = FlattenSeq(parts)
                BY SchemaIsItsParts DEF parts
            <3> QED
                BY <1>1, <3>1, FlattenMembers
        <2> QED
            BY <2>1 DEF MadeBy
    <1>5. ToSet(parts) = {parts[i] : i \in 1..11}
        BY <1>1, ListFacts DEF ToSet
    <1>6. 1..11 = {1} \cup {k + 1 : k \in 1..10}
        <2>1. \A i \in 1..11 : i = 1 \/ (i - 1 \in 1..10 /\ i - 1 + 1 = i)
            OBVIOUS
        <2> QED
            BY <2>1
    <1>7. ToSet(parts) = {parts[1]} \cup {parts[k + 1] : k \in 1..10}
        BY <1>5, <1>6
    <1>8. MadeBy(Export!GenerateSchema(s, d)) =
            MadeBy(parts[1]) \cup UNION {MadeBy(parts[k + 1]) : k \in 1..10}
        BY <1>4, <1>7
    <1>9. UNION {MadeBy(parts[k + 1]) : k \in 1..10} = UNION {KindIds(kind, s, d) : kind \in Kinds}
        <2>1. Kinds = {Kind(k) : k \in 1..10}
            BY KindOrderHas
        <2> HIDE DEF Kind
        <2> QED
            BY <1>3, <2>1
    <1>10. Export!Exported(s, d) =
            Export!InSchema(s.name, d) \cup UNION {KindIds(kind, s, d) : kind \in Kinds}
        BY ExportedIds
    <1> QED
        BY <1>2, <1>8, <1>9, <1>10

-----------------------------------------------------------------------------
(***************************************************************************)
(* What a script creates whatever else fails.                              *)
(***************************************************************************)
ExportableAll(d) == IsList(d) /\ \A s \in ToSet(d) : Exportable(s)

\* The scripts of the schemas, one list each.
SchemaScripts(schemas, d) == [i \in DOMAIN schemas |-> Export!GenerateSchema(schemas[i], d)]

LEMMA SchemaScriptsAreLists ==
    ASSUME NEW schemas, ExportableAll(schemas), NEW d
    PROVE  LET scripts == SchemaScripts(schemas, d)
           IN  /\ IsList(scripts) /\ Len(scripts) = Len(schemas)
               /\ \A x \in ToSet(scripts) : IsList(x)
               /\ Export!GenerateDDL(schemas, d) = FlattenSeq(scripts)
    <1> DEFINE scripts == SchemaScripts(schemas, d)
               n == Len(schemas)
    <1>1. IsList(schemas) /\ n \in Nat /\ DOMAIN schemas = 1..n /\ \A i \in 1..n : Exportable(schemas[i])
        BY ListFacts DEF ExportableAll
    <1>2. scripts = [i \in 1..n |-> Export!GenerateSchema(schemas[i], d)]
        BY <1>1 DEF SchemaScripts
    <1>3. IsList(scripts) /\ Len(scripts) = n
        <2>1. DOMAIN scripts = 1..n /\ scripts = [i \in 1..n |-> scripts[i]]
            BY <1>2
        <2> HIDE DEF scripts, n
        <2> QED
            BY <1>1, <2>1, FunctionIsList
    <1>4. ASSUME NEW s, Exportable(s)
          PROVE  IsList(Export!GenerateSchema(s, d))
        BY <1>4, SchemaIsItsParts, SchemaPartsAreLists, FlattenMembers
    <1>5. \A x \in ToSet(scripts) : IsList(x)
        <2>1. ToSet(scripts) = {scripts[i] : i \in 1..n}
            BY <1>2 DEF ToSet
        <2>2. \A i \in 1..n : scripts[i] = Export!GenerateSchema(schemas[i], d)
            BY <1>2
        <2> HIDE DEF scripts
        <2> QED
            BY <1>1, <1>4, <2>1, <2>2
    <1>6. Export!GenerateDDL(schemas, d) = FlattenSeq(scripts)
        BY SameFlattenSeq DEF Export!GenerateDDL, SchemaScripts
    <1> QED
        BY <1>3, <1>5, <1>6

\* A script makes what the dialect exports of each of the schemas.
LEMMA ScriptMakes ==
    ASSUME NEW schemas, ExportableAll(schemas), NEW d \in Export!Dialects
    PROVE  /\ IsList(Export!GenerateDDL(schemas, d))
           /\ MadeBy(Export!GenerateDDL(schemas, d)) =
                UNION {Export!Exported(schemas[i], d) : i \in DOMAIN schemas}
    <1> DEFINE scripts == SchemaScripts(schemas, d)
               all == Export!GenerateDDL(schemas, d)
               n == Len(schemas)
    <1>1. /\ IsList(scripts) /\ Len(scripts) = n
          /\ \A x \in ToSet(scripts) : IsList(x)
          /\ all = FlattenSeq(scripts)
        BY SchemaScriptsAreLists
    <1>2. n \in Nat /\ DOMAIN schemas = 1..n /\ \A i \in 1..n : Exportable(schemas[i])
        BY ListFacts DEF ExportableAll
    <1>3. \A i \in 1..n : scripts[i] = Export!GenerateSchema(schemas[i], d)
        BY <1>2 DEF SchemaScripts
    <1> HIDE DEF scripts, all
    <1>4. IsList(all) /\ ToSet(all) = UNION {ToSet(x) : x \in ToSet(scripts)}
        BY <1>1, FlattenMembers
    <1>5. ToSet(scripts) = {scripts[i] : i \in 1..n}
        BY <1>1, ListFacts DEF ToSet
    <1>6. MadeBy(all) = UNION {MadeBy(scripts[i]) : i \in 1..n}
        BY <1>4, <1>5 DEF MadeBy
    <1>7. \A i \in 1..n : MadeBy(scripts[i]) = Export!Exported(schemas[i], d)
        BY <1>2, <1>3, MadeBySchema
    <1> QED
        BY <1>2, <1>4, <1>6, <1>7 DEF all

-----------------------------------------------------------------------------
\* An object all of whose needs are there is created by its kind's part of the script.
LEMMA KindIsCreated ==
    ASSUME NEW s, Exportable(s), NEW d, NEW k \in 1..10, NEW present,
           Export!InSchema(s.name, d) \subseteq present,
           NEW x \in ToSet(s.lists[Export!KindOrder[k]]),
           Export!WrittenIn(d, Export!KindOrder[k]),
           Export!NeedsOf(Export!KindOrder[k], x, d) \subseteq present,
           Export!KindOrder[k] = "table" => Export!ColumnsAccepted(x)
    PROVE  Export!Id(Export!KindOrder[k], Export!NameOf(Export!KindOrder[k], x, s.name, d))
                \in After(present, SchemaParts(s, d)[k + 1])
    <1> DEFINE kind == Export!KindOrder[k]
               part == SchemaParts(s, d)[k + 1]
               id == Export!Id(kind, Export!NameOf(kind, x, s.name, d))
    <1> SUFFICES id \in After(present, part)
        OBVIOUS
    <1>0. /\ x \in ToSet(s.lists[kind]) /\ Export!WrittenIn(d, kind)
          /\ Export!NeedsOf(kind, x, d) \subseteq present
          /\ kind = "table" => Export!ColumnsAccepted(x)
        OBVIOUS
    <1>1. kind \in Kinds /\ (kind = "table" <=> k = 4) /\ k + 1 \in 1..11
          /\ k + 1 # 1 /\ (k + 1 = 5 <=> k = 4) /\ k + 1 - 1 = k
        BY KindOrderHas
    <1>2. IsList(part)
        BY <1>1, SchemaPartsAreLists
    <1>3. ASSUME NEW y \in ToSet(part), y.parses, y.needs \subseteq present, id \in y.makes,
                 y.fresh \subseteq {id}
          PROVE  id \in After(present, part)
        <2> HIDE DEF part, id
        <2> QED
            BY <1>2, <1>3, NeedlessSucceeds
    <1>4. CASE k = 4
        <2> DEFINE y == Export!CreateTable(x, s.name, d)
        <2>1. part = Export!GenerateTables(s, d) /\ kind = "table"
            BY <1>1, <1>4 DEF SchemaParts
        <2>2. x \in ToSet(s.lists["table"]) /\ IsTable(x)
            BY <2>1 DEF Exportable
        <2>3. y \in ToSet(part)
            <3>1. y \in ToSet(Export!GenerateTableDDL(x, s.name, d))
                BY <2>2, TableStatements
            <3> HIDE DEF y
            <3> QED
                BY <2>1, <2>2, <3>1, TablesStatements
        <2>4. y.parses
            BY <1>0, <2>1, <2>2, TableParses
        <2>5. y.needs \subseteq present
            <3>1. y.needs = Export!InSchema(s.name, d) \cup Export!NeedsOf("table", x, d)
                BY DEF Export!CreateTable, Export!NeedsOf
            <3> HIDE DEF y
            <3> QED
                BY <2>1, <3>1
        <2>6. id \in y.makes /\ y.fresh \subseteq {id}
            <3>1. id = Export!Id("table", Export!QualifiedName(s.name, x.name, d))
                BY <2>1, NameOfIs DEF Signed
            <3>2. /\ Export!Id("table", Export!QualifiedName(s.name, x.name, d)) \in y.makes
                  /\ y.fresh = {Export!Id("table", Export!QualifiedName(s.name, x.name, d))}
                BY DEF Export!CreateTable
            <3> QED
                BY <3>1, <3>2
        <2> HIDE DEF y, part, id
        <2> QED
            BY <1>3, <2>3, <2>4, <2>5, <2>6
    <1>5. CASE k # 4
        <2> DEFINE y == Export!CreateObject(kind, x, s.name, d)
        <2>1. part = Export!GenerateObjectDDLs(kind, s, d) /\ kind # "table"
            BY <1>1, <1>5 DEF SchemaParts
        <2>2. y \in ToSet(part)
            <3> HIDE DEF part, kind
            <3>1. ToSet(part) = {Export!CreateObject(kind, z, s.name, d) :
                                    z \in {z \in ToSet(s.lists[kind]) : Export!WrittenIn(d, kind)}}
                BY <1>1, <2>1, ObjectStatements
            <3> QED
                BY <1>0, <3>1
        <2>3. y.parses /\ y.makes = {id} /\ y.fresh \subseteq {id}
            <3> HIDE DEF kind
            <3> QED
                BY ObjectStatement
        <2>4. y.needs \subseteq present
            <3>1. CASE kind = "extension"
                <4>1. y.needs = Export!NeedsOf(kind, x, d)
                    BY <3>1, <2>1, ObjectStatement
                <4> QED
                    BY <4>1
            <3>2. CASE kind # "extension"
                <4>1. y.needs = Export!InSchema(s.name, d) \cup Export!NeedsOf(kind, x, d)
                    BY <2>1, <3>2, ObjectStatement
                <4> QED
                    BY <4>1
            <3> QED
                BY <3>1, <3>2
        <2> HIDE DEF y, part, id
        <2> QED
            BY <1>3, <2>2, <2>3, <2>4
    <1> QED
        BY <1>4, <1>5

\* And so is the schema they are in.
LEMMA SchemaIsCreated ==
    ASSUME NEW s, Exportable(s), NEW d \in Export!Dialects, NEW present
    PROVE  Export!InSchema(s.name, d) \subseteq After(present, SchemaParts(s, d)[1])
    <1> DEFINE part == SchemaParts(s, d)[1]
               y == Export!CreateAnyway({Export!Id("schema", <<s.name>>)}, {})
    <1>1. part = Export!CreateSchema(s, d) /\ IsList(part)
        <2>1. 1 \in 1..11
            OBVIOUS
        <2> QED
            BY <2>1, SchemaPartsAreLists DEF SchemaParts
    <1>2. CASE d = "postgres" /\ s.name \notin {"", "public"}
        <2>1. y \in ToSet(part)
            BY <1>1, <1>2, SingleList DEF Export!CreateSchema
        <2>2. y.parses /\ y.needs = {} /\ y.makes = {Export!Id("schema", <<s.name>>)} /\ y.fresh = {}
            BY DEF Export!Create, Export!CreateAnyway
        <2>3. Export!InSchema(s.name, d) = {Export!Id("schema", <<s.name>>)}
            BY <1>2 DEF Export!InSchema
        <2> HIDE DEF y, part
        <2>4. y.needs \subseteq present \cup y.makes
            BY <2>2
        <2>5. ASSUME NEW id \in y.makes
              PROVE  id \in After(present, part)
            <3>1. y.fresh \subseteq {id}
                BY <2>2
            <3> QED
                BY <1>1, <2>1, <2>2, <2>4, <3>1, NeedlessSucceeds
        <2> QED
            BY <2>2, <2>3, <2>5 DEF part
    <1>3. CASE ~(d = "postgres" /\ s.name \notin {"", "public"})
        BY <1>3 DEF Export!InSchema, Export!Dialects
    <1> QED
        BY <1>2, <1>3

\* One level of Grounded.
Ground(level, before) ==
    LET s == Export!SchemaAt(level)
        k == Export!KindAt(level)
        there == before \cup Export!InSchema(s.name, dialect)
    IN  there \cup
        {Export!Id(k, Export!NameOf(k, x, s.name, dialect)) :
            x \in {x \in Export!ToSet(s.lists[k]) :
                    /\ Export!WrittenIn(dialect, k) /\ Export!NeedsOf(k, x, dialect) \subseteq there
                    /\ k = "table" => Export!ColumnsAccepted(x)}}

\* Grounded climbs level by level.
Climbs(g) ==
    /\ g[0] = {}
    /\ \A level \in 1..Export!Levels : g[level] = Ground(level, g[level - 1])
    /\ Export!Grounded = g[Export!Levels]

LEMMA GroundedClimbs ==
    ASSUME Export!Levels \in Nat
    PROVE  \E g : Climbs(g)
    <1> DEFINE n == Export!Levels
               Possible(level) ==
                    LET s == Export!SchemaAt(level)
                        k == Export!KindAt(level)
                    IN  Export!InSchema(s.name, dialect) \cup
                        {Export!Id(k, Export!NameOf(k, x, s.name, dialect)) : x \in Export!ToSet(s.lists[k])}
               U == UNION {Possible(level) : level \in 1..n}
               V == SUBSET U
               next == [i \in 1..n |-> [v \in V |-> Ground(i, v)]]
               Value(g, i) == IF i = 0 THEN {} ELSE Ground(i, g[i - 1])
               Is(g) == g = [i \in 0..n |-> Value(g, i)]
               ground == CHOOSE g : Is(g)
    <1>1. n \in Nat
        OBVIOUS
    <1>2. Export!Grounded = ground[n]
        BY DEF Export!Grounded, Ground
    <1>3. {} \in V
        OBVIOUS
    <1>4. ASSUME NEW i \in 1..n, NEW v \in V
          PROVE  Ground(i, v) \in V
        <2>1. Ground(i, v) \subseteq v \cup Possible(i)
            BY DEF Ground
        <2> HIDE DEF Possible
        <2> QED
            BY <2>1
    <1> HIDE DEF n, U, V, ground
    <1>5. AreSteps(next, n, V)
        BY <1>4 DEF AreSteps
    <1>6. PICK f : Unfolds(f, {}, next, n, V)
        <2> HIDE DEF next
        <2> QED
            BY <1>1, <1>3, <1>5, RecursionExists
    <1>7. f \in [0..n -> V] /\ f[0] = {}
        BY <1>6 DEF Unfolds
    <1>8. ASSUME NEW i \in 1..n
          PROVE  f[i] = Ground(i, f[i - 1])
        <2>1. f[i - 1] \in V
            BY <1>1, <1>6 DEF Unfolds
        <2>2. f[i] = next[i][f[i - 1]]
            BY <1>6 DEF Unfolds
        <2> QED
            BY <2>1, <2>2
    <1>9. Is(f)
        <2>1. ASSUME NEW i \in 0..n
              PROVE  f[i] = Value(f, i)
            <3>1. CASE i = 0
                BY <1>7, <3>1
            <3>2. CASE i # 0
                <4>1. i \in 1..n
                    BY <1>1, <3>2
                <4> QED
                    BY <1>8, <3>2, <4>1
            <3> QED
                BY <3>1, <3>2
        <2> HIDE DEF Value
        <2> QED
            BY <1>7, <2>1
    <1>10. Is(ground)
        <2> HIDE DEF Is
        <2> QED
            BY <1>9 DEF ground
    <1>11. ASSUME NEW i \in 0..n
           PROVE  ground[i] = Value(ground, i)
        <2> HIDE DEF Value
        <2> QED
            BY <1>10
    <1>12. ground[0] = {}
        BY <1>1, <1>11
    <1>13. ASSUME NEW i \in 1..n
           PROVE  ground[i] = Ground(i, ground[i - 1])
        <2>1. i \in 0..n /\ i # 0
            BY <1>1
        <2> QED
            BY <1>11, <2>1
    <1>14. Climbs(ground)
        BY <1>2, <1>12, <1>13 DEF Climbs, n
    <1> QED
        BY <1>14

\* The level of the k-th kind of the j-th schema.
LEMMA LevelOf ==
    ASSUME NEW j \in Nat, j >= 1, NEW k \in 1..10
    PROVE  /\ Export!SchemaAt(10 * (j - 1) + k) = filtered[j]
           /\ Export!KindAt(10 * (j - 1) + k) = Export!KindOrder[k]
    <1>1. (10 * (j - 1) + k - 1) \div 10 = j - 1
        OBVIOUS
    <1>2. (10 * (j - 1) + k - 1) % 10 = k - 1
        OBVIOUS
    <1>3. j - 1 + 1 = j /\ k - 1 + 1 = k
        OBVIOUS
    <1> QED
        BY <1>1, <1>2, <1>3, KindOrderIs DEF Export!SchemaAt, Export!KindAt

\* A schema's part of the script creates what its levels add.
LEMMA SchemaIsGrounded ==
    ASSUME NEW j \in Nat, j >= 1, Exportable(filtered[j]), dialect \in Export!Dialects,
           NEW g, \A k \in 1..10 : g[10 * (j - 1) + k] = Ground(10 * (j - 1) + k, g[10 * (j - 1) + k - 1]),
           NEW present, g[10 * (j - 1)] \subseteq present
    PROVE  g[10 * j] \subseteq After(present, Export!GenerateSchema(filtered[j], dialect))
    <1> DEFINE s == filtered[j]
               parts == SchemaParts(s, dialect)
               start == 10 * (j - 1)
    <1>1. /\ IsList(parts) /\ Len(parts) = 11
          /\ \A i \in 1..11 : IsList(parts[i])
          /\ \A x \in ToSet(parts) : IsList(x)
        BY SchemaPartsAreLists
    <1>2. PICK there : RunsThrough(there, present, parts)
        <2> HIDE DEF parts
        <2> QED
            BY <1>1, FlattenRuns
    <1>3. /\ there[0] = present
          /\ there[11] = After(present, Export!GenerateSchema(s, dialect))
        BY <1>1, <1>2, SchemaIsItsParts DEF RunsThrough
    <1>4. ASSUME NEW i \in 1..11
          PROVE  there[i] = After(there[i - 1], parts[i]) /\ there[i - 1] \subseteq there[i]
        <2>1. there[i] = After(there[i - 1], parts[i])
            BY <1>1, <1>2 DEF RunsThrough
        <2> HIDE DEF parts
        <2>2. there[i - 1] \subseteq After(there[i - 1], parts[i])
            BY <1>1, AfterGrows
        <2> QED
            BY <2>1, <2>2
    <1> DEFINE good == {k \in 0..10 : /\ g[start + k] \subseteq there[k + 1]
                                      /\ Export!InSchema(s.name, dialect) \subseteq there[k + 1]}
    <1>5. 0 \in good
        <2>1. 1 \in 1..11 /\ 1 - 1 = 0 /\ 0 + 1 = 1 /\ start + 0 = start
            OBVIOUS
        <2>2. present \subseteq there[1] /\ there[1] = After(present, parts[1])
            BY <1>3, <1>4, <2>1
        <2>3. Export!InSchema(s.name, dialect) \subseteq there[1]
            BY <2>2, SchemaIsCreated
        <2> QED
            BY <2>1, <2>2, <2>3
    <1>6. ASSUME NEW k \in 1..10, k - 1 \in good
          PROVE  k \in good
        <2> DEFINE kind == Export!KindOrder[k]
                   before == there[k]
                   base == g[start + k - 1] \cup Export!InSchema(s.name, dialect)
        <2>1. k \in 0..10 /\ k + 1 \in 1..11 /\ k + 1 - 1 = k /\ k - 1 + 1 = k
              /\ start + (k - 1) = start + k - 1
            OBVIOUS
        <2>2. base \subseteq before /\ Export!InSchema(s.name, dialect) \subseteq before
            BY <1>6, <2>1
        <2>3. before \subseteq there[k + 1] /\ there[k + 1] = After(before, parts[k + 1])
            BY <1>4, <2>1
        <2>4. g[start + k] = base \cup
                {Export!Id(kind, Export!NameOf(kind, x, s.name, dialect)) :
                    x \in {x \in ToSet(s.lists[kind]) :
                            /\ Export!WrittenIn(dialect, kind) /\ Export!NeedsOf(kind, x, dialect) \subseteq base
                            /\ kind = "table" => Export!ColumnsAccepted(x)}}
            <3>1. g[start + k] = Ground(start + k, g[start + k - 1])
                OBVIOUS
            <3>2. Export!SchemaAt(start + k) = s /\ Export!KindAt(start + k) = kind
                BY LevelOf
            <3> QED
                BY <3>1, <3>2 DEF Ground, Export!ToSet, ToSet
        <2>5. ASSUME NEW x \in ToSet(s.lists[kind]), Export!WrittenIn(dialect, kind),
                     Export!NeedsOf(kind, x, dialect) \subseteq base,
                     kind = "table" => Export!ColumnsAccepted(x)
              PROVE  Export!Id(kind, Export!NameOf(kind, x, s.name, dialect)) \in there[k + 1]
            <3>1. Export!NeedsOf(kind, x, dialect) \subseteq before
                BY <2>2, <2>5
            <3>2. Export!Id(kind, Export!NameOf(kind, x, s.name, dialect)) \in After(before, parts[k + 1])
                <4> HIDE DEF before, base
                <4> QED
                    BY <2>2, <2>5, <3>1, KindIsCreated
            <3> QED
                BY <2>3, <3>2
        <2>6. g[start + k] \subseteq there[k + 1]
            <3> HIDE DEF base, before, kind
            <3> QED
                BY <2>2, <2>3, <2>4, <2>5
        <2> QED
            BY <2>1, <2>2, <2>3, <2>6
    <1>7. 10 \in good
        <2>1. 10 \in Nat /\ 10 \in 0..10
            OBVIOUS
        <2> HIDE DEF good
        <2> QED
            BY <1>5, <1>6, <2>1, EveryPosition
    <1>8. start + 10 = 10 * j /\ 10 + 1 = 11
        OBVIOUS
    <1> QED
        BY <1>3, <1>7, <1>8

\* What the levels of all schemas add, the whole script creates.
LEMMA GroundedIsCreated ==
    ASSUME ExportableAll(filtered), dialect \in Export!Dialects
    PROVE  Export!Grounded \subseteq After({}, Export!GenerateDDL(filtered, dialect))
    <1> DEFINE n == Len(filtered)
               scripts == SchemaScripts(filtered, dialect)
               all == After({}, Export!GenerateDDL(filtered, dialect))
    <1>1. n \in Nat /\ DOMAIN filtered = 1..n /\ \A i \in 1..n : Exportable(filtered[i])
        BY ListFacts DEF ExportableAll
    <1>2. /\ IsList(scripts) /\ Len(scripts) = n
          /\ \A x \in ToSet(scripts) : IsList(x)
          /\ Export!GenerateDDL(filtered, dialect) = FlattenSeq(scripts)
        BY SchemaScriptsAreLists
    <1>3. \A i \in 1..n : scripts[i] = Export!GenerateSchema(filtered[i], dialect)
        BY <1>1 DEF SchemaScripts
    <1> HIDE DEF scripts
    <1>4. PICK there : RunsThrough(there, {}, scripts)
        BY <1>2, FlattenRuns
    <1>5. there[0] = {} /\ there[n] = all
        BY <1>2, <1>4 DEF RunsThrough
    <1>6. ASSUME NEW i \in 1..n
          PROVE  there[i] = After(there[i - 1], Export!GenerateSchema(filtered[i], dialect))
        BY <1>2, <1>3, <1>4 DEF RunsThrough
    <1>7. Export!Levels = 10 * n
        BY <1>1, KindOrderIs DEF Export!Levels
    <1>8. PICK g : Climbs(g)
        BY <1>1, <1>7, GroundedClimbs
    <1>9. g[0] = {} /\ Export!Grounded = g[10 * n]
        BY <1>7, <1>8 DEF Climbs
    <1>10. ASSUME NEW level \in 1..(10 * n)
           PROVE  g[level] = Ground(level, g[level - 1])
        BY <1>7, <1>8 DEF Climbs
    <1> HIDE DEF n, all
    <1> DEFINE good == {i \in 0..n : g[10 * i] \subseteq there[i]}
    <1>11. 0 \in good
        <2>1. 10 * 0 = 0
            OBVIOUS
        <2> QED
            BY <1>1, <1>9, <2>1
    <1>12. ASSUME NEW i \in 1..n, i - 1 \in good
           PROVE  i \in good
        <2>1. i \in Nat /\ i >= 1 /\ i \in 0..n /\ Exportable(filtered[i])
            BY <1>1
        <2>2. ASSUME NEW k \in 1..10
              PROVE  g[10 * (i - 1) + k] = Ground(10 * (i - 1) + k, g[10 * (i - 1) + k - 1])
            <3>1. 10 * (i - 1) + k \in 1..(10 * n)
                BY <1>1
            <3> QED
                BY <1>10, <3>1
        <2>3. g[10 * (i - 1)] \subseteq there[i - 1]
            BY <1>12
        <2>4. g[10 * i] \subseteq After(there[i - 1], Export!GenerateSchema(filtered[i], dialect))
            BY <2>1, <2>2, <2>3, SchemaIsGrounded
        <2> QED
            BY <1>6, <2>1, <2>4
    <1>13. n \in good
        <2>1. 0..n \subseteq good
            <3> HIDE DEF good
            <3> QED
                BY <1>1, <1>11, <1>12, EveryPosition
        <2> QED
            BY <1>1, <2>1
    <1> QED
        BY <1>5, <1>9, <1>13 DEF all

-----------------------------------------------------------------------------
LEMMA DatabaseIsExportable ==
    ASSUME NEW d \in Databases
    PROVE  ExportableAll(d)
    <1>1. IsList(d) /\ \A s \in ToSet(d) : IsSchema(s)
        BY DatabaseIsList
    <1>2. \A s \in ToSet(d) : \A t \in ToSet(s.lists["table"]) : IsTable(t)
        BY DumpAssumption DEF IsTable, ToSet
    <1> QED
        BY <1>1, <1>2 DEF ExportableAll, Exportable, IsSchema

LEMMA CopiesExportable ==
    ASSUME NEW d \in Databases, NEW o, NEW s \in ToSet(d)
    PROVE  Exportable(FilterSchemaObjects(s, o))
    <1>0. ExportableAll(d) /\ IsList(d) /\ \A t \in ToSet(d) : IsSchema(t)
        BY DatabaseIsExportable, DatabaseIsList
    <1> DEFINE c == FilterSchemaObjects(s, o)
    <1>1. /\ \A k \in Kinds : IsList(c.lists[k])
          /\ \A k \in Kinds : ToSet(c.lists[k]) \subseteq ToSet(s.lists[k])
        <2>1. IsSchema(s)
            BY <1>0
        <2>2. \A k \in Kinds : IsList(c.lists[k])
            BY <2>1, CopyHolds
        <2>3. \A k \in Kinds :
                ToSet(c.lists[k]) = {x \in ToSet(s.lists[k]) : KeptInSchema(o, k, x)}
            BY <2>1, CopyHolds
        <2> HIDE DEF c
        <2> QED
            BY <2>2, <2>3
    <1>2. "table" \in Kinds
        BY DEF Kinds
    <1>3. \A t \in ToSet(s.lists["table"]) : IsTable(t)
        BY <1>0 DEF ExportableAll, Exportable
    <1> HIDE DEF c
    <1>4. Exportable(c)
        BY <1>1, <1>2, <1>3 DEF Exportable
    <1> QED
        BY <1>4 DEF c

LEMMA CopyIsExportable ==
    ASSUME NEW d \in Databases, NEW o
    PROVE  ExportableAll(FilterSchema(d, o))
    <1> DEFINE f == FilterSchema(d, o)
    <1>1. ExportableAll(d) /\ IsList(d) /\ \A s \in ToSet(d) : IsSchema(s)
        BY DatabaseIsExportable, DatabaseIsList
    <1>2. CASE o = Nil
        BY <1>1, <1>2 DEF FilterSchema
    <1>3. CASE o # Nil
        <2>1. /\ IsList(f)
              /\ \A c \in ToSet(f) : \E s \in ToSet(d) : c = FilterSchemaObjects(s, o)
            BY <1>1, <1>3, FilteredCopies
        <2>2. \A s \in ToSet(d) : Exportable(FilterSchemaObjects(s, o))
            BY CopiesExportable
        <2> HIDE DEF f
        <2>3. ExportableAll(f)
            BY <2>1, <2>2 DEF ExportableAll
        <2> QED
            BY <2>3 DEF f
    <1> QED
        BY <1>2, <1>3

-----------------------------------------------------------------------------
(***************************************************************************)
(* Lists that are joined, and the loops that leave out some of their       *)
(* members.                                                                *)
(***************************************************************************)
\* One more list is joined at the end.
LEMMA FlattenAppended ==
    ASSUME NEW seqs, IsList(seqs), \A x \in ToSet(seqs) : IsList(x), NEW last, IsList(last)
    PROVE  /\ IsList(Append(seqs, last)) /\ \A x \in ToSet(Append(seqs, last)) : IsList(x)
           /\ FlattenSeq(Append(seqs, last)) = FlattenSeq(seqs) \o last
    <1> DEFINE n == Len(seqs)
               longer == Append(seqs, last)
               S == ToSet(seqs) \cup {last}
    <1>1. n \in Nat /\ seqs \in Seq(S) /\ \A i \in 1..n : seqs[i] \in ToSet(seqs)
        <2>1. seqs \in Seq(ToSet(seqs))
            BY DEF IsList
        <2> QED
            BY <2>1, ListFacts
    <1>2. longer \in Seq(S) /\ ToSet(longer) = S
        <2>1. last \in S
            OBVIOUS
        <2>2. longer \in Seq(S) /\ ToSet(longer) = ToSet(seqs) \cup {last}
            <3> HIDE DEF S
            <3> QED
                BY <1>1, <2>1, AppendedMembers
        <2> QED
            BY <2>2
    <1>3. /\ Len(longer) = n + 1 /\ longer[n + 1] = last
          /\ \A i \in 1..n : longer[i] = seqs[i]
        <2> HIDE DEF S
        <2> QED
            BY <1>1
    <1>4. IsList(longer) /\ \A x \in ToSet(longer) : IsList(x)
        BY <1>2 DEF IsList
    <1> HIDE DEF n, longer
    <1>5. PICK f : Flattens(f, seqs)
        BY FlattenSteps
    <1>6. PICK g : Flattens(g, longer)
        BY <1>4, FlattenSteps
    <1>7. f[0] = <<>> /\ FlattenSeq(seqs) = f[n] /\ \A i \in 1..n : f[i] = f[i - 1] \o seqs[i]
        BY <1>5 DEF Flattens, n
    <1> DEFINE k == n + 1
    <1>a. k \in 1..k /\ k - 1 = n /\ \A i \in 1..n : i \in 1..k
        BY <1>1
    <1> HIDE DEF k
    <1>b. Len(longer) = k /\ longer[k] = last
        BY <1>3 DEF k
    <1>8. g[0] = <<>> /\ FlattenSeq(longer) = g[k]
          /\ \A i \in 1..k : g[i] = g[i - 1] \o longer[i]
        BY <1>b, <1>6 DEF Flattens
    <1> DEFINE good == {i \in 0..n : g[i] = f[i]}
    <1>9. 0 \in good
        BY <1>1, <1>7, <1>8
    <1>10. ASSUME NEW i \in 1..n, i - 1 \in good
           PROVE  i \in good
        <2>1. i \in 1..k /\ i \in 0..n
            BY <1>1, <1>a
        <2>2. g[i] = g[i - 1] \o seqs[i]
            BY <1>3, <1>8, <2>1
        <2> QED
            BY <1>7, <1>10, <2>1, <2>2
    <1>11. 0..n \subseteq good
        <2> HIDE DEF good
        <2> QED
            BY <1>1, <1>9, <1>10, EveryPosition
    <1>12. g[n] = f[n]
        BY <1>1, <1>11
    <1>13. g[k] = g[n] \o last
        <2>1. g[k] = g[k - 1] \o longer[k]
            BY <1>8, <1>a
        <2> QED
            BY <1>a, <1>b, <2>1
    <1>14. FlattenSeq(longer) = FlattenSeq(seqs) \o last
        BY <1>7, <1>8, <1>12, <1>13
    <1> QED
        BY <1>4, <1>14 DEF longer

\* Lists of one member each, joined.
LEMMA FlattenSingles ==
    ASSUME NEW list, IsList(list)
    PROVE  FlattenSeq([i \in 1..Len(list) |-> <<list[i]>>]) = list
    <1> DEFINE n == Len(list)
               singles == [i \in 1..n |-> <<list[i]>>]
    <1>1. n \in Nat /\ DOMAIN list = 1..n
        BY ListFacts
    <1>2. IsList(singles) /\ Len(singles) = n
        <2>1. DOMAIN singles = 1..n /\ singles = [i \in 1..n |-> singles[i]]
            OBVIOUS
        <2> HIDE DEF singles, n
        <2> QED
            BY <1>1, <2>1, FunctionIsList
    <1>3. \A i \in 1..n : IsList(singles[i]) /\ Len(singles[i]) = 1 /\ singles[i][1] = list[i]
        <2> SUFFICES ASSUME NEW i \in 1..n
                     PROVE  IsList(singles[i]) /\ Len(singles[i]) = 1 /\ singles[i][1] = list[i]
            OBVIOUS
        <2> DEFINE x == list[i]
        <2>1. singles[i] = <<x>>
            OBVIOUS
        <2> HIDE DEF x
        <2>2. IsList(<<x>>) /\ Len(<<x>>) = 1 /\ <<x>>[1] = x
            BY SingleList
        <2> HIDE DEF singles
        <2> QED
            BY <2>1, <2>2 DEF x
    <1>4. \A x \in ToSet(singles) : IsList(x)
        <2> HIDE DEF singles
        <2> QED
            BY <1>2, <1>3, ListFacts
    <1> HIDE DEF n, singles
    <1>5. PICK f : Flattens(f, singles)
        BY <1>2, <1>4, FlattenSteps
    <1>6. /\ f[0] = <<>> /\ FlattenSeq(singles) = f[n]
          /\ \A i \in 1..n : f[i] = f[i - 1] \o singles[i]
          /\ \A i \in 0..n : IsList(f[i])
        BY <1>2, <1>5 DEF Flattens
    <1> DEFINE good == {i \in 0..n : Len(f[i]) = i /\ \A j \in 1..i : f[i][j] = list[j]}
    <1>7. 0 \in good
        BY <1>1, <1>6
    <1>8. ASSUME NEW i \in 1..n, i - 1 \in good
          PROVE  i \in good
        <2>1. i \in 0..n /\ i - 1 \in 0..n
            BY <1>1
        <2>2. Len(f[i - 1]) = i - 1 /\ \A j \in 1..(i - 1) : f[i - 1][j] = list[j]
            BY <1>8
        <2> DEFINE a == f[i - 1]
                   b == singles[i]
        <2>3. IsList(a) /\ IsList(b) /\ Len(b) = 1 /\ b[1] = list[i] /\ f[i] = a \o b
            BY <1>3, <1>6, <2>1
        <2>4. /\ Len(a \o b) = Len(a) + Len(b)
              /\ \A j \in 1..Len(a) : (a \o b)[j] = a[j]
              /\ \A j \in 1..Len(b) : (a \o b)[Len(a) + j] = b[j]
            <3>1. IsList(a) /\ IsList(b)
                BY <2>3
            <3> HIDE DEF a, b
            <3> QED
                BY <3>1, Joined
        <2>5. Len(f[i]) = i /\ f[i][i] = list[i]
            <3>1. 1 \in 1..Len(b) /\ Len(a) + 1 = i
                BY <2>1, <2>2, <2>3
            <3> QED
                BY <2>2, <2>3, <2>4, <3>1
        <2>6. \A j \in 1..(i - 1) : f[i][j] = list[j]
            BY <2>2, <2>3, <2>4
        <2>7. \A j \in 1..i : j = i \/ j \in 1..(i - 1)
            BY <2>1
        <2> QED
            BY <2>1, <2>5, <2>6, <2>7
    <1>9. 0..n \subseteq good
        <2> HIDE DEF good
        <2> QED
            BY <1>1, <1>7, <1>8, EveryPosition
    <1>10. Len(f[n]) = n /\ (\A j \in 1..n : f[n][j] = list[j]) /\ IsList(f[n])
        <2>1. n \in 0..n
            BY <1>1
        <2> QED
            BY <1>6, <1>9, <2>1
    <1>11. f[n] = list
        <2>1. DOMAIN f[n] = 1..n /\ f[n] = [j \in 1..n |-> f[n][j]]
            BY <1>10 DEF IsList
        <2>2. list = [j \in 1..n |-> list[j]]
            BY <1>1 DEF IsList
        <2> QED
            BY <1>10, <2>1, <2>2
    <1> QED
        BY <1>6, <1>11 DEF singles, n

\* The steps of a loop that keeps some members of a list.
Keeping(kept, list, passing) ==
    /\ kept[0] = <<>> /\ KeepOnly(list, passing) = kept[Len(list)]
    /\ \A i \in 1..Len(list) :
        kept[i] = IF list[i] \in passing THEN Append(kept[i - 1], list[i]) ELSE kept[i - 1]
    /\ \A i \in 0..Len(list) : kept[i] \in Seq(ToSet(list))

LEMMA KeepSteps ==
    ASSUME NEW list, IsList(list), NEW passing
    PROVE  \E kept : Keeping(kept, list, passing)
    <1> DEFINE n == Len(list)
               S == ToSet(list)
               V == Seq(S)
               Extend(i, v) == IF list[i] \in passing THEN Append(v, list[i]) ELSE v
               next == [i \in 1..n |-> [v \in V |-> Extend(i, v)]]
               Value(f, i) == IF i = 0 THEN <<>>
                              ELSE IF list[i] \in passing THEN Append(f[i - 1], list[i])
                              ELSE f[i - 1]
               Kept(f) == f = [i \in 0..n |-> Value(f, i)]
               kept == CHOOSE f : Kept(f)
    <1>1. n \in Nat /\ (\A i \in 1..n : list[i] \in S) /\ <<>> \in V
        BY ListFacts
    <1>2. KeepOnly(list, passing) = kept[n]
        BY DEF KeepOnly
    <1> HIDE DEF S
    <1>3. ASSUME NEW i \in 1..n, NEW v \in V
          PROVE  Extend(i, v) \in V
        BY <1>1
    <1> HIDE DEF n, V, kept
    <1>4. AreSteps(next, n, V)
        <2> HIDE DEF Extend
        <2> QED
            BY <1>3 DEF AreSteps
    <1>5. PICK f : Unfolds(f, <<>>, next, n, V)
        <2> HIDE DEF next
        <2> QED
            BY <1>1, <1>4, RecursionExists
    <1>6. ASSUME NEW i \in 1..n
          PROVE  f[i] = Extend(i, f[i - 1])
        <2>1. f[i - 1] \in V
            BY <1>1, <1>5 DEF Unfolds
        <2> HIDE DEF Extend
        <2> QED
            BY <1>5, <2>1 DEF Unfolds
    <1>7. Kept(f)
        <2>1. ASSUME NEW i \in 0..n
              PROVE  f[i] = Value(f, i)
            <3>1. CASE i = 0
                BY <1>5, <3>1 DEF Unfolds
            <3>2. CASE i # 0
                <4>1. i \in 1..n
                    BY <1>1, <3>2
                <4>2. f[i] = Extend(i, f[i - 1])
                    BY <1>6, <4>1
                <4> QED
                    BY <3>2, <4>2
            <3> QED
                BY <3>1, <3>2
        <2> HIDE DEF Value
        <2> QED
            BY <1>5, <2>1 DEF Unfolds
    <1>8. Kept(kept)
        <2> HIDE DEF Kept
        <2> QED
            BY <1>7 DEF kept
    <1>9. ASSUME NEW i \in 0..n
          PROVE  kept[i] = Value(kept, i)
        <2> HIDE DEF Value
        <2> QED
            BY <1>8
    <1>10. kept[0] = <<>>
        BY <1>1, <1>9
    <1>11. ASSUME NEW i \in 1..n
           PROVE  kept[i] = Extend(i, kept[i - 1])
        <2>1. i \in 0..n /\ i # 0
            BY <1>1
        <2> QED
            BY <1>9, <2>1
    <1> DEFINE good == {i \in 0..n : kept[i] \in V}
    <1>12. 0 \in good
        BY <1>1, <1>10
    <1>13. ASSUME NEW i \in 1..n, i - 1 \in good
           PROVE  i \in good
        <2>1. i \in 0..n
            BY <1>1
        <2> HIDE DEF Extend
        <2> QED
            BY <1>3, <1>11, <1>13, <2>1
    <1>14. 0..n \subseteq good
        <2> HIDE DEF good
        <2> QED
            BY <1>1, <1>12, <1>13, EveryPosition
    <1>15. Keeping(kept, list, passing)
        BY <1>2, <1>10, <1>11, <1>14 DEF Keeping, n, V, S
    <1> QED
        BY <1>15

\* The parts of the members a loop keeps, joined: the parts of all members with nothing
\* in the place of those that are left out.
Parts(list, of) == [i \in DOMAIN list |-> of[list[i]]]
SomeParts(list, passing, of) ==
    [i \in DOMAIN list |-> IF list[i] \in passing THEN of[list[i]] ELSE <<>>]

LEMMA KeptParts ==
    ASSUME NEW list, IsList(list), NEW passing, NEW of, \A x \in ToSet(list) : IsList(of[x])
    PROVE  /\ IsList(SomeParts(list, passing, of)) /\ Len(SomeParts(list, passing, of)) = Len(list)
           /\ \A x \in ToSet(SomeParts(list, passing, of)) : IsList(x)
           /\ FlattenSeq(Parts(KeepOnly(list, passing), of)) = FlattenSeq(SomeParts(list, passing, of))
    <1> DEFINE n == Len(list)
               S == ToSet(list)
               some == SomeParts(list, passing, of)
    <1>1. n \in Nat /\ DOMAIN list = 1..n /\ \A i \in 1..n : list[i] \in S
        BY ListFacts
    <1>2. \A i \in 1..n : some[i] = IF list[i] \in passing THEN of[list[i]] ELSE <<>>
        BY <1>1 DEF SomeParts
    <1>3. IsList(some) /\ Len(some) = n
        <2>1. DOMAIN some = 1..n /\ some = [i \in 1..n |-> some[i]]
            BY <1>1 DEF SomeParts
        <2> HIDE DEF some, n
        <2> QED
            BY <1>1, <2>1, FunctionIsList
    <1> HIDE DEF some, n
    <1>4. \A x \in S : IsList(of[x])
        OBVIOUS
    <1> HIDE DEF S
    <1>5. \A i \in 1..n : IsList(some[i])
        BY <1>1, <1>2, <1>4, EmptyIsList
    <1>6. \A x \in ToSet(some) : IsList(x)
        BY <1>3, <1>5, ListFacts
    <1>7. PICK kept : Keeping(kept, list, passing)
        BY KeepSteps
    <1>8. PICK f : Flattens(f, some)
        BY <1>3, <1>6, FlattenSteps
    <1>9. /\ f[0] = <<>> /\ FlattenSeq(some) = f[n]
          /\ \A i \in 1..n : f[i] = f[i - 1] \o some[i]
          /\ \A i \in 0..n : IsList(f[i])
        BY <1>3, <1>8 DEF Flattens
    <1>10. /\ kept[0] = <<>> /\ KeepOnly(list, passing) = kept[n]
           /\ \A i \in 1..n :
                kept[i] = IF list[i] \in passing THEN Append(kept[i - 1], list[i]) ELSE kept[i - 1]
           /\ \A i \in 0..n : kept[i] \in Seq(S)
        BY <1>7 DEF Keeping, n, S
    <1>11. ASSUME NEW v \in Seq(S)
           PROVE  /\ IsList(Parts(v, of)) /\ \A x \in ToSet(Parts(v, of)) : IsList(x)
                  /\ Len(Parts(v, of)) = Len(v)
        <2> DEFINE m == Len(v)
                   p == Parts(v, of)
        <2>1. m \in Nat /\ DOMAIN v = 1..m /\ \A i \in 1..m : v[i] \in S
            OBVIOUS
        <2> HIDE DEF m
        <2>2. p = [i \in 1..m |-> of[v[i]]]
            BY <2>1 DEF Parts
        <2>3. DOMAIN p = 1..m /\ p = [i \in 1..m |-> p[i]] /\ \A i \in 1..m : IsList(p[i])
            BY <1>4, <2>1, <2>2
        <2> HIDE DEF p
        <2>4. IsList(p) /\ Len(p) = m
            BY <2>1, <2>3, FunctionIsList
        <2>5. \A x \in ToSet(p) : IsList(x)
            BY <2>3, <2>4, ListFacts
        <2> QED
            BY <2>4, <2>5 DEF p, m
    <1>12. ASSUME NEW v \in Seq(S), NEW y \in S
           PROVE  Parts(Append(v, y), of) = Append(Parts(v, of), of[y])
        <2> DEFINE m == Len(v)
                   w == Append(v, y)
                   p == Parts(v, of)
                   q == Parts(w, of)
                   r == Append(p, of[y])
        <2>1. m \in Nat /\ DOMAIN v = 1..m
            OBVIOUS
        <2>2. DOMAIN w = 1..(m + 1) /\ w[m + 1] = y /\ \A i \in 1..m : w[i] = v[i]
            OBVIOUS
        <2>3. p = [i \in 1..m |-> of[v[i]]]
            BY <2>1 DEF Parts
        <2>4. q = [i \in 1..(m + 1) |-> of[w[i]]]
            BY <2>2 DEF Parts
        <2>5. IsList(p) /\ Len(p) = m
            BY <1>11
        <2> HIDE DEF m, w, p, q
        <2>6. DOMAIN r = 1..(m + 1) /\ r[m + 1] = of[y] /\ (\A i \in 1..m : r[i] = p[i])
              /\ r = [i \in 1..(m + 1) |-> r[i]]
            <3> DEFINE T == ToSet(p) \cup {of[y]}
            <3>1. p \in Seq(T)
                <4>1. p \in Seq(ToSet(p))
                    BY <2>5 DEF IsList
                <4> QED
                    BY <4>1
            <3>2. of[y] \in T
                OBVIOUS
            <3> HIDE DEF T
            <3> QED
                BY <2>1, <2>5, <3>1, <3>2
        <2> HIDE DEF r
        <2>7. ASSUME NEW i \in 1..(m + 1)
              PROVE  q[i] = r[i]
            <3>1. CASE i = m + 1
                BY <2>2, <2>4, <2>6, <3>1
            <3>2. CASE i # m + 1
                <4>1. i \in 1..m
                    BY <2>1, <3>2
                <4> QED
                    BY <2>2, <2>3, <2>4, <2>6, <4>1
            <3> QED
                BY <3>1, <3>2
        <2>8. DOMAIN q = 1..(m + 1) /\ q = [i \in 1..(m + 1) |-> q[i]]
            BY <2>4
        <2>9. q = r
            BY <2>6, <2>7, <2>8
        <2> QED
            BY <2>9 DEF q, r, w, p
    <1> DEFINE good == {i \in 0..n : FlattenSeq(Parts(kept[i], of)) = f[i]}
    <1>13. 0 \in good
        <2>1. Parts(<<>>, of) = <<>>
            BY DEF Parts
        <2>2. FlattenSeq(<<>>) = <<>>
            BY EmptyIsList DEF FlattenSeq
        <2> QED
            BY <1>1, <1>9, <1>10, <2>1, <2>2
    <1>14. ASSUME NEW i \in 1..n, i - 1 \in good
           PROVE  i \in good
        <2>1. i \in 0..n /\ i - 1 \in 0..n
            BY <1>1
        <2>2. FlattenSeq(Parts(kept[i - 1], of)) = f[i - 1]
            BY <1>14
        <2>3. CASE list[i] \in passing
            <3> DEFINE p == Parts(kept[i - 1], of)
                       y == list[i]
            <3>1. kept[i] = Append(kept[i - 1], y) /\ some[i] = of[y]
                BY <1>2, <1>10, <2>3
            <3>2. kept[i - 1] \in Seq(S) /\ y \in S
                BY <1>1, <1>10, <2>1
            <3>3. Parts(kept[i], of) = Append(p, of[y])
                BY <1>12, <3>1, <3>2
            <3>4. FlattenSeq(Append(p, of[y])) = FlattenSeq(p) \o of[y]
                <4>1. IsList(p) /\ (\A x \in ToSet(p) : IsList(x)) /\ IsList(of[y])
                    BY <1>4, <1>11, <3>2
                <4> HIDE DEF p, y
                <4> QED
                    BY <4>1, FlattenAppended
            <3> QED
                BY <1>9, <2>1, <2>2, <3>1, <3>3, <3>4
        <2>4. CASE list[i] \notin passing
            <3>1. kept[i] = kept[i - 1] /\ some[i] = <<>>
                BY <1>2, <1>10, <2>4
            <3>2. f[i - 1] \o <<>> = f[i - 1]
                <4>1. f[i - 1] \in Seq(ToSet(f[i - 1]))
                    BY <1>9, <2>1 DEF IsList
                <4> QED
                    BY <4>1
            <3> QED
                BY <1>9, <2>1, <2>2, <3>1, <3>2
        <2> QED
            BY <2>3, <2>4
    <1>15. 0..n \subseteq good
        <2> HIDE DEF good
        <2> QED
            BY <1>1, <1>13, <1>14, EveryPosition
    <1>16. FlattenSeq(Parts(kept[n], of)) = f[n]
        BY <1>1, <1>15
    <1> QED
        BY <1>3, <1>6, <1>9, <1>10, <1>16 DEF some, n

-----------------------------------------------------------------------------
(***************************************************************************)
(* A script with some statements left out.                                 *)
(***************************************************************************)
\* Every statement of a list succeeds, run from what is present.
AllSucceed(present, list) ==
    \A i \in 1..Len(list) : Export!Succeeds(list[i], Ran(present, list)[i - 1])

\* Run where no more is there and the same of K, the shorter list succeeds as the longer
\* one does, and then again no more is there and the same of K.
Within(q, p, K) == q \subseteq p /\ p \cap K \subseteq q
Follows(shorter, longer, K) ==
    \A p, q : Within(q, p, K) /\ AllSucceed(p, longer) =>
        AllSucceed(q, shorter) /\ Within(After(q, shorter), After(p, longer), K)

LEMMA JoinedSucceed ==
    ASSUME NEW present, NEW a, IsList(a), NEW b, IsList(b)
    PROVE  AllSucceed(present, a \o b) <=>
                AllSucceed(present, a) /\ AllSucceed(After(present, a), b)
    <1> DEFINE n == Len(a)
               m == Len(b)
               c == a \o b
               ran == Ran(present, c)
               first == Ran(present, a)
               middle == After(present, a)
               second == Ran(middle, b)
               G(x, there) == Export!Succeeds(x, there)
    <1>1. n \in Nat /\ m \in Nat
        BY ListFacts
    <1>2. /\ IsList(c) /\ Len(c) = n + m
          /\ \A i \in 1..n : c[i] = a[i]
          /\ \A i \in 1..m : c[n + i] = b[i]
        BY Joined
    <1>3. first[0] = present /\ (\A i \in 1..n : first[i] = Present(first[i - 1], a[i])) /\ middle = first[n]
        BY RanSteps DEF After
    <1>4. second[0] = middle /\ \A i \in 1..m : second[i] = Present(second[i - 1], b[i])
        BY RanSteps
    <1>5. AllSucceed(present, a) <=> \A i \in 1..n : G(a[i], first[i - 1])
        BY DEF AllSucceed
    <1>6. AllSucceed(middle, b) <=> \A i \in 1..m : G(b[i], second[i - 1])
        BY DEF AllSucceed
    <1> HIDE DEF n, m, c, first, second, middle
    <1>7. ran[0] = present /\ \A i \in 1..(n + m) : ran[i] = Present(ran[i - 1], c[i])
        BY <1>2, RanSteps
    <1>8. AllSucceed(present, c) <=> \A i \in 1..(n + m) : G(c[i], ran[i - 1])
        BY <1>2 DEF AllSucceed
    <1> HIDE DEF ran, G
    <1> DEFINE good == {i \in 0..n : ran[i] = first[i]}
    <1>9. 0 \in good
        BY <1>1, <1>3, <1>7
    <1>10. ASSUME NEW i \in 1..n, i - 1 \in good
           PROVE  i \in good
        <2>1. i \in 0..n /\ i \in 1..(n + m)
            BY <1>1
        <2> QED
            BY <1>2, <1>3, <1>7, <1>10, <2>1
    <1>11. \A i \in 0..n : ran[i] = first[i]
        <2>1. 0..n \subseteq good
            <3> HIDE DEF good
            <3> QED
                BY <1>1, <1>9, <1>10, EveryPosition
        <2> QED
            BY <2>1
    <1> DEFINE fine == {i \in 0..m : ran[n + i] = second[i]}
    <1>12. 0 \in fine
        <2>1. n \in 0..n /\ n + 0 = n /\ 0 \in 0..m
            BY <1>1
        <2> QED
            BY <1>3, <1>4, <1>11, <2>1
    <1>13. ASSUME NEW i \in 1..m, i - 1 \in fine
           PROVE  i \in fine
        <2>1. i \in 0..m /\ n + i \in 1..(n + m) /\ (n + i) - 1 = n + (i - 1)
            BY <1>1
        <2>2. ran[n + i] = Present(ran[(n + i) - 1], c[n + i])
            BY <1>7, <2>1
        <2>3. ran[(n + i) - 1] = second[i - 1]
            BY <1>13, <2>1
        <2>4. ran[n + i] = second[i]
            BY <1>2, <1>4, <2>2, <2>3
        <2> QED
            BY <2>1, <2>4
    <1>14. \A i \in 0..m : ran[n + i] = second[i]
        <2>1. 0..m \subseteq fine
            <3> HIDE DEF fine
            <3> QED
                BY <1>1, <1>12, <1>13, EveryPosition
        <2> QED
            BY <2>1
    <1>15. ASSUME NEW i \in 1..n
           PROVE  G(c[i], ran[i - 1]) = G(a[i], first[i - 1])
        <2>1. i - 1 \in 0..n
            BY <1>1
        <2> QED
            BY <1>2, <1>11, <2>1
    <1>16. ASSUME NEW i \in 1..m
           PROVE  G(c[n + i], ran[(n + i) - 1]) = G(b[i], second[i - 1])
        <2>1. i - 1 \in 0..m /\ (n + i) - 1 = n + (i - 1)
            BY <1>1
        <2>2. ran[(n + i) - 1] = second[i - 1]
            BY <1>14, <2>1
        <2> QED
            BY <1>2, <2>2
    <1>17. ASSUME \A i \in 1..(n + m) : G(c[i], ran[i - 1])
           PROVE  (\A i \in 1..n : G(a[i], first[i - 1])) /\ \A i \in 1..m : G(b[i], second[i - 1])
        <2>1. \A i \in 1..n : i \in 1..(n + m)
            BY <1>1
        <2>2. \A i \in 1..m : n + i \in 1..(n + m)
            BY <1>1
        <2> QED
            BY <1>15, <1>16, <1>17, <2>1, <2>2
    <1>18. ASSUME \A i \in 1..n : G(a[i], first[i - 1]), \A i \in 1..m : G(b[i], second[i - 1]),
                  NEW i \in 1..(n + m)
           PROVE  G(c[i], ran[i - 1])
        <2>1. CASE i \in 1..n
            BY <1>15, <1>18, <2>1
        <2>2. CASE i \notin 1..n
            <3> DEFINE j == i - n
            <3>1. j \in 1..m /\ n + j = i
                BY <1>1, <2>2
            <3> HIDE DEF j
            <3> QED
                BY <1>16, <1>18, <3>1
        <2> QED
            BY <2>1, <2>2
    <1>19. AllSucceed(present, c) <=> AllSucceed(present, a) /\ AllSucceed(middle, b)
        BY <1>5, <1>6, <1>8, <1>17, <1>18
    <1> QED
        BY <1>19 DEF c, middle

\* Scripts that follow each other do so when they are joined.
LEMMA JoinedFollow ==
    ASSUME NEW K, NEW a, IsList(a), NEW b, IsList(b), NEW c, IsList(c), NEW e, IsList(e),
           Follows(a, c, K), Follows(b, e, K)
    PROVE  Follows(a \o b, c \o e, K)
    <1> SUFFICES ASSUME NEW p, NEW q, Within(q, p, K), AllSucceed(p, c \o e)
                 PROVE  AllSucceed(q, a \o b) /\ Within(After(q, a \o b), After(p, c \o e), K)
        BY DEF Follows
    <1>1. AllSucceed(p, c) /\ AllSucceed(After(p, c), e)
        BY JoinedSucceed
    <1>2. AllSucceed(q, a) /\ Within(After(q, a), After(p, c), K)
        BY <1>1 DEF Follows
    <1>3. /\ AllSucceed(After(q, a), b)
          /\ Within(After(After(q, a), b), After(After(p, c), e), K)
        BY <1>1, <1>2 DEF Follows
    <1>4. AllSucceed(q, a \o b)
        BY <1>2, <1>3, JoinedSucceed
    <1>5. After(p, c \o e) = After(After(p, c), e) /\ After(q, a \o b) = After(After(q, a), b)
        BY RanJoined
    <1> QED
        BY <1>3, <1>4, <1>5

\* Nothing follows statements that make nothing of K.
LEMMA NothingFollows ==
    ASSUME NEW K, NEW list, IsList(list), MadeBy(list) \cap K = {}
    PROVE  Follows(<<>>, list, K)
    <1> SUFFICES ASSUME NEW p, NEW q, Within(q, p, K), AllSucceed(p, list)
                 PROVE  AllSucceed(q, <<>>) /\ Within(After(q, <<>>), After(p, list), K)
        BY DEF Follows
    <1>1. AllSucceed(q, <<>>)
        BY EmptyIsList DEF AllSucceed
    <1>2. After(q, <<>>) = q
        BY RanEmpty
    <1>3. After(p, list) = p \cup MadeBy(list)
        BY AllSucceeded DEF AllSucceed
    <1> QED
        BY <1>1, <1>2, <1>3 DEF Within

\* A statement that needs nothing but what is in K follows itself.
LEMMA StatementFollows ==
    ASSUME NEW K, NEW x, x.needs \subseteq K
    PROVE  Follows(<<x>>, <<x>>, K)
    <1> DEFINE one == <<x>>
    <1>1. IsList(one) /\ Len(one) = 1 /\ one[1] = x
        BY SingleList
    <1> HIDE DEF one
    <1>2. ASSUME NEW p
          PROVE  /\ AllSucceed(p, one) <=> Export!Succeeds(x, p)
                 /\ After(p, one) = Present(p, x)
        <2>1. Ran(p, one)[0] = p /\ \A i \in 1..1 : Ran(p, one)[i] = Present(Ran(p, one)[i - 1], one[i])
            BY <1>1, RanSteps
        <2>2. 1 \in 1..1 /\ 1 - 1 = 0 /\ \A i \in 1..1 : i = 1
            OBVIOUS
        <2>3. Ran(p, one)[1] = Present(p, x)
            BY <1>1, <2>1, <2>2
        <2>4. AllSucceed(p, one) <=> Export!Succeeds(one[1], Ran(p, one)[0])
            BY <1>1, <2>2 DEF AllSucceed
        <2> QED
            BY <1>1, <2>1, <2>3, <2>4 DEF After
    <1>3. ASSUME NEW p, NEW q, Within(q, p, K), AllSucceed(p, one)
          PROVE  AllSucceed(q, one) /\ Within(After(q, one), After(p, one), K)
        <2>1. Export!Succeeds(x, p)
            BY <1>2, <1>3
        <2>2. Export!Succeeds(x, q)
            BY <1>3, <2>1 DEF Export!Succeeds, Within
        <2>3. After(p, one) = p \cup x.makes /\ After(q, one) = q \cup x.makes
            BY <1>2, <2>1, <2>2 DEF Present
        <2> QED
            BY <1>2, <1>3, <2>2, <2>3 DEF Within
    <1>4. Follows(one, one, K)
        BY <1>3 DEF Follows
    <1> QED
        BY <1>4 DEF one

\* Lists of lists that follow each other part by part do so when they are joined.
LEMMA FlattenFollows ==
    ASSUME NEW K, NEW a, IsList(a), NEW b, IsList(b), Len(a) = Len(b),
           \A x \in ToSet(a) : IsList(x), \A x \in ToSet(b) : IsList(x),
           \A i \in 1..Len(b) : Follows(a[i], b[i], K)
    PROVE  Follows(FlattenSeq(a), FlattenSeq(b), K)
    <1> DEFINE n == Len(b)
    <1>1. n \in Nat /\ \A i \in 1..n : IsList(a[i]) /\ IsList(b[i])
        BY ListFacts
    <1>2. PICK f : Flattens(f, a)
        BY FlattenSteps
    <1>3. PICK g : Flattens(g, b)
        BY FlattenSteps
    <1>4. /\ f[0] = <<>> /\ FlattenSeq(a) = f[n]
          /\ \A i \in 1..n : f[i] = f[i - 1] \o a[i]
          /\ \A i \in 0..n : IsList(f[i])
        BY <1>2 DEF Flattens
    <1>5. /\ g[0] = <<>> /\ FlattenSeq(b) = g[n]
          /\ \A i \in 1..n : g[i] = g[i - 1] \o b[i]
          /\ \A i \in 0..n : IsList(g[i])
        BY <1>3 DEF Flattens
    <1>6. \A i \in 1..n : Follows(a[i], b[i], K)
        OBVIOUS
    <1> HIDE DEF n
    <1> DEFINE good == {i \in 0..n : Follows(f[i], g[i], K)}
    <1>7. 0 \in good
        <2>1. MadeBy(<<>>) \cap K = {}
            BY EmptyIsList DEF MadeBy
        <2>2. Follows(<<>>, <<>>, K)
            BY <2>1, EmptyIsList, NothingFollows
        <2> QED
            BY <1>1, <1>4, <1>5, <2>2
    <1>8. ASSUME NEW i \in 1..n, i - 1 \in good
          PROVE  i \in good
        <2>1. i \in 0..n /\ i - 1 \in 0..n /\ Follows(f[i - 1], g[i - 1], K)
            BY <1>1, <1>8
        <2>2. IsList(f[i - 1]) /\ IsList(g[i - 1]) /\ IsList(a[i]) /\ IsList(b[i])
            BY <1>1, <1>4, <1>5, <2>1
        <2>3. Follows(f[i - 1] \o a[i], g[i - 1] \o b[i], K)
            BY <1>6, <2>1, <2>2, JoinedFollow
        <2> QED
            BY <1>4, <1>5, <2>1, <2>3
    <1>9. 0..n \subseteq good
        <2> HIDE DEF good
        <2> QED
            BY <1>1, <1>7, <1>8, EveryPosition
    <1>10. Follows(f[n], g[n], K)
        BY <1>1, <1>9
    <1> QED
        BY <1>4, <1>5, <1>10

\* A list of statements that need nothing but what is in K follows itself.
LEMMA ListFollows ==
    ASSUME NEW K, NEW list, IsList(list), \A x \in ToSet(list) : x.needs \subseteq K
    PROVE  Follows(list, list, K)
    <1> DEFINE n == Len(list)
               singles == [i \in 1..n |-> <<list[i]>>]
    <1>1. n \in Nat /\ \A i \in 1..n : list[i].needs \subseteq K
        BY ListFacts
    <1>2. FlattenSeq(singles) = list
        BY FlattenSingles
    <1>3. DOMAIN singles = 1..n /\ singles = [i \in 1..n |-> singles[i]]
          /\ \A i \in 1..n : singles[i] = <<list[i]>>
        OBVIOUS
    <1> HIDE DEF singles, n
    <1>4. IsList(singles) /\ Len(singles) = n
        BY <1>1, <1>3, FunctionIsList
    <1>5. \A i \in 1..n : IsList(singles[i])
        BY <1>3, SingleList
    <1>6. \A x \in ToSet(singles) : IsList(x)
        BY <1>4, <1>5, ListFacts
    <1>7. \A i \in 1..n : Follows(singles[i], singles[i], K)
        BY <1>1, <1>3, StatementFollows
    <1>8. Follows(FlattenSeq(singles), FlattenSeq(singles), K)
        BY <1>4, <1>6, <1>7, FlattenFollows
    <1> QED
        BY <1>2, <1>8

-----------------------------------------------------------------------------
(***************************************************************************)
(* Whose an identifier is.                                                 *)
(***************************************************************************)
TableKinds == {"table", "column", "check", "fk", "index", "trigger", "comment"}

\* The parts of an object's name: where it is looked up, and its own name; a schema with
\* a name is looked up by it in PostgreSQL.
Named(schema) == schema # ""
NamePlace(schema, name, d) == Export!QualifiedName(schema, name, d)[1]

LEMMA QualifiedNameIs ==
    ASSUME NEW schema, NEW name, NEW d
    PROVE  /\ Export!QualifiedName(schema, name, d) = <<NamePlace(schema, name, d), name>>
           /\ d = "postgres" /\ Named(schema) => NamePlace(schema, name, d) = schema
    <1> DEFINE q == Export!QualifiedName(schema, name, d)
               default == Export!DefaultSchema(d)
               unnamed == schema = ""
    <1>1. q = IF unnamed \/ d = "mysql" THEN <<default, name>> ELSE <<schema, name>>
        BY Zenon DEF Export!QualifiedName
    <1>2. unnamed <=> ~Named(schema)
        BY Zenon DEF Named
    <1> HIDE DEF q, default, unnamed
    <1>3. \A a : <<a, name>>[1] = a
        OBVIOUS
    <1>4. d = "postgres" => d # "mysql"
        OBVIOUS
    <1>5. CASE unnamed \/ d = "mysql"
        BY <1>1, <1>2, <1>3, <1>4, <1>5 DEF NamePlace, q
    <1>6. CASE ~(unnamed \/ d = "mysql")
        BY <1>1, <1>2, <1>3, <1>6 DEF NamePlace, q
    <1> QED
        BY <1>5, <1>6 DEF q

\* What a part of a table is known by begins with the table's name.
LEMMA PartIdIs ==
    ASSUME NEW kind, NEW a, NEW b, NEW z
    PROVE  LET y == Export!PartId(kind, <<a, b>>, z)
           IN  y.kind = kind /\ y.parts[1] = a /\ y.parts[2] = b /\ y.parts[3] = z
    <1>1. Export!PartId(kind, <<a, b>>, z) = Export!Id(kind, <<a, b, z>>)
        BY TripleIs, Zenon DEF Export!PartId
    <1> QED
        BY <1>1 DEF Export!Id

LEMMA IdOfTable ==
    ASSUME NEW t, NEW a, NEW b, NEW d,
           NEW y \in Export!TableIds(t, <<a, b>>) \cup Export!AttachedIds(t, <<a, b>>, d)
    PROVE  y.kind \in TableKinds /\ y.parts[1] = a /\ y.parts[2] = b
    <1> DEFINE name == <<a, b>>
    <1>1. ASSUME NEW kind \in {"table", "comment"}, y = Export!Id(kind, name)
          PROVE  y.kind \in TableKinds /\ y.parts[1] = a /\ y.parts[2] = b
        BY <1>1 DEF Export!Id, TableKinds
    <1>2. ASSUME NEW kind \in TableKinds, NEW z, y = Export!PartId(kind, name, z)
          PROVE  y.kind \in TableKinds /\ y.parts[1] = a /\ y.parts[2] = b
        BY <1>2, PartIdIs
    <1> HIDE DEF name
    <1> DEFINE Part(kind) == \E z : y = Export!PartId(kind, name, z)
               Good == y.kind \in TableKinds /\ y.parts[1] = a /\ y.parts[2] = b
    <1>3. \A kind \in TableKinds : Part(kind) => Good
        BY <1>2
    <1>4. CASE y \in Export!TableIds(t, name)
        <2>1. y = Export!Id("table", name) \/ Part("column") \/ Part("check") \/ Part("fk")
            BY <1>4, Zenon DEF Export!TableIds
        <2> HIDE DEF Part
        <2>2. {"column", "check", "fk"} \subseteq TableKinds
            BY DEF TableKinds
        <2> QED
            BY <1>1, <1>3, <2>1, <2>2
    <1>5. CASE y \in Export!AttachedIds(t, name, d)
        <2>1. y = Export!Id("comment", name) \/ Part("index") \/ Part("trigger") \/ Part("comment")
            <3>1. y \in {Export!Id("comment", name)} \/ Part("index") \/ Part("trigger") \/ Part("comment")
                BY <1>5, Zenon DEF Export!AttachedIds
            <3> QED
                BY <3>1
        <2> HIDE DEF Part
        <2>2. {"index", "trigger", "comment"} \subseteq TableKinds
            BY DEF TableKinds
        <2> QED
            BY <1>1, <1>3, <2>1, <2>2
    <1> QED
        BY <1>4, <1>5 DEF name

\* An identifier of an object tells the object's kind, its name and where it is.
LEMMA IdOfObject ==
    ASSUME NEW k \in Kinds, NEW x, NEW s, NEW d, NEW y \in ObjectIds(k, x, s, d)
    PROVE  /\ k = "table" => y.kind \in TableKinds
           /\ k # "table" => y.kind = k
           /\ k = "extension" => y.parts[1] = x.name
           /\ k # "extension" => y.parts[1] = NamePlace(s.name, x.name, d) /\ y.parts[2] = x.name
           /\ k \in Signed => y.parts[3] = x.signature
    <1>0. \A kind : kind \in Signed => kind # "table" /\ kind # "extension"
        BY DEF Signed
    <1> DEFINE place == NamePlace(s.name, x.name, d)
    <1>1. Export!QualifiedName(s.name, x.name, d) = <<place, x.name>>
        BY QualifiedNameIs
    <1> HIDE DEF place
    <1>2. CASE k = "table"
        <2>1. Export!NameOf(k, x, s.name, d) = <<place, x.name>>
            BY <1>0, <1>1, <1>2, NameOfIs
        <2>2. y \in Export!TableIds(x, <<place, x.name>>) \cup Export!AttachedIds(x, <<place, x.name>>, d)
            BY <1>2, <2>1 DEF ObjectIds
        <2> QED
            BY <1>0, <1>2, <2>2, IdOfTable DEF place
    <1>3. CASE k # "table"
        <2> DEFINE name == Export!NameOf(k, x, s.name, d)
        <2>1. y.kind = k /\ y.parts = name
            BY <1>3 DEF ObjectIds, Export!Id
        <2>2. k = "extension" => name = <<x.name>>
            BY NameOfIs
        <2>3. k # "extension" /\ k \notin Signed => name = <<place, x.name>>
            BY <1>1, NameOfIs
        <2>4. k \in Signed => name = <<place, x.name, x.signature>>
            BY <1>1, NameOfIs
        <2> HIDE DEF name
        <2> QED
            BY <1>0, <1>3, <2>1, <2>2, <2>3, <2>4 DEF place
    <1> QED
        BY <1>2, <1>3

\* The names of a database that are unique.
EngineOf(d) == IF d \in MySqlDatabases THEN "mysql" ELSE "postgres"

LEMMA EngineIsDialect == \A d : EngineOf(d) \in Export!Dialects
    BY DEF EngineOf, Export!Dialects

LEMMA UniqueNames ==
    ASSUME NEW d \in Databases, NEW s \in ToSet(d), NEW t \in ToSet(d)
    PROVE  /\ d \in MySqlDatabases \/ s.name = t.name => s = t
           /\ d \in MySqlDatabases \/ Named(s.name)
           /\ \A x \in ToSet(s.lists["extension"]), z \in ToSet(t.lists["extension"]) :
                x.name = z.name => s = t
    <1>1. PICK i \in DOMAIN d : s = d[i]
        BY DEF ToSet
    <1>2. PICK j \in DOMAIN d : t = d[j]
        BY DEF ToSet
    <1>3. /\ d \in MySqlDatabases \/ d[i].name = d[j].name => i = j
          /\ \A x \in ToSet(d[i].lists["extension"]), z \in ToSet(d[j].lists["extension"]) :
                x.name = z.name => i = j
        BY NamesAssumption, Zenon
    <1>4. d \in MySqlDatabases \/ Named(d[i].name)
        BY NamesAssumption, Zenon DEF Named
    <1> QED
        BY <1>1, <1>2, <1>3, <1>4

\* The objects of a list have different names or signatures.
SameObject(k, x, z) == x.name = z.name /\ (k \in Signed => x.signature = z.signature)

LEMMA UniqueObjects ==
    ASSUME NEW d \in Databases, NEW s \in ToSet(d), NEW k \in Kinds,
           NEW a \in DOMAIN s.lists[k], NEW b \in DOMAIN s.lists[k],
           SameObject(k, s.lists[k][a], s.lists[k][b])
    PROVE  a = b
    <1>1. PICK i \in DOMAIN d : s = d[i]
        BY DEF ToSet
    <1> DEFINE x == s.lists[k][a]
               z == s.lists[k][b]
    <1>2. /\ x.name = z.name /\ (k \in {"function", "procedure", "rule"} => x.signature = z.signature)
          => a = b
        BY <1>1, NamesAssumption, Zenon
    <1>3. x.name = z.name /\ (k \in {"function", "procedure", "rule"} => x.signature = z.signature)
        BY DEF SameObject, Signed
    <1> QED
        BY <1>2, <1>3

\* Two objects of a database that share an identifier are of one kind, in one schema, and
\* one object.
LEMMA SharedId ==
    ASSUME NEW d \in Databases, NEW s \in ToSet(d), NEW t \in ToSet(d),
           NEW k \in Kinds, NEW x \in ToSet(s.lists[k]), NEW l \in Kinds, NEW z \in ToSet(t.lists[l]),
           NEW y \in ObjectIds(k, x, s, EngineOf(d)) \cap ObjectIds(l, z, t, EngineOf(d))
    PROVE  s = t /\ k = l /\ SameObject(k, x, z) /\ x = z
    <1>1. k = l
        <2>1. /\ k = "table" => y.kind \in TableKinds
              /\ k # "table" => y.kind = k
              /\ l = "table" => y.kind \in TableKinds
              /\ l # "table" => y.kind = l
            BY IdOfObject
        <2>2. TableKinds \cap Kinds = {"table"}
            BY DEF TableKinds, Kinds
        <2> QED
            BY <2>1, <2>2
    <1>2. SameObject(k, x, z)
        <2>1. CASE k = "extension"
            <3>1. k \notin Signed
                BY <2>1 DEF Signed
            <3> QED
                BY <1>1, <2>1, <3>1, IdOfObject DEF SameObject
        <2>2. CASE k # "extension"
            <3>1. x.name = z.name
                BY <1>1, <2>2, IdOfObject
            <3>2. k \in Signed => x.signature = z.signature
                BY <1>1, IdOfObject
            <3> QED
                BY <3>1, <3>2 DEF SameObject
        <2> QED
            BY <2>1, <2>2
    <1>3. s = t
        <2>0. x.name = z.name
            BY <1>2 DEF SameObject
        <2>1. CASE d \in MySqlDatabases
            BY <2>1, UniqueNames
        <2>2. CASE k = "extension"
            BY <1>1, <2>0, <2>2, UniqueNames
        <2>3. CASE d \notin MySqlDatabases /\ k # "extension"
            <3>1. NamePlace(s.name, x.name, EngineOf(d)) = NamePlace(t.name, z.name, EngineOf(d))
                BY <1>1, <2>3, IdOfObject
            <3>2. Named(s.name) /\ Named(t.name) /\ EngineOf(d) = "postgres"
                BY <2>3, UniqueNames DEF EngineOf
            <3>3. s.name = t.name
                BY <3>1, <3>2, QualifiedNameIs
            <3> QED
                BY <3>3, UniqueNames
        <2> QED
            BY <2>1, <2>2, <2>3
    <1>4. x = z
        <2>1. PICK a \in DOMAIN s.lists[k] : x = s.lists[k][a]
            BY DEF ToSet
        <2>2. PICK b \in DOMAIN s.lists[k] : z = s.lists[k][b]
            BY <1>1, <1>3 DEF ToSet
        <2>3. a = b
            BY <1>2, <2>1, <2>2, UniqueObjects
        <2> QED
            BY <2>1, <2>2, <2>3
    <1> QED
        BY <1>1, <1>2, <1>3, <1>4

\* The schema itself is known by nothing an object is known by.
LEMMA SchemaId ==
    ASSUME NEW schema, NEW d, NEW y \in Export!InSchema(schema, d)
    PROVE  y.kind = "schema" /\ y.parts = <<schema>>
    <1>1. y = Export!Id("schema", <<schema>>)
        BY Zenon DEF Export!InSchema
    <1> QED
        BY <1>1 DEF Export!Id

LEMMA ExportedId ==
    ASSUME NEW s, NEW d, NEW y \in Export!Exported(s, d)
    PROVE  \/ y \in Export!InSchema(s.name, d)
           \/ /\ y.kind # "schema"
              /\ \E k \in Kinds : \E x \in ToSet(s.lists[k]) :
                    Export!WrittenIn(d, k) /\ y \in ObjectIds(k, x, s, d)
    <1>1. CASE y \notin Export!InSchema(s.name, d)
        <2>1. PICK k \in Kinds : y \in KindIds(k, s, d)
            BY <1>1, ExportedIds
        <2>2. PICK x \in ToSet(s.lists[k]) : Export!WrittenIn(d, k) /\ y \in ObjectIds(k, x, s, d)
            BY <2>1 DEF KindIds
        <2>3. y.kind \in TableKinds \cup Kinds
            BY <2>2, IdOfObject
        <2>4. y.kind # "schema"
            BY <2>3 DEF TableKinds, Kinds
        <2> QED
            BY <2>2, <2>4
    <1> QED
        BY <1>1

\* Objects that are left out, and schemas that are, have no identifier of a filtered copy.
IdsOf(schemas, d) == UNION {Export!Exported(s, d) : s \in ToSet(schemas)}

LEMMA FilteredId ==
    ASSUME NEW d \in Databases, NEW o, o # Nil, NEW y \in IdsOf(FilterSchema(d, o), EngineOf(d))
    PROVE  \E t \in ToSet(d) :
            LET c == FilterSchemaObjects(t, o)
            IN  /\ c \in ToSet(FilterSchema(d, o)) /\ ShouldIncludeSchema(t.name, o)
                /\ \/ y.kind = "schema" /\ y.parts = <<t.name>>
                   \/ /\ y.kind # "schema"
                      /\ \E l \in Kinds : \E z \in ToSet(t.lists[l]) :
                            KeptInSchema(o, l, z) /\ y \in ObjectIds(l, z, t, EngineOf(d))
    <1> DEFINE f == FilterSchema(d, o)
               engine == EngineOf(d)
    <1>1. IsList(d) /\ \A s \in ToSet(d) : IsSchema(s)
        BY DatabaseIsList
    <1>2. PICK c \in ToSet(f) : y \in Export!Exported(c, engine)
        BY DEF IdsOf
    <1>3. PICK t \in ToSet(d) : c = FilterSchemaObjects(t, o) /\ ShouldIncludeSchema(t.name, o)
        BY <1>1, <1>2, FilteredCopies
    <1>4. c.name = t.name /\ \A k \in Kinds : ToSet(c.lists[k]) = {x \in ToSet(t.lists[k]) : KeptInSchema(o, k, x)}
        BY <1>1, <1>3, CopyHolds
    <1> HIDE DEF f, engine
    <1>5. CASE y \in Export!InSchema(c.name, engine)
        <2>1. y.kind = "schema" /\ y.parts = <<t.name>>
            BY <1>4, <1>5, SchemaId
        <2> QED
            BY <1>2, <1>3, <2>1 DEF f
    <1>6. CASE y \notin Export!InSchema(c.name, engine)
        <2>1. y.kind # "schema"
              /\ \E k \in Kinds : \E x \in ToSet(c.lists[k]) : y \in ObjectIds(k, x, c, engine)
            BY <1>2, <1>6, ExportedId
        <2>2. \A k, x : ObjectIds(k, x, c, engine) = ObjectIds(k, x, t, engine)
            BY <1>4 DEF ObjectIds
        <2>3. \E l \in Kinds : \E z \in ToSet(t.lists[l]) :
                KeptInSchema(o, l, z) /\ y \in ObjectIds(l, z, t, engine)
            BY <1>4, <2>1, <2>2
        <2> QED
            BY <1>2, <1>3, <2>1, <2>3 DEF f, engine
    <1> QED
        BY <1>5, <1>6

LEMMA LeftOutObject ==
    ASSUME NEW d \in Databases, NEW o, o # Nil, NEW s \in ToSet(d),
           NEW k \in Kinds, NEW x \in ToSet(s.lists[k]), ~KeptInSchema(o, k, x)
    PROVE  ObjectIds(k, x, s, EngineOf(d)) \cap IdsOf(FilterSchema(d, o), EngineOf(d)) = {}
    <1> SUFFICES ASSUME NEW y \in ObjectIds(k, x, s, EngineOf(d)), y \in IdsOf(FilterSchema(d, o), EngineOf(d))
                 PROVE  FALSE
        OBVIOUS
    <1>1. y.kind # "schema"
        <2>1. y.kind \in TableKinds \cup Kinds
            BY IdOfObject
        <2> QED
            BY <2>1 DEF TableKinds, Kinds
    <1>2. PICK t \in ToSet(d) : \E l \in Kinds : \E z \in ToSet(t.lists[l]) :
            KeptInSchema(o, l, z) /\ y \in ObjectIds(l, z, t, EngineOf(d))
        BY <1>1, FilteredId
    <1>a. PICK l \in Kinds : \E z \in ToSet(t.lists[l]) :
            KeptInSchema(o, l, z) /\ y \in ObjectIds(l, z, t, EngineOf(d))
        BY <1>2
    <1>3. PICK z \in ToSet(t.lists[l]) :
            KeptInSchema(o, l, z) /\ y \in ObjectIds(l, z, t, EngineOf(d))
        BY <1>a
    <1>4. k = l /\ x = z
        BY <1>3, SharedId
    <1> QED
        BY <1>3, <1>4

LEMMA LeftOutSchema ==
    ASSUME NEW d \in Databases, NEW o, o # Nil, NEW s \in ToSet(d),
           ShouldIncludeSchema(s.name, o) => FilterSchemaObjects(s, o) \notin ToSet(FilterSchema(d, o))
    PROVE  Export!Exported(s, EngineOf(d)) \cap IdsOf(FilterSchema(d, o), EngineOf(d)) = {}
    <1> DEFINE f == FilterSchema(d, o)
               engine == EngineOf(d)
    <1> SUFFICES ASSUME NEW y \in Export!Exported(s, engine), y \in IdsOf(f, engine)
                 PROVE  FALSE
        OBVIOUS
    <1>1. PICK t \in ToSet(d) :
            /\ FilterSchemaObjects(t, o) \in ToSet(f) /\ ShouldIncludeSchema(t.name, o)
            /\ \/ y.kind = "schema" /\ y.parts = <<t.name>>
               \/ /\ y.kind # "schema"
                  /\ \E l \in Kinds : \E z \in ToSet(t.lists[l]) : y \in ObjectIds(l, z, t, engine)
        BY FilteredId
    <1>2. CASE y \in Export!InSchema(s.name, engine)
        <2>1. y.kind = "schema" /\ y.parts = <<s.name>>
            BY <1>2, SchemaId
        <2>2. s.name = t.name
            BY <1>1, <2>1
        <2>3. s = t
            BY <2>2, UniqueNames
        <2> QED
            BY <1>1, <2>3
    <1>3. CASE y \notin Export!InSchema(s.name, engine)
        <2>1. y.kind # "schema"
              /\ \E k \in Kinds : \E x \in ToSet(s.lists[k]) : y \in ObjectIds(k, x, s, engine)
            BY <1>3, ExportedId
        <2>a. PICK k \in Kinds : \E x \in ToSet(s.lists[k]) : y \in ObjectIds(k, x, s, engine)
            BY <2>1
        <2>2. PICK x \in ToSet(s.lists[k]) : y \in ObjectIds(k, x, s, engine)
            BY <2>a
        <2>b. PICK l \in Kinds : \E z \in ToSet(t.lists[l]) : y \in ObjectIds(l, z, t, engine)
            BY <1>1, <2>1
        <2>3. PICK z \in ToSet(t.lists[l]) : y \in ObjectIds(l, z, t, engine)
            BY <2>b
        <2>4. s = t
            BY <2>2, <2>3, SharedId
        <2> QED
            BY <1>1, <2>4
    <1> QED
        BY <1>2, <1>3

-----------------------------------------------------------------------------
(***************************************************************************)
(* The script of a filtered copy follows that of the whole database.       *)
(***************************************************************************)
\* A loop that keeps everything keeps the list.
LEMMA AllKept ==
    ASSUME NEW list, IsList(list)
    PROVE  KeepOnly(list, ToSet(list)) = list
    <1> DEFINE n == Len(list)
               S == ToSet(list)
    <1>1. n \in Nat /\ DOMAIN list = 1..n /\ \A i \in 1..n : list[i] \in S
        BY ListFacts
    <1>2. PICK kept : Keeping(kept, list, S)
        BY KeepSteps
    <1>3. /\ kept[0] = <<>> /\ KeepOnly(list, S) = kept[n]
          /\ \A i \in 1..n : kept[i] = Append(kept[i - 1], list[i])
          /\ \A i \in 0..n : kept[i] \in Seq(S)
        BY <1>1, <1>2 DEF Keeping
    <1> HIDE DEF n, S
    <1> DEFINE good == {i \in 0..n : Len(kept[i]) = i /\ \A j \in 1..i : kept[i][j] = list[j]}
    <1>4. 0 \in good
        BY <1>1, <1>3
    <1>5. ASSUME NEW i \in 1..n, i - 1 \in good
          PROVE  i \in good
        <2> DEFINE v == kept[i - 1]
                   y == list[i]
                   w == Append(v, y)
        <2>1. i \in 0..n /\ i - 1 \in 0..n
            BY <1>1
        <2>2. Len(v) = i - 1 /\ \A j \in 1..(i - 1) : v[j] = list[j]
            BY <1>5
        <2>3. v \in Seq(S) /\ y \in S /\ kept[i] = w
            BY <1>1, <1>3, <2>1
        <2> HIDE DEF v, y
        <2>4. Len(w) = Len(v) + 1 /\ w[Len(v) + 1] = y /\ \A j \in 1..Len(v) : w[j] = v[j]
            BY <2>3
        <2> HIDE DEF w
        <2>5. Len(v) + 1 = i
            BY <2>1, <2>2
        <2>6. Len(w) = i /\ w[i] = y
            BY <2>4, <2>5
        <2>7. \A j \in 1..(i - 1) : w[j] = list[j]
            BY <2>2, <2>4
        <2>8. \A j \in 1..i : j = i \/ j \in 1..(i - 1)
            BY <2>1
        <2>9. \A j \in 1..i : w[j] = list[j]
            BY <2>6, <2>7, <2>8 DEF y
        <2> QED
            BY <2>1, <2>3, <2>6, <2>9
    <1>6. 0..n \subseteq good
        <2> HIDE DEF good
        <2> QED
            BY <1>1, <1>4, <1>5, EveryPosition
    <1>7. n \in 0..n
        BY <1>1
    <1>8. Len(kept[n]) = n /\ (\A j \in 1..n : kept[n][j] = list[j]) /\ kept[n] \in Seq(S)
        BY <1>3, <1>6, <1>7
    <1>9. kept[n] = list
        <2>1. kept[n] = [j \in 1..n |-> kept[n][j]]
            BY <1>8
        <2>2. list = [j \in 1..n |-> list[j]]
            BY <1>1 DEF IsList
        <2> QED
            BY <1>8, <2>1, <2>2
    <1> QED
        BY <1>3, <1>9 DEF S

\* Every list of a copy is the list of the schema without some of its members.
LEMMA CopyKeeps ==
    ASSUME NEW s, IsSchema(s), NEW o, NEW k \in Kinds
    PROVE  LET kept == FilterSchemaObjects(s, o).lists[k]
           IN  kept = KeepOnly(s.lists[k], ToSet(kept))
    <1> DEFINE c == FilterSchemaObjects(s, o)
               L == s.lists[k]
    <1>1. IsList(L)
        BY DEF IsSchema
    <1>2. \/ c.lists[k] = L
          \/ c.lists[k] = <<>>
          \/ \E passing : passing \subseteq ToSet(L) /\ c.lists[k] = KeepOnly(L, passing)
        <2>1. CASE k = "table"
            <3>1. c.lists[k] = FilterTables(L, o)
                BY <2>1, CopyLists
            <3> QED
                BY <3>1 DEF FilterTables
        <2>2. CASE k \in {"view", "mview"}
            <3>1. c.lists[k] = FilterViews(L, o)
                BY <2>2, CopyLists
            <3>2. FilteredViews(L, o) \subseteq ToSet(L)
                BY DEF FilteredViews
            <3> QED
                BY <3>1, <3>2 DEF FilterViews
        <2>3. CASE k = "function"
            <3>1. c.lists[k] = FilterFunctions(L, o)
                BY <2>3, CopyLists
            <3> QED
                BY <3>1 DEF FilterFunctions
        <2>4. CASE k = "rule"
            BY <2>4, CopyLists
        <2>5. CASE k \notin {"table", "view", "mview", "function", "rule"}
            BY <2>5, CopyLists
        <2> QED
            BY <2>1, <2>2, <2>3, <2>4, <2>5
    <1> HIDE DEF c, L
    <1>3. CASE c.lists[k] = L
        BY <1>1, <1>3, AllKept DEF c, L
    <1>4. CASE c.lists[k] = <<>>
        <2>1. IsList(KeepOnly(L, {})) /\ ToSet(KeepOnly(L, {})) = {}
            BY <1>1, KeptMembers
        <2>2. KeepOnly(L, {}) = <<>>
            BY <2>1, EmptyList
        <2> QED
            BY <1>4, <2>2, EmptyIsList DEF c, L
    <1>5. CASE \E passing : passing \subseteq ToSet(L) /\ c.lists[k] = KeepOnly(L, passing)
        BY <1>1, <1>5, KeptMembers DEF c, L
    <1> QED
        BY <1>2, <1>3, <1>4, <1>5

\* What is left of a list follows the list if what stays needs nothing but K and what goes
\* makes nothing of K.
LEMMA KeptFollow ==
    ASSUME NEW K, NEW list, IsList(list), NEW passing, NEW of, \A x \in ToSet(list) : IsList(of[x]),
           \A x \in ToSet(list) \cap passing : \A y \in ToSet(of[x]) : y.needs \subseteq K,
           \A x \in ToSet(list) \ passing : MadeBy(of[x]) \cap K = {}
    PROVE  Follows(FlattenSeq(Parts(KeepOnly(list, passing), of)), FlattenSeq(Parts(list, of)), K)
    <1> DEFINE n == Len(list)
               some == SomeParts(list, passing, of)
               all == Parts(list, of)
    <1>1. n \in Nat /\ DOMAIN list = 1..n /\ \A i \in 1..n : list[i] \in ToSet(list)
        BY ListFacts
    <1>2. IsList(some) /\ Len(some) = n /\ (\A x \in ToSet(some) : IsList(x))
          /\ FlattenSeq(Parts(KeepOnly(list, passing), of)) = FlattenSeq(some)
        BY KeptParts
    <1>3. \A i \in 1..n : some[i] = (IF list[i] \in passing THEN of[list[i]] ELSE <<>>) /\ all[i] = of[list[i]]
        BY <1>1 DEF SomeParts, Parts
    <1>4. IsList(all) /\ Len(all) = n
        <2>1. DOMAIN all = 1..n /\ all = [i \in 1..n |-> all[i]]
            BY <1>1 DEF Parts
        <2> HIDE DEF all, n
        <2> QED
            BY <1>1, <2>1, FunctionIsList
    <1> HIDE DEF some, all, n
    <1>5. \A x \in ToSet(all) : IsList(x)
        <2>1. \A i \in 1..n : IsList(all[i])
            BY <1>1, <1>3
        <2> QED
            BY <1>4, <2>1, ListFacts
    <1>6. ASSUME NEW i \in 1..n
          PROVE  Follows(some[i], all[i], K)
        <2>1. list[i] \in ToSet(list) /\ IsList(of[list[i]])
            BY <1>1
        <2>2. CASE list[i] \in passing
            <3>1. \A y \in ToSet(of[list[i]]) : y.needs \subseteq K
                BY <2>1, <2>2
            <3> QED
                BY <1>3, <2>1, <2>2, <3>1, ListFollows
        <2>3. CASE list[i] \notin passing
            <3>1. MadeBy(of[list[i]]) \cap K = {}
                BY <2>1, <2>3
            <3> QED
                BY <1>3, <2>1, <2>3, <3>1, NothingFollows
        <2> QED
            BY <2>2, <2>3
    <1>7. Follows(FlattenSeq(some), FlattenSeq(all), K)
        BY <1>2, <1>4, <1>5, <1>6, FlattenFollows
    <1> QED
        BY <1>2, <1>7 DEF all

\* The part of a schema's script for one kind of objects, object after object.
KindPart(k, s, d) ==
    IF k = "table" THEN Export!GenerateTables(s, d) ELSE Export!GenerateObjectDDLs(k, s, d)
ObjectParts(k, S, schema, d) ==
    [x \in S |-> IF k = "table" THEN Export!GenerateTableDDL(x, schema, d)
                 ELSE <<Export!CreateObject(k, x, schema, d)>>]

LEMMA KindIsItsParts ==
    ASSUME NEW k \in Kinds, NEW e, Exportable(e), NEW d, Export!WrittenIn(d, k),
           NEW S, ToSet(e.lists[k]) \subseteq S
    PROVE  KindPart(k, e, d) = FlattenSeq(Parts(e.lists[k], ObjectParts(k, S, e.name, d)))
    <1> DEFINE l == e.lists[k]
               n == Len(l)
               of == ObjectParts(k, S, e.name, d)
               parts == Parts(l, of)
    <1>1. n \in Nat /\ DOMAIN l = 1..n /\ \A i \in 1..n : l[i] \in S
        <2>1. IsList(l)
            BY DEF Exportable
        <2> HIDE DEF l
        <2>2. n \in Nat /\ DOMAIN l = 1..n /\ \A i \in 1..n : l[i] \in ToSet(l)
            BY <2>1, ListFacts
        <2> QED
            BY <2>2 DEF l
    <1>2. parts = [i \in 1..n |-> of[l[i]]]
        BY <1>1 DEF Parts
    <1>3. CASE k = "table"
        <2> DEFINE tables == [i \in 1..n |-> Export!GenerateTableDDL(l[i], e.name, d)]
        <2>1. KindPart(k, e, d) = FlattenSeq(tables)
            BY <1>1, <1>3, SameFlattenSeq DEF KindPart, Export!GenerateTables
        <2>2. \A i \in 1..n : of[l[i]] = Export!GenerateTableDDL(l[i], e.name, d)
            BY <1>1, <1>3 DEF ObjectParts
        <2> HIDE DEF of
        <2>3. parts = tables
            BY <1>2, <2>2
        <2> QED
            BY <2>1, <2>3 DEF of
    <1>4. CASE k # "table"
        <2> DEFINE out == [i \in 1..n |-> Export!CreateObject(k, l[i], e.name, d)]
        <2>1. KindPart(k, e, d) = out
            BY <1>1, <1>4 DEF KindPart, Export!GenerateObjectDDLs
        <2>2. \A i \in 1..n : of[l[i]] = <<Export!CreateObject(k, l[i], e.name, d)>>
            BY <1>1, <1>4 DEF ObjectParts
        <2> HIDE DEF of
        <2>3. parts = [i \in 1..n |-> <<out[i]>>]
            BY <1>2, <2>2
        <2>4. IsList(out) /\ Len(out) = n
            <3>1. DOMAIN out = 1..n /\ out = [i \in 1..n |-> out[i]]
                OBVIOUS
            <3> HIDE DEF out, n
            <3> QED
                BY <1>1, <3>1, FunctionIsList
        <2> HIDE DEF parts, out, n
        <2>5. FlattenSeq(parts) = out
            BY <2>3, <2>4, FlattenSingles
        <2> QED
            BY <2>1, <2>5 DEF parts, of
    <1> QED
        BY <1>3, <1>4

\* The statements of an object are a list, and make what it is known by.
LEMMA ObjectPart ==
    ASSUME NEW k \in Kinds, NEW s, Exportable(s), NEW d \in Export!Dialects, NEW x \in ToSet(s.lists[k])
    PROVE  LET part == ObjectParts(k, ToSet(s.lists[k]), s.name, d)[x]
           IN  IsList(part) /\ MadeBy(part) = ObjectIds(k, x, s, d)
    <1>1. CASE k = "table"
        <2>1. IsTable(x)
            BY <1>1 DEF Exportable
        <2>2. ObjectParts(k, ToSet(s.lists[k]), s.name, d)[x] = Export!GenerateTableDDL(x, s.name, d)
            BY <1>1 DEF ObjectParts
        <2>3. ObjectIds(k, x, s, d) =
                Export!TableIds(x, Export!QualifiedName(s.name, x.name, d))
                    \cup Export!AttachedIds(x, Export!QualifiedName(s.name, x.name, d), d)
            <3>1. Export!NameOf(k, x, s.name, d) = Export!QualifiedName(s.name, x.name, d)
                BY <1>1, NameOfIs DEF Signed
            <3> QED
                BY <1>1, <3>1 DEF ObjectIds
        <2> QED
            BY <2>1, <2>2, <2>3, TableStatements, MadeByTable
    <1>2. CASE k # "table"
        <2> DEFINE y == Export!CreateObject(k, x, s.name, d)
        <2>1. ObjectParts(k, ToSet(s.lists[k]), s.name, d)[x] = <<y>>
            BY <1>2 DEF ObjectParts
        <2>2. y.makes = ObjectIds(k, x, s, d)
            BY <1>2, ObjectStatement DEF ObjectIds
        <2> HIDE DEF y
        <2>3. IsList(<<y>>) /\ MadeBy(<<y>>) = y.makes
            BY SingleList DEF MadeBy
        <2> QED
            BY <2>1, <2>2, <2>3
    <1> QED
        BY <1>1, <1>2

LEMMA KindFollows ==
    ASSUME NEW k \in Kinds, NEW s, IsSchema(s), Exportable(s), NEW o,
           Exportable(FilterSchemaObjects(s, o)), NEW d \in Export!Dialects, NEW K,
           \A y \in ToSet(KindPart(k, FilterSchemaObjects(s, o), d)) : y.needs \subseteq K,
           \A x \in ToSet(s.lists[k]) :
                x \notin ToSet(FilterSchemaObjects(s, o).lists[k]) => ObjectIds(k, x, s, d) \cap K = {}
    PROVE  Follows(KindPart(k, FilterSchemaObjects(s, o), d), KindPart(k, s, d), K)
    <1> DEFINE c == FilterSchemaObjects(s, o)
               l == s.lists[k]
               kept == c.lists[k]
               S == ToSet(l)
               T == ToSet(kept)
               of == ObjectParts(k, S, s.name, d)
    <1>1. c.name = s.name /\ kept = KeepOnly(l, T) /\ T \subseteq S
        BY CopyHolds, CopyKeeps
    <1>2. IsList(l) /\ IsList(kept)
        BY DEF Exportable
    <1>3. \A x \in S : IsList(of[x]) /\ MadeBy(of[x]) = ObjectIds(k, x, s, d)
        BY ObjectPart
    <1>a. \A x \in S \ T : ObjectIds(k, x, s, d) \cap K = {}
        OBVIOUS
    <1>4. CASE Export!WrittenIn(d, k)
        <2>1. KindPart(k, s, d) = FlattenSeq(Parts(l, of))
            BY <1>4, KindIsItsParts
        <2>2. KindPart(k, c, d) = FlattenSeq(Parts(kept, of))
            BY <1>1, <1>4, KindIsItsParts
        <2> HIDE DEF c, l, kept, S, T, of
        <2>3. ASSUME NEW x \in S \cap T, NEW y \in ToSet(of[x])
              PROVE  y.needs \subseteq K
            <3> DEFINE parts == Parts(kept, of)
                       n == Len(kept)
            <3>1. PICK i \in 1..n : kept[i] = x
                BY <1>2, ListFacts DEF T
            <3>2. n \in Nat /\ DOMAIN kept = 1..n /\ \A j \in 1..n : kept[j] \in S
                BY <1>1, <1>2, ListFacts DEF T
            <3>3. parts = [j \in 1..n |-> of[kept[j]]]
                BY <3>2 DEF Parts
            <3>a. DOMAIN parts = 1..n /\ parts = [j \in 1..n |-> parts[j]] /\ parts[i] = of[x]
                  /\ \A j \in 1..n : parts[j] = of[kept[j]]
                BY <3>1, <3>3
            <3>b. \A j \in 1..n : IsList(of[kept[j]])
                <4>1. \A z \in S : IsList(of[z])
                    BY <1>3
                <4> HIDE DEF n
                <4> QED
                    BY <3>2, <4>1
            <3> HIDE DEF parts, n
            <3>4. parts[i] = of[x] /\ \A j \in 1..n : IsList(parts[j])
                BY <3>a, <3>b
            <3>5. IsList(parts) /\ Len(parts) = n
                BY <3>2, <3>a, FunctionIsList
            <3>6. /\ \A j \in 1..n : parts[j] \in ToSet(parts)
                  /\ \A z \in ToSet(parts) : \E j \in 1..n : z = parts[j]
                BY <3>5, ListFacts
            <3>7. \A z \in ToSet(parts) : IsList(z)
                BY <3>4, <3>6
            <3>8. of[x] \in ToSet(parts)
                BY <3>1, <3>4, <3>6
            <3>9. ToSet(FlattenSeq(parts)) = UNION {ToSet(z) : z \in ToSet(parts)}
                BY <3>5, <3>7, FlattenMembers
            <3>10. y \in ToSet(FlattenSeq(parts))
                BY <3>8, <3>9
            <3>11. y \in ToSet(KindPart(k, c, d))
                BY <2>2, <3>10 DEF parts
            <3> QED
                BY <3>11 DEF c
        <2>4. \A x \in S \ T : MadeBy(of[x]) \cap K = {}
            BY <1>3, <1>a
        <2>5. Follows(FlattenSeq(Parts(KeepOnly(l, T), of)), FlattenSeq(Parts(l, of)), K)
            BY <1>2, <1>3, <2>3, <2>4, KeptFollow DEF S
        <2> QED
            BY <1>1, <2>1, <2>2, <2>5 DEF c
    <1>5. CASE ~Export!WrittenIn(d, k)
        <2>1. k # "table"
            BY <1>5 DEF Export!WrittenIn
        <2>2. KindPart(k, s, d) = <<>> /\ KindPart(k, c, d) = <<>>
            BY <1>5, <2>1 DEF KindPart, Export!GenerateObjectDDLs
        <2>3. MadeBy(<<>>) \cap K = {}
            BY EmptyIsList DEF MadeBy
        <2> QED
            BY <2>2, <2>3, EmptyIsList, NothingFollows
    <1> QED
        BY <1>4, <1>5

LEMMA SchemaFollows ==
    ASSUME NEW s, IsSchema(s), Exportable(s), NEW o, Exportable(FilterSchemaObjects(s, o)),
           NEW d \in Export!Dialects, NEW K,
           \A y \in ToSet(Export!GenerateSchema(FilterSchemaObjects(s, o), d)) : y.needs \subseteq K,
           \A k \in Kinds : \A x \in ToSet(s.lists[k]) :
                x \notin ToSet(FilterSchemaObjects(s, o).lists[k]) => ObjectIds(k, x, s, d) \cap K = {}
    PROVE  Follows(Export!GenerateSchema(FilterSchemaObjects(s, o), d), Export!GenerateSchema(s, d), K)
    <1> DEFINE c == FilterSchemaObjects(s, o)
               a == SchemaParts(c, d)
               b == SchemaParts(s, d)
               Kind(i) == Export!KindOrder[i - 1]
    <1>1. IsList(a) /\ Len(a) = 11 /\ (\A i \in 1..11 : IsList(a[i])) /\ (\A x \in ToSet(a) : IsList(x))
          /\ Export!GenerateSchema(c, d) = FlattenSeq(a)
        BY SchemaPartsAreLists, SchemaIsItsParts
    <1>2. IsList(b) /\ Len(b) = 11 /\ (\A i \in 1..11 : IsList(b[i])) /\ (\A x \in ToSet(b) : IsList(x))
          /\ Export!GenerateSchema(s, d) = FlattenSeq(b)
        BY SchemaPartsAreLists, SchemaIsItsParts
    <1>3. c.name = s.name
        BY CopyHolds
    <1>4. a[1] = b[1]
        <2>1. \A e : SchemaParts(e, d)[1] = Export!CreateSchema(e, d)
            BY DEF SchemaParts
        <2> HIDE DEF c
        <2>2. Export!CreateSchema(c, d) = Export!CreateSchema(s, d)
            BY <1>3, Zenon DEF Export!CreateSchema
        <2> QED
            BY <2>1, <2>2
    <1>5. ASSUME NEW i \in 1..11, i # 1
          PROVE  Kind(i) \in Kinds /\ a[i] = KindPart(Kind(i), c, d) /\ b[i] = KindPart(Kind(i), s, d)
        <2>1. i - 1 \in 1..10 /\ (i - 1 = 4 <=> i = 5)
            BY <1>5
        <2>2. Kind(i) \in Kinds /\ (Kind(i) = "table" <=> i = 5)
            BY <2>1, KindOrderHas
        <2>3. \A e : SchemaParts(e, d)[i] =
                IF i = 5 THEN Export!GenerateTables(e, d) ELSE Export!GenerateObjectDDLs(Kind(i), e, d)
            BY <1>5 DEF SchemaParts
        <2> HIDE DEF Kind, c
        <2> QED
            BY <2>2, <2>3 DEF KindPart
    <1>6. \A i \in 1..11 : \A y \in ToSet(a[i]) : y.needs \subseteq K
        <2>1. ToSet(Export!GenerateSchema(c, d)) = UNION {ToSet(x) : x \in ToSet(a)}
            BY <1>1, FlattenMembers
        <2> HIDE DEF a
        <2>2. \A i \in 1..11 : a[i] \in ToSet(a)
            BY <1>1, ListFacts
        <2> QED
            BY <2>1, <2>2
    <1>7. ASSUME NEW i \in 1..11
          PROVE  Follows(a[i], b[i], K)
        <2>1. CASE i = 1
            <3>1. IsList(a[1]) /\ \A y \in ToSet(a[1]) : y.needs \subseteq K
                BY <1>1, <1>6, <2>1
            <3> HIDE DEF a, b
            <3>2. Follows(a[1], a[1], K)
                BY <3>1, ListFollows
            <3> QED
                BY <1>4, <2>1, <3>2
        <2>2. CASE i # 1
            <3>1. Kind(i) \in Kinds /\ a[i] = KindPart(Kind(i), c, d) /\ b[i] = KindPart(Kind(i), s, d)
                BY <1>5, <2>2
            <3>2. \A y \in ToSet(KindPart(Kind(i), c, d)) : y.needs \subseteq K
                BY <1>6, <3>1
            <3> HIDE DEF Kind, a, b
            <3>3. Follows(KindPart(Kind(i), c, d), KindPart(Kind(i), s, d), K)
                BY <3>1, <3>2, KindFollows
            <3> QED
                BY <3>1, <3>3
        <2> QED
            BY <2>1, <2>2
    <1> HIDE DEF a, b, c
    <1>8. Follows(FlattenSeq(a), FlattenSeq(b), K)
        BY <1>1, <1>2, <1>7, FlattenFollows
    <1> QED
        BY <1>1, <1>2, <1>8 DEF c

\* The script of a filtered copy: schema after schema of the database, the script of its
\* copy or nothing.
CopyScript(s, d, o, engine) ==
    IF ShouldIncludeSchema(s.name, o) /\ FilterSchemaObjects(s, o) \in ToSet(FilterSchema(d, o))
    THEN Export!GenerateSchema(FilterSchemaObjects(s, o), engine)
    ELSE <<>>
CopyScripts(d, o, engine) == [i \in DOMAIN d |-> CopyScript(d[i], d, o, engine)]

LEMMA SchemaScriptIsList ==
    ASSUME NEW e, Exportable(e), NEW engine
    PROVE  IsList(Export!GenerateSchema(e, engine))
    BY SchemaIsItsParts, SchemaPartsAreLists, FlattenMembers

LEMMA ScriptIsCopies ==
    ASSUME NEW d \in Databases, NEW o, o # Nil, NEW engine
    PROVE  LET scripts == CopyScripts(d, o, engine)
           IN  /\ IsList(scripts) /\ Len(scripts) = Len(d)
               /\ \A x \in ToSet(scripts) : IsList(x)
               /\ Export!GenerateDDL(FilterSchema(d, o), engine) = FlattenSeq(scripts)
    <1> DEFINE passing == {s \in ToSet(d) : ShouldIncludeSchema(s.name, o)}
               included == KeepOnly(d, passing)
               copies == [i \in DOMAIN included |-> FilterSchemaObjects(included[i], o)]
               left == {c \in ToSet(copies) : o.removeEmpty => ~IsSchemaEmpty(c)}
               f == FilterSchema(d, o)
               scripts == CopyScripts(d, o, engine)
               Script(e) == Export!GenerateSchema(e, engine)
    <1>1. f = KeepOnly(copies, left) /\ IsList(d) /\ ExportableAll(f)
          /\ \A s \in ToSet(d) : IsSchema(s) /\ Exportable(FilterSchemaObjects(s, o))
        <2>1. f = KeepOnly(copies, left)
            BY DEF FilterSchema
        <2> QED
            BY <2>1, DatabaseIsList, CopyIsExportable, CopiesExportable
    <1>2. IsList(included) /\ ToSet(included) = passing
        <2>1. passing \subseteq ToSet(d)
            OBVIOUS
        <2> HIDE DEF passing
        <2> QED
            BY <1>1, <2>1, KeptMembers
    <1> DEFINE n == Len(included)
    <1>3. n \in Nat /\ DOMAIN included = 1..n /\ \A i \in 1..n : included[i] \in passing
        <2> HIDE DEF included, passing
        <2> QED
            BY <1>2, ListFacts
    <1>4. DOMAIN copies = 1..n /\ copies = [i \in 1..n |-> copies[i]]
          /\ \A i \in 1..n : copies[i] = FilterSchemaObjects(included[i], o)
        BY <1>3
    <1>5. ToSet(copies) = {FilterSchemaObjects(s, o) : s \in passing}
        <2>1. \A s \in passing : \E i \in 1..n : s = included[i]
            <3> HIDE DEF included, passing
            <3> QED
                BY <1>2, ListFacts
        <2> HIDE DEF passing, included, n, copies
        <2>2. ToSet(copies) = {copies[i] : i \in 1..n}
            BY <1>4 DEF ToSet
        <2> QED
            BY <1>3, <1>4, <2>1, <2>2
    <1>6. passing \subseteq ToSet(d)
        OBVIOUS
    <1>7. left \subseteq ToSet(copies)
        OBVIOUS
    <1> HIDE DEF passing, included, copies, left
    <1>8. IsList(copies) /\ Len(copies) = n
        <2> HIDE DEF n
        <2> QED
            BY <1>3, <1>4, FunctionIsList
    <1>9. ToSet(f) = left
        BY <1>1, <1>7, <1>8, KeptMembers
    <1> DEFINE of == [c \in ToSet(copies) |-> Script(c)]
               rest == [s \in passing |->
                            IF FilterSchemaObjects(s, o) \in left
                            THEN Script(FilterSchemaObjects(s, o)) ELSE <<>>]
               all == [s \in ToSet(d) |-> IF s \in passing THEN rest[s] ELSE <<>>]
    <1> HIDE DEF f, n
    <1>10. \A c \in ToSet(copies) : IsList(Script(c)) /\ of[c] = Script(c)
        BY <1>1, <1>5, <1>6, SchemaScriptIsList
    <1>11. Export!GenerateDDL(f, engine) = FlattenSeq(Parts(f, of))
        <2>1. IsList(f) /\ ToSet(f) \subseteq ToSet(copies)
            BY <1>1, <1>7, <1>9 DEF ExportableAll
        <2>2. \A i \in DOMAIN f : f[i] \in ToSet(copies)
            BY <2>1 DEF ToSet
        <2> HIDE DEF of
        <2>3. Parts(f, of) = [i \in DOMAIN f |-> Script(f[i])]
            BY <1>10, <2>2 DEF Parts
        <2> QED
            BY <2>3, SameFlattenSeq DEF Export!GenerateDDL
    <1>12. FlattenSeq(Parts(f, of)) = FlattenSeq(SomeParts(copies, left, of))
        <2>1. \A c \in ToSet(copies) : IsList(of[c])
            BY <1>10
        <2> HIDE DEF of
        <2> QED
            BY <1>1, <1>8, <2>1, KeptParts
    <1>13. SomeParts(copies, left, of) = Parts(included, rest)
        <2>1. \A i \in 1..n : copies[i] \in ToSet(copies)
            BY <1>8, ListFacts
        <2>2. SomeParts(copies, left, of) = [i \in 1..n |-> IF copies[i] \in left THEN of[copies[i]] ELSE <<>>]
            BY <1>4 DEF SomeParts
        <2>3. Parts(included, rest) = [i \in 1..n |-> rest[included[i]]]
            BY <1>3 DEF Parts
        <2>4. ASSUME NEW i \in 1..n
              PROVE  rest[included[i]] = IF copies[i] \in left THEN of[copies[i]] ELSE <<>>
            <3>1. rest[included[i]] = IF copies[i] \in left THEN Script(copies[i]) ELSE <<>>
                BY <1>3, <1>4
            <3> HIDE DEF rest, of, Script
            <3> QED
                BY <1>10, <2>1, <3>1
        <2> HIDE DEF rest, of
        <2> QED
            BY <2>2, <2>3, <2>4
    <1>14. FlattenSeq(Parts(included, rest)) = FlattenSeq(SomeParts(d, passing, all))
        <2>1. \A s \in ToSet(d) : IsList(all[s])
            <3>1. \A s \in passing : IsList(Script(FilterSchemaObjects(s, o)))
                BY <1>5, <1>10
            <3> HIDE DEF Script
            <3> QED
                BY <3>1, EmptyIsList
        <2>2. Parts(included, rest) = Parts(included, all)
            <3>1. \A i \in 1..n : all[included[i]] = rest[included[i]]
                BY <1>3, <1>6
            <3> HIDE DEF all, rest
            <3> QED
                BY <1>3, <3>1 DEF Parts
        <2> HIDE DEF all, rest
        <2> QED
            BY <1>1, <2>1, <2>2, KeptParts DEF included
    <1>15. SomeParts(d, passing, all) = scripts
        <2>1. \A i \in DOMAIN d : d[i] \in ToSet(d)
            BY DEF ToSet
        <2>2. ASSUME NEW i \in DOMAIN d
              PROVE  (IF d[i] \in passing THEN all[d[i]] ELSE <<>>) = CopyScript(d[i], d, o, engine)
            <3>1. d[i] \in ToSet(d) /\ (d[i] \in passing <=> ShouldIncludeSchema(d[i].name, o))
                BY <2>1 DEF passing
            <3>2. d[i] \in passing => all[d[i]] = rest[d[i]]
                BY <3>1
            <3>3. d[i] \in passing =>
                    rest[d[i]] = IF FilterSchemaObjects(d[i], o) \in left
                                 THEN Script(FilterSchemaObjects(d[i], o)) ELSE <<>>
                OBVIOUS
            <3> HIDE DEF all, rest
            <3> QED
                BY <1>9, <3>1, <3>2, <3>3 DEF CopyScript, f
        <2> HIDE DEF all
        <2> QED
            BY <2>2 DEF SomeParts, CopyScripts
    <1>16. IsList(SomeParts(d, passing, all)) /\ Len(SomeParts(d, passing, all)) = Len(d)
           /\ \A x \in ToSet(SomeParts(d, passing, all)) : IsList(x)
        <2>1. \A s \in ToSet(d) : IsList(all[s])
            <3>1. \A s \in passing : IsList(Script(FilterSchemaObjects(s, o)))
                BY <1>5, <1>10
            <3> HIDE DEF Script
            <3> QED
                BY <3>1, EmptyIsList
        <2> HIDE DEF all
        <2> QED
            BY <1>1, <2>1, KeptParts
    <1> HIDE DEF scripts, all, rest, of
    <1> QED
        BY <1>11, <1>12, <1>13, <1>14, <1>15, <1>16 DEF scripts, f

LEMMA DatabaseFollows ==
    ASSUME NEW d \in Databases, NEW o, o # Nil,
           \A y \in ToSet(Export!GenerateDDL(FilterSchema(d, o), EngineOf(d))) :
                y.needs \subseteq IdsOf(FilterSchema(d, o), EngineOf(d))
    PROVE  Follows(Export!GenerateDDL(FilterSchema(d, o), EngineOf(d)),
                   Export!GenerateDDL(d, EngineOf(d)), IdsOf(FilterSchema(d, o), EngineOf(d)))
    <1> DEFINE f == FilterSchema(d, o)
               engine == EngineOf(d)
               K == IdsOf(f, engine)
               a == CopyScripts(d, o, engine)
               b == SchemaScripts(d, engine)
               n == Len(d)
    <1>1. engine \in Export!Dialects
        BY DEF EngineOf, Export!Dialects
    <1>2. IsList(a) /\ Len(a) = n /\ (\A x \in ToSet(a) : IsList(x)) /\ Export!GenerateDDL(f, engine) = FlattenSeq(a)
        BY ScriptIsCopies
    <1>3. ExportableAll(d) /\ IsList(d) /\ n \in Nat /\ DOMAIN d = 1..n
          /\ \A i \in 1..n : d[i] \in ToSet(d) /\ IsSchema(d[i]) /\ Exportable(d[i])
        BY DatabaseIsExportable, DatabaseIsList, ListFacts DEF ExportableAll
    <1>4. IsList(b) /\ Len(b) = n /\ (\A x \in ToSet(b) : IsList(x)) /\ Export!GenerateDDL(d, engine) = FlattenSeq(b)
        BY <1>3, SchemaScriptsAreLists
    <1>5. \A i \in 1..n : a[i] = CopyScript(d[i], d, o, engine) /\ b[i] = Export!GenerateSchema(d[i], engine)
        BY <1>3 DEF CopyScripts, SchemaScripts
    <1> HIDE DEF a, b
    <1>6. \A i \in 1..n : \A y \in ToSet(a[i]) : y.needs \subseteq K
        <2>1. ToSet(FlattenSeq(a)) = UNION {ToSet(x) : x \in ToSet(a)}
            BY <1>2, FlattenMembers
        <2>2. \A i \in 1..n : a[i] \in ToSet(a)
            BY <1>2, ListFacts
        <2>3. \A y \in ToSet(FlattenSeq(a)) : y.needs \subseteq K
            BY <1>2
        <2> HIDE DEF K, n
        <2> QED
            BY <2>1, <2>2, <2>3
    <1>7. ASSUME NEW i \in 1..n
          PROVE  Follows(a[i], b[i], K)
        <2> DEFINE s == d[i]
                   c == FilterSchemaObjects(s, o)
        <2>1. s \in ToSet(d) /\ IsSchema(s) /\ Exportable(s)
            BY <1>3
        <2>2. Exportable(c)
            BY <2>1, CopiesExportable
        <2>3. CASE ShouldIncludeSchema(s.name, o) /\ c \in ToSet(f)
            <3>1. a[i] = Export!GenerateSchema(c, engine)
                BY <1>5, <2>3 DEF CopyScript
            <3>2. \A y \in ToSet(Export!GenerateSchema(c, engine)) : y.needs \subseteq K
                BY <1>6, <3>1
            <3>3. ASSUME NEW k \in Kinds, NEW x \in ToSet(s.lists[k]), x \notin ToSet(c.lists[k])
                  PROVE  ObjectIds(k, x, s, engine) \cap K = {}
                <4>1. ~KeptInSchema(o, k, x)
                    BY <2>1, <3>3, CopyHolds
                <4> QED
                    BY <2>1, <4>1, LeftOutObject
            <3> HIDE DEF s, f, engine, K
            <3>4. Follows(Export!GenerateSchema(c, engine), Export!GenerateSchema(s, engine), K)
                BY <1>1, <2>1, <2>2, <3>2, <3>3, SchemaFollows
            <3> QED
                BY <1>5, <3>1, <3>4 DEF s
        <2>4. CASE ~(ShouldIncludeSchema(s.name, o) /\ c \in ToSet(f))
            <3>1. a[i] = <<>>
                BY <1>5, <2>4 DEF CopyScript
            <3>2. Export!Exported(s, engine) \cap K = {}
                BY <2>1, <2>4, LeftOutSchema
            <3>3. MadeBy(b[i]) = Export!Exported(s, engine)
                BY <1>1, <1>5, <2>1, MadeBySchema
            <3>4. IsList(b[i])
                BY <1>4, ListFacts
            <3> QED
                BY <3>1, <3>2, <3>3, <3>4, NothingFollows
        <2> QED
            BY <2>3, <2>4
    <1> HIDE DEF f, engine, K, n
    <1>8. Follows(FlattenSeq(a), FlattenSeq(b), K)
        BY <1>2, <1>4, <1>7, FlattenFollows
    <1> QED
        BY <1>2, <1>4, <1>8 DEF f, engine, K

-----------------------------------------------------------------------------
(***************************************************************************)
(* No two statements of a script make the same.                            *)
(***************************************************************************)
Separate(a, b) == a \cap b = {}
Apart(list) ==
    \A i, j \in 1..Len(list) : i # j => Separate(list[i].makes, list[j].makes)

LEMMA SmallApart ==
    /\ Apart(<<>>)
    /\ \A x : Apart(<<x>>)
    <1>1. Apart(<<>>)
        BY EmptyIsList DEF Apart
    <1>2. ASSUME NEW x
          PROVE  Apart(<<x>>)
        <2> DEFINE one == <<x>>
        <2>1. Len(one) = 1
            BY SingleList
        <2> HIDE DEF one
        <2>2. Apart(one)
            BY <2>1 DEF Apart
        <2> QED
            BY <2>2 DEF one
    <1> QED
        BY <1>1, <1>2

LEMMA JoinedApart ==
    ASSUME NEW a, IsList(a), Apart(a), NEW b, IsList(b), Apart(b), Separate(MadeBy(a), MadeBy(b))
    PROVE  IsList(a \o b) /\ Apart(a \o b) /\ MadeBy(a \o b) = MadeBy(a) \cup MadeBy(b)
    <1> DEFINE c == a \o b
               n == Len(a)
               m == Len(b)
    <1>1. n \in Nat /\ m \in Nat /\ IsList(c) /\ Len(c) = n + m /\ ToSet(c) = ToSet(a) \cup ToSet(b)
        BY Joined, ListFacts
    <1>2. \A i \in 1..n : c[i] = a[i] /\ a[i] \in ToSet(a)
        BY Joined, ListFacts
    <1>3. \A i \in 1..m : c[n + i] = b[i] /\ b[i] \in ToSet(b)
        BY Joined, ListFacts
    <1>4. MadeBy(c) = MadeBy(a) \cup MadeBy(b)
        <2> HIDE DEF c
        <2> QED
            BY <1>1 DEF MadeBy
    <1>5. \A x \in ToSet(a), y \in ToSet(b) : Separate(x.makes, y.makes)
        BY DEF Separate, MadeBy
    <1>6. \A i, j \in 1..n : i # j => Separate(a[i].makes, a[j].makes)
        BY DEF Apart
    <1>7. \A i, j \in 1..m : i # j => Separate(b[i].makes, b[j].makes)
        BY DEF Apart
    <1>8. \A x, y : Separate(x, y) => Separate(y, x)
        BY DEF Separate
    <1> HIDE DEF c, n, m
    <1>9. ASSUME NEW i \in 1..(n + m), NEW j \in 1..(n + m), i # j
          PROVE  Separate(c[i].makes, c[j].makes)
        <2>1. \A k \in 1..(n + m) : k \in 1..n \/ (k - n \in 1..m /\ n + (k - n) = k)
            BY <1>1
        <2>2. \A k \in 1..(n + m) : k \notin 1..n => c[k] = b[k - n] /\ k - n \in 1..m
            BY <1>3, <2>1
        <2>3. CASE i \in 1..n /\ j \in 1..n
            BY <1>2, <1>6, <1>9, <2>3
        <2>4. CASE i \in 1..n /\ j \notin 1..n
            BY <1>2, <1>3, <1>5, <2>2, <2>4
        <2>5. CASE i \notin 1..n /\ j \in 1..n
            BY <1>2, <1>3, <1>5, <1>8, <2>2, <2>5
        <2>6. CASE i \notin 1..n /\ j \notin 1..n
            <3>1. i - n # j - n
                BY <1>1, <1>9
            <3> QED
                BY <1>7, <2>2, <2>6, <3>1
        <2> QED
            BY <2>3, <2>4, <2>5, <2>6
    <1>10. Apart(c)
        BY <1>1, <1>9 DEF Apart
    <1> QED
        BY <1>1, <1>4, <1>10 DEF c

LEMMA FlattenApart ==
    ASSUME NEW seqs, IsList(seqs), \A x \in ToSet(seqs) : IsList(x),
           \A i \in 1..Len(seqs) : Apart(seqs[i]),
           \A i, j \in 1..Len(seqs) : i # j => Separate(MadeBy(seqs[i]), MadeBy(seqs[j]))
    PROVE  Apart(FlattenSeq(seqs))
    <1> DEFINE n == Len(seqs)
    <1>1. PICK f : Flattens(f, seqs)
        BY FlattenSteps
    <1>2. n \in Nat /\ \A i \in 1..n : IsList(seqs[i])
        BY ListFacts
    <1>3. /\ f[0] = <<>> /\ FlattenSeq(seqs) = f[n]
          /\ \A i \in 1..n : f[i] = f[i - 1] \o seqs[i]
        BY <1>1 DEF Flattens
    <1>4. \A i \in 1..n : Apart(seqs[i])
        OBVIOUS
    <1>5. \A i, j \in 1..n : i # j => Separate(MadeBy(seqs[i]), MadeBy(seqs[j]))
        OBVIOUS
    <1> HIDE DEF n
    <1> DEFINE Good(i) == /\ IsList(f[i]) /\ Apart(f[i])
                          /\ \A j \in 1..n : j > i => Separate(MadeBy(f[i]), MadeBy(seqs[j]))
               good == {i \in 0..n : Good(i)}
    <1>6. 0 \in good
        <2>1. MadeBy(<<>>) = {}
            BY EmptyIsList DEF MadeBy
        <2> QED
            BY <1>2, <1>3, <2>1, EmptyIsList, SmallApart DEF Separate
    <1>7. ASSUME NEW i \in 1..n, i - 1 \in good
          PROVE  i \in good
        <2>1. i \in 0..n /\ i > i - 1 /\ Good(i - 1)
            BY <1>2, <1>7
        <2>2. Separate(MadeBy(f[i - 1]), MadeBy(seqs[i]))
            BY <2>1
        <2> DEFINE a == f[i - 1]
                   b == seqs[i]
        <2>3. IsList(a) /\ Apart(a) /\ IsList(b) /\ Apart(b) /\ f[i] = a \o b
            BY <1>2, <1>3, <1>4, <2>1
        <2>4. IsList(a \o b) /\ Apart(a \o b) /\ MadeBy(a \o b) = MadeBy(a) \cup MadeBy(b)
            <3> HIDE DEF a, b
            <3> QED
                BY <2>2, <2>3, JoinedApart DEF a, b
        <2>5. ASSUME NEW j \in 1..n, j > i
              PROVE  Separate(MadeBy(f[i]), MadeBy(seqs[j]))
            <3>1. j > i - 1 /\ j # i
                BY <1>2, <2>5
            <3>2. Separate(MadeBy(a), MadeBy(seqs[j])) /\ Separate(MadeBy(b), MadeBy(seqs[j]))
                BY <1>5, <2>1, <3>1
            <3> HIDE DEF a, b
            <3> QED
                BY <2>3, <2>4, <3>2 DEF Separate
        <2> QED
            BY <2>1, <2>3, <2>4, <2>5
    <1>8. 0..n \subseteq good
        <2> HIDE DEF good
        <2> QED
            BY <1>2, <1>6, <1>7, EveryPosition
    <1>9. n \in 0..n
        BY <1>2
    <1> QED
        BY <1>3, <1>8, <1>9

\* The members a loop keeps, each with a list of statements of its own.
LEMMA KeptApart ==
    ASSUME NEW list, IsList(list), NEW passing, NEW of,
           \A x \in ToSet(list) : IsList(of[x]) /\ Apart(of[x]),
           \A i, j \in 1..Len(list) : i # j => Separate(MadeBy(of[list[i]]), MadeBy(of[list[j]]))
    PROVE  Apart(FlattenSeq(Parts(KeepOnly(list, passing), of)))
    <1> DEFINE n == Len(list)
               some == SomeParts(list, passing, of)
    <1>1. n \in Nat /\ DOMAIN list = 1..n /\ \A i \in 1..n : list[i] \in ToSet(list)
        BY ListFacts
    <1>2. IsList(some) /\ Len(some) = n /\ (\A x \in ToSet(some) : IsList(x))
          /\ FlattenSeq(Parts(KeepOnly(list, passing), of)) = FlattenSeq(some)
        BY KeptParts
    <1>3. \A i \in 1..n : some[i] = of[list[i]] \/ some[i] = <<>>
        BY <1>1 DEF SomeParts
    <1>4. \A i, j \in 1..n : i # j => Separate(MadeBy(of[list[i]]), MadeBy(of[list[j]]))
        OBVIOUS
    <1>5. \A i \in 1..n : Apart(of[list[i]])
        BY <1>1
    <1>6. MadeBy(<<>>) = {}
        BY EmptyIsList DEF MadeBy
    <1> HIDE DEF some, n
    <1>7. \A i \in 1..n : Apart(some[i])
        BY <1>3, <1>5, SmallApart
    <1>8. \A i \in 1..n : MadeBy(some[i]) \subseteq MadeBy(of[list[i]])
        BY <1>3, <1>6
    <1>9. ASSUME NEW i \in 1..n, NEW j \in 1..n, i # j
          PROVE  Separate(MadeBy(some[i]), MadeBy(some[j]))
        <2>1. Separate(MadeBy(of[list[i]]), MadeBy(of[list[j]]))
            BY <1>4, <1>9
        <2>2. MadeBy(some[i]) \subseteq MadeBy(of[list[i]]) /\ MadeBy(some[j]) \subseteq MadeBy(of[list[j]])
            BY <1>8
        <2> QED
            BY <2>1, <2>2 DEF Separate
    <1>10. Apart(FlattenSeq(some))
        BY <1>2, <1>7, <1>9, FlattenApart
    <1> QED
        BY <1>2, <1>10

\* The parts of a table have different names.
DistinctParts(t) ==
    /\ \A a, b \in DOMAIN t.indexes : t.indexes[a].name = t.indexes[b].name => a = b
    /\ \A a, b \in DOMAIN t.triggers : t.triggers[a].name = t.triggers[b].name => a = b

LEMMA PartKind == \A kind, name, z : Export!PartId(kind, name, z).kind = kind
    BY DEF Export!PartId, Export!Id

LEMMA PartsDiffer ==
    ASSUME NEW schema, NEW name, NEW d, NEW kind, NEW y, NEW z, y # z
    PROVE  LET place == Export!QualifiedName(schema, name, d)
           IN  Separate({Export!PartId(kind, place, y)}, {Export!PartId(kind, place, z)})
    <1> DEFINE place == Export!QualifiedName(schema, name, d)
    <1>1. PICK a, b : place = <<a, b>>
        BY DEF Export!QualifiedName
    <1> HIDE DEF place
    <1>2. Export!PartId(kind, place, y).parts[3] = y /\ Export!PartId(kind, place, z).parts[3] = z
        BY <1>1, PartIdIs
    <1>3. Export!PartId(kind, place, y) # Export!PartId(kind, place, z)
        BY <1>2
    <1> QED
        BY <1>3 DEF Separate, place

LEMMA SingleMade ==
    ASSUME NEW x
    PROVE  MadeBy(<<x>>) = x.makes
    <1> DEFINE one == <<x>>
    <1>1. ToSet(one) = {x}
        BY SingleList
    <1> HIDE DEF one
    <1>2. MadeBy(one) = x.makes
        BY <1>1 DEF MadeBy
    <1> QED
        BY <1>2 DEF one

LEMMA IndexesApart ==
    ASSUME NEW t, IsTable(t), DistinctParts(t), NEW schema, NEW d
    PROVE  Apart(Export!TableIndexes(t, schema, d))
    <1> DEFINE name == Export!QualifiedName(schema, t.name, d)
               MadeOf(x) == Export!Create({Export!PartId("index", name, x.name)},
                                          {Export!Id("table", name)} \cup x.needs)
               passing == {x \in ToSet(t.indexes) : ~x.primary}
               kept == KeepOnly(t.indexes, passing)
               out == [i \in DOMAIN kept |-> MadeOf(kept[i])]
               of == [x \in ToSet(t.indexes) |-> <<MadeOf(x)>>]
               n == Len(t.indexes)
    <1>1. Export!TableIndexes(t, schema, d) = out
        <2>1. Export!KeepOnly(t.indexes, {x \in Export!ToSet(t.indexes) : ~x.primary}) = kept
            BY SameKeepOnly, SameToSet
        <2> HIDE DEF kept
        <2> QED
            BY <2>1 DEF Export!TableIndexes
    <1>2. IsList(t.indexes) /\ passing \subseteq ToSet(t.indexes)
        BY DEF IsTable
    <1> HIDE DEF passing, MadeOf
    <1>3. IsList(kept) /\ ToSet(kept) = passing
        BY <1>2, KeptMembers
    <1> HIDE DEF kept
    <1>4. /\ Len(kept) \in Nat /\ DOMAIN kept = 1..Len(kept)
          /\ \A i \in 1..Len(kept) : kept[i] \in ToSet(t.indexes)
        BY <1>2, <1>3, ListFacts
    <1>5. FlattenSeq(Parts(kept, of)) = out
        <2>1. IsList(out) /\ Len(out) = Len(kept)
            <3>1. DOMAIN out = 1..Len(kept) /\ out = [i \in 1..Len(kept) |-> out[i]]
                BY <1>4
            <3> HIDE DEF out
            <3> QED
                BY <1>4, <3>1, FunctionIsList
        <2>2. Parts(kept, of) = [i \in 1..Len(kept) |-> <<out[i]>>]
            BY <1>4 DEF Parts
        <2> HIDE DEF out, of
        <2> QED
            BY <2>1, <2>2, FlattenSingles
    <1>6. \A x \in ToSet(t.indexes) : of[x] = <<MadeOf(x)>>
        OBVIOUS
    <1> HIDE DEF of
    <1>7. \A x \in ToSet(t.indexes) : IsList(of[x]) /\ Apart(of[x]) /\ MadeBy(of[x]) = MadeOf(x).makes
        BY <1>6, SingleList, SmallApart, SingleMade
    <1>8. \A x : MadeOf(x).makes = {Export!PartId("index", name, x.name)}
        BY DEF MadeOf, Export!Create
    <1>9. /\ n \in Nat /\ DOMAIN t.indexes = 1..n
          /\ \A i \in 1..n : t.indexes[i] \in ToSet(t.indexes)
        BY <1>2, ListFacts
    <1>10. ASSUME NEW i \in 1..n, NEW j \in 1..n, i # j
           PROVE  Separate(MadeBy(of[t.indexes[i]]), MadeBy(of[t.indexes[j]]))
        <2>1. t.indexes[i].name # t.indexes[j].name
            BY <1>9, <1>10 DEF DistinctParts
        <2>2. Separate({Export!PartId("index", name, t.indexes[i].name)},
                       {Export!PartId("index", name, t.indexes[j].name)})
            BY <2>1, PartsDiffer
        <2> QED
            BY <1>7, <1>8, <1>9, <2>2
    <1>11. Apart(FlattenSeq(Parts(KeepOnly(t.indexes, passing), of)))
        BY <1>2, <1>7, <1>10, KeptApart
    <1> QED
        BY <1>1, <1>5, <1>11 DEF kept

LEMMA TriggersApart ==
    ASSUME NEW t, IsTable(t), DistinctParts(t), NEW schema, NEW d
    PROVE  Apart(Export!TableTriggers(t, schema, d))
    <1> DEFINE name == Export!QualifiedName(schema, t.name, d)
               l == t.triggers
               out == Export!TableTriggers(t, schema, d)
               n == Len(l)
    <1>1. out = [i \in DOMAIN l |-> TriggerStatement(l[i], name)]
        BY DEF Export!TableTriggers, TriggerStatement
    <1>2. n \in Nat /\ DOMAIN l = 1..n
        BY ListFacts DEF IsTable
    <1>3. IsList(out)
        BY TriggerStatements
    <1>4. \A i, j \in 1..n : i # j => l[i].name # l[j].name
        BY <1>2 DEF DistinctParts
    <1> HIDE DEF out, l, n
    <1>5. DOMAIN out = 1..n /\ \A i \in 1..n : out[i] = TriggerStatement(l[i], name)
        BY <1>1, <1>2
    <1>6. Len(out) = n
        <2>1. DOMAIN out = 1..Len(out) /\ Len(out) \in Nat
            BY <1>3, ListFacts
        <2>2. out = [i \in 1..n |-> out[i]]
            BY <1>1, <1>5
        <2> QED
            BY <1>2, <1>5, <2>2, FunctionIsList
    <1>7. \A x : TriggerStatement(x, name).makes \subseteq {Export!PartId("trigger", name, x.name)}
        BY DEF TriggerStatement, Export!Create
    <1>8. ASSUME NEW i \in 1..n, NEW j \in 1..n, i # j
          PROVE  Separate(out[i].makes, out[j].makes)
        <2>1. l[i].name # l[j].name
            BY <1>4, <1>8
        <2>2. Separate({Export!PartId("trigger", name, l[i].name)}, {Export!PartId("trigger", name, l[j].name)})
            BY <2>1, PartsDiffer
        <2>3. /\ out[i].makes \subseteq {Export!PartId("trigger", name, l[i].name)}
              /\ out[j].makes \subseteq {Export!PartId("trigger", name, l[j].name)}
            BY <1>5, <1>7
        <2> HIDE DEF name
        <2> QED
            BY <2>2, <2>3 DEF Separate
    <1>9. Apart(out)
        BY <1>6, <1>8 DEF Apart
    <1> QED
        BY <1>9 DEF out

LEMMA CreateKinds ==
    ASSUME NEW t, NEW schema, NEW d, NEW y \in Export!CreateTable(t, schema, d).makes
    PROVE  y.kind \in {"table", "column", "check", "fk"} \/ (d = "mysql" /\ y.kind = "comment")
    <1> DEFINE name == Export!QualifiedName(schema, t.name, d)
               Part(kind) == \E z : y = Export!PartId(kind, name, z)
    <1>1. \/ y = Export!Id("table", name)
          \/ d = "mysql" /\ Part("comment")
          \/ Part("column") \/ Part("check") \/ Part("fk")
        <2> HIDE DEF name
        <2> QED
            BY DEF Export!CreateTable, name
    <1>2. \A kind : Part(kind) => y.kind = kind
        BY PartKind
    <1>3. Export!Id("table", name).kind = "table"
        BY DEF Export!Id
    <1> HIDE DEF Part, name
    <1> QED
        BY <1>1, <1>2, <1>3

\* The statements of a table.
LEMMA TableApart ==
    ASSUME NEW t, IsTable(t), DistinctParts(t), NEW schema, NEW d
    PROVE  Apart(Export!GenerateTableDDL(t, schema, d))
    <1> DEFINE name == Export!QualifiedName(schema, t.name, d)
               create == Export!CreateTable(t, schema, d)
               a == <<create>>
               b == Export!TableComment(t, schema, d)
               c == Export!TableIndexes(t, schema, d)
               e == Export!TableTriggers(t, schema, d)
    <1>1. IsList(a) /\ Apart(a) /\ \A y \in MadeBy(a) :
            y.kind \in {"table", "column", "check", "fk"} \/ (d = "mysql" /\ y.kind = "comment")
        <2>1. \A y \in create.makes :
                y.kind \in {"table", "column", "check", "fk"} \/ (d = "mysql" /\ y.kind = "comment")
            BY CreateKinds
        <2> HIDE DEF create
        <2> QED
            BY <2>1, SingleList, SmallApart, SingleMade
    <1>2. IsList(b) /\ Apart(b) /\ \A y \in MadeBy(b) : d = "postgres" /\ y.kind = "comment"
        <2>1. CASE t.comment /\ d = "postgres"
            <3> DEFINE x == Export!CreateAnyway({Export!Id("comment", name)}, {Export!Id("table", name)})
            <3>1. b = <<x>>
                BY <2>1 DEF Export!TableComment
            <3>2. x.makes = {Export!Id("comment", name)}
                BY DEF Export!CreateAnyway, Export!Create
            <3>3. Export!Id("comment", name).kind = "comment"
                BY DEF Export!Id
            <3> HIDE DEF x, b, name
            <3>4. MadeBy(b) = {Export!Id("comment", name)}
                BY <3>1, <3>2, SingleMade
            <3> QED
                BY <2>1, <3>1, <3>3, <3>4, SingleList, SmallApart
        <2>2. CASE ~(t.comment /\ d = "postgres")
            <3>1. b = <<>>
                BY <2>2 DEF Export!TableComment
            <3> QED
                BY <3>1, EmptyIsList, SmallApart DEF MadeBy
        <2> QED
            BY <2>1, <2>2
    <1>3. IsList(c) /\ Apart(c) /\ \A y \in MadeBy(c) : y.kind = "index"
        <2>1. MadeBy(c) = {Export!PartId("index", name, x.name) : x \in {x \in ToSet(t.indexes) : ~x.primary}}
            BY MadeByIndexes
        <2> HIDE DEF c
        <2>2. \A y \in MadeBy(c) : y.kind = "index"
            BY <2>1, PartKind
        <2> QED
            BY <2>2, IndexStatements, IndexesApart DEF c
    <1>4. IsList(e) /\ Apart(e) /\ \A y \in MadeBy(e) : y.kind = "trigger"
        <2>1. MadeBy(e) = {Export!PartId("trigger", name, x.name) : x \in {x \in ToSet(t.triggers) : x.statement}}
            BY MadeByTriggers
        <2> HIDE DEF e
        <2>2. \A y \in MadeBy(e) : y.kind = "trigger"
            BY <2>1, PartKind
        <2> QED
            BY <2>2, TriggerStatements, TriggersApart DEF e
    <1>5. Export!GenerateTableDDL(t, schema, d) = a \o b \o c \o e
        BY DEF Export!GenerateTableDDL
    <1> HIDE DEF a, b, c, e
    <1>6. Separate(MadeBy(a), MadeBy(b))
        <2>1. d = "mysql" => d # "postgres"
            OBVIOUS
        <2> QED
            BY <1>1, <1>2, <2>1 DEF Separate
    <1>7. IsList(a \o b) /\ Apart(a \o b) /\ MadeBy(a \o b) = MadeBy(a) \cup MadeBy(b)
        BY <1>1, <1>2, <1>6, JoinedApart
    <1> DEFINE ab == a \o b
    <1> HIDE DEF ab
    <1>8. Separate(MadeBy(ab), MadeBy(c)) /\ Separate(MadeBy(ab), MadeBy(e)) /\ Separate(MadeBy(c), MadeBy(e))
        BY <1>1, <1>2, <1>3, <1>4, <1>7 DEF Separate, ab
    <1>9. IsList(ab \o c) /\ Apart(ab \o c) /\ MadeBy(ab \o c) = MadeBy(ab) \cup MadeBy(c)
        BY <1>3, <1>7, <1>8, JoinedApart DEF ab
    <1>10. Separate(MadeBy(ab \o c), MadeBy(e))
        BY <1>8, <1>9 DEF Separate
    <1>11. Apart(ab \o c \o e)
        BY <1>4, <1>9, <1>10, JoinedApart
    <1> QED
        BY <1>5, <1>11 DEF ab

LEMMA UniqueParts ==
    ASSUME NEW d \in Databases, NEW s \in ToSet(d), NEW t \in ToSet(s.lists["table"])
    PROVE  DistinctParts(t)
    <1>1. PICK i \in DOMAIN d : s = d[i]
        BY DEF ToSet
    <1>2. \A u \in ToSet(d[i].lists["table"]) : DistinctParts(u)
        BY NamesAssumption, Zenon DEF DistinctParts
    <1> QED
        BY <1>1, <1>2

\* A schema, or the copy of one, whose lists are those of the schema without some members.
CopyOf(c, s) ==
    /\ Exportable(c) /\ c.name = s.name
    /\ \A k \in Kinds : /\ ToSet(c.lists[k]) \subseteq ToSet(s.lists[k])
                        /\ c.lists[k] = KeepOnly(s.lists[k], ToSet(c.lists[k]))

LEMMA Copies ==
    ASSUME NEW d \in Databases, NEW s \in ToSet(d), NEW o
    PROVE  CopyOf(s, s) /\ CopyOf(FilterSchemaObjects(s, o), s)
    <1>1. Exportable(s) /\ IsSchema(s) /\ \A k \in Kinds : IsList(s.lists[k])
        BY DatabaseIsExportable, DatabaseIsList DEF ExportableAll, IsSchema
    <1>2. CopyOf(s, s)
        BY <1>1, AllKept DEF CopyOf
    <1> DEFINE c == FilterSchemaObjects(s, o)
    <1>3. Exportable(c) /\ c.name = s.name
        BY <1>1, CopiesExportable, CopyHolds
    <1>4. ASSUME NEW k \in Kinds
          PROVE  /\ ToSet(c.lists[k]) \subseteq ToSet(s.lists[k])
                 /\ c.lists[k] = KeepOnly(s.lists[k], ToSet(c.lists[k]))
        <2>1. ToSet(c.lists[k]) = {x \in ToSet(s.lists[k]) : KeptInSchema(o, k, x)}
            BY <1>1, CopyHolds
        <2>2. c.lists[k] = KeepOnly(s.lists[k], ToSet(c.lists[k]))
            BY <1>1, CopyKeeps
        <2> HIDE DEF c
        <2> QED
            BY <2>1, <2>2
    <1> HIDE DEF c
    <1>5. CopyOf(c, s)
        BY <1>3, <1>4 DEF CopyOf
    <1> QED
        BY <1>2, <1>5 DEF c

\* The statements of one kind of objects.
LEMMA KindApart ==
    ASSUME NEW d \in Databases, NEW s \in ToSet(d), NEW c, CopyOf(c, s), NEW k \in Kinds
    PROVE  Apart(KindPart(k, c, EngineOf(d)))
    <1> DEFINE engine == EngineOf(d)
               l == s.lists[k]
               kept == c.lists[k]
               S == ToSet(l)
               T == ToSet(kept)
               of == ObjectParts(k, S, s.name, engine)
               n == Len(l)
    <1>1. /\ c.name = s.name /\ kept = KeepOnly(l, T) /\ T \subseteq S /\ Exportable(c)
          /\ Exportable(s) /\ IsList(l) /\ engine \in Export!Dialects
        <2>1. Exportable(s) /\ IsList(l)
            BY DatabaseIsExportable DEF ExportableAll, Exportable
        <2> QED
            BY <2>1, EngineIsDialect DEF CopyOf
    <1>2. CASE Export!WrittenIn(engine, k)
        <2>1. KindPart(k, c, engine) = FlattenSeq(Parts(kept, of))
            BY <1>1, <1>2, KindIsItsParts
        <2>2. \A x \in S : IsList(of[x]) /\ MadeBy(of[x]) = ObjectIds(k, x, s, engine)
            BY <1>1, ObjectPart
        <2>3. ASSUME NEW x \in S
              PROVE  Apart(of[x])
            <3>1. CASE k = "table"
                <4>1. of[x] = Export!GenerateTableDDL(x, s.name, engine)
                    BY <3>1 DEF ObjectParts
                <4>2. IsTable(x) /\ DistinctParts(x)
                    BY <1>1, <3>1, UniqueParts DEF Exportable
                <4> HIDE DEF of, engine
                <4> QED
                    BY <4>1, <4>2, TableApart
            <3>2. CASE k # "table"
                <4>1. of[x] = <<Export!CreateObject(k, x, s.name, engine)>>
                    BY <3>2 DEF ObjectParts
                <4> HIDE DEF of
                <4> QED
                    BY <4>1, SmallApart
            <3> QED
                BY <3>1, <3>2
        <2> HIDE DEF of
        <2>4. n \in Nat /\ DOMAIN l = 1..n /\ \A i \in 1..n : l[i] \in S
            BY <1>1, ListFacts
        <2>5. ASSUME NEW i \in 1..n, NEW j \in 1..n, i # j
              PROVE  Separate(MadeBy(of[l[i]]), MadeBy(of[l[j]]))
            <3> SUFFICES ASSUME NEW y \in ObjectIds(k, l[i], s, engine) \cap ObjectIds(k, l[j], s, engine)
                         PROVE  FALSE
                BY <2>2, <2>4 DEF Separate
            <3>1. SameObject(k, l[i], l[j])
                BY <2>4, SharedId
            <3>2. i = j
                BY <2>4, <3>1, UniqueObjects
            <3> QED
                BY <2>5, <3>2
        <2> HIDE DEF l, n
        <2>6. Apart(FlattenSeq(Parts(KeepOnly(l, T), of)))
            <3>1. \A x \in ToSet(l) : IsList(of[x]) /\ Apart(of[x])
                BY <2>2, <2>3
            <3>2. \A i, j \in 1..Len(l) : i # j => Separate(MadeBy(of[l[i]]), MadeBy(of[l[j]]))
                BY <2>5 DEF n
            <3> QED
                BY <1>1, <3>1, <3>2, KeptApart
        <2> QED
            BY <1>1, <2>1, <2>6
    <1>3. CASE ~Export!WrittenIn(engine, k)
        <2>1. k # "table"
            BY <1>3 DEF Export!WrittenIn
        <2>2. KindPart(k, c, engine) = <<>>
            BY <1>3, <2>1 DEF KindPart, Export!GenerateObjectDDLs
        <2> QED
            BY <2>2, SmallApart
    <1> QED
        BY <1>2, <1>3

\* Every kind has its own identifiers.
KindsOf(k) == IF k = "table" THEN TableKinds ELSE {k}

LEMMA KindsSeparate ==
    ASSUME NEW i \in 1..10, NEW j \in 1..10, i # j
    PROVE  Separate(KindsOf(Export!KindOrder[i]), KindsOf(Export!KindOrder[j]))
    <1> DEFINE Rank(k) ==
            CASE k = "extension" -> 1 [] k = "enum" -> 2 [] k = "sequence" -> 3 [] k = "table" -> 4
              [] k = "view" -> 5 [] k = "mview" -> 6 [] k = "function" -> 7 [] k = "procedure" -> 8
              [] k = "event" -> 9 [] OTHER -> 10
    <1>1. ASSUME NEW k \in 1..10
          PROVE  Rank(Export!KindOrder[k]) = k
        <2>1. k = 1 \/ k = 2 \/ k = 3 \/ k = 4 \/ k = 5 \/ k = 6 \/ k = 7 \/ k = 8 \/ k = 9 \/ k = 10
            OBVIOUS
        <2> QED
            BY <2>1, KindOrderIs
    <1>2. Export!KindOrder[i] \in Kinds /\ Export!KindOrder[j] \in Kinds
        BY KindOrderHas
    <1>3. Export!KindOrder[i] # Export!KindOrder[j]
        <2> HIDE DEF Rank
        <2> QED
            BY <1>1
    <1>4. TableKinds \cap Kinds = {"table"}
        BY DEF TableKinds, Kinds
    <1> QED
        BY <1>2, <1>3, <1>4 DEF KindsOf, Separate

\* The statements of a schema.
LEMMA SchemaApart ==
    ASSUME NEW d \in Databases, NEW s \in ToSet(d), NEW c, CopyOf(c, s)
    PROVE  Apart(Export!GenerateSchema(c, EngineOf(d)))
    <1> DEFINE engine == EngineOf(d)
               parts == SchemaParts(c, engine)
               Kind(i) == Export!KindOrder[i]
               In(i) == IF i = 1 THEN {"schema"} ELSE KindsOf(Kind(i - 1))
    <1>1. Exportable(c) /\ engine \in Export!Dialects
        BY EngineIsDialect DEF CopyOf
    <1>2. IsList(parts) /\ Len(parts) = 11 /\ (\A i \in 1..11 : IsList(parts[i])) /\ (\A x \in ToSet(parts) : IsList(x))
          /\ Export!GenerateSchema(c, engine) = FlattenSeq(parts)
        BY <1>1, SchemaPartsAreLists, SchemaIsItsParts
    <1>3. MadeBy(parts[1]) = Export!InSchema(c.name, engine)
          /\ \A k \in 1..10 : MadeBy(parts[k + 1]) = KindIds(Kind(k), c, engine)
        BY <1>1, MadeByParts
    <1>4. Apart(parts[1])
        <2>1. parts[1] = Export!CreateSchema(c, engine)
            BY DEF SchemaParts
        <2> HIDE DEF parts
        <2> QED
            BY <2>1, SmallApart DEF Export!CreateSchema
    <1>5. ASSUME NEW k \in 1..10
          PROVE  Apart(parts[k + 1])
        <2>1. k + 1 \in 1..11 /\ k + 1 # 1 /\ (k + 1 = 5 <=> k = 4) /\ k + 1 - 1 = k
            OBVIOUS
        <2>2. Kind(k) \in Kinds /\ (Kind(k) = "table" <=> k = 4)
            BY KindOrderHas
        <2>3. parts[k + 1] = KindPart(Kind(k), c, engine)
            BY <2>1, <2>2 DEF SchemaParts, KindPart
        <2> HIDE DEF parts, Kind
        <2> QED
            BY <2>2, <2>3, KindApart
    <1> HIDE DEF parts
    <1>6. ASSUME NEW y \in MadeBy(parts[1])
          PROVE  y.kind = "schema"
        BY <1>3, SchemaId
    <1>7. ASSUME NEW k \in 1..10, NEW y \in MadeBy(parts[k + 1])
          PROVE  y.kind \in KindsOf(Kind(k))
        <2>1. y \in KindIds(Kind(k), c, engine)
            BY <1>3
        <2>2. Kind(k) \in Kinds
            BY KindOrderHas
        <2> HIDE DEF Kind, engine
        <2>3. PICK x : y \in ObjectIds(Kind(k), x, c, engine)
            BY <2>1 DEF KindIds
        <2>4. Kind(k) # "table" \/ y.kind \in TableKinds
            BY <2>2, <2>3, IdOfObject
        <2>5. Kind(k) = "table" \/ y.kind = Kind(k)
            BY <2>2, <2>3, IdOfObject
        <2> QED
            BY <2>4, <2>5 DEF KindsOf
    <1>8. \A i \in 1..11 : i = 1 \/ (i - 1 \in 1..10 /\ i - 1 + 1 = i)
        OBVIOUS
    <1>9. ASSUME NEW i \in 1..11
          PROVE  Apart(parts[i]) /\ \A y \in MadeBy(parts[i]) : y.kind \in In(i)
        <2>1. CASE i = 1
            BY <1>4, <1>6, <2>1
        <2>2. CASE i # 1
            <3> DEFINE k == i - 1
            <3>1. k \in 1..10 /\ k + 1 = i
                BY <1>8, <2>2
            <3>2. In(i) = KindsOf(Kind(k))
                BY <2>2
            <3> HIDE DEF k, Kind, In
            <3> QED
                BY <1>5, <1>7, <3>1, <3>2
        <2> QED
            BY <2>1, <2>2
    <1>10. \A k \in 1..10 : "schema" \notin KindsOf(Kind(k))
        <2>1. "schema" \notin Kinds /\ "schema" \notin TableKinds
            BY DEF Kinds, TableKinds
        <2>2. \A k \in 1..10 : Kind(k) \in Kinds
            BY KindOrderHas
        <2> HIDE DEF Kind
        <2> QED
            BY <2>1, <2>2 DEF KindsOf
    <1>11. ASSUME NEW i \in 1..11, NEW j \in 1..11, i # j
           PROVE  Separate(In(i), In(j))
        <2>1. CASE i # 1 /\ j # 1
            <3>1. i - 1 \in 1..10 /\ j - 1 \in 1..10 /\ i - 1 # j - 1
                BY <1>8, <1>11, <2>1
            <3> QED
                BY <2>1, <3>1, KindsSeparate
        <2>2. CASE i = 1
            <3>1. j # 1 /\ j - 1 \in 1..10
                BY <1>8, <1>11, <2>2
            <3> HIDE DEF Kind
            <3> QED
                BY <1>10, <2>2, <3>1 DEF Separate
        <2>3. CASE j = 1
            <3>1. i # 1 /\ i - 1 \in 1..10
                BY <1>8, <1>11, <2>3
            <3> HIDE DEF Kind
            <3> QED
                BY <1>10, <2>3, <3>1 DEF Separate
        <2> QED
            BY <2>1, <2>2, <2>3
    <1> HIDE DEF In
    <1>12. ASSUME NEW i \in 1..11, NEW j \in 1..11, i # j
           PROVE  Separate(MadeBy(parts[i]), MadeBy(parts[j]))
        <2>1. Separate(In(i), In(j))
            BY <1>11, <1>12
        <2> QED
            BY <1>9, <2>1 DEF Separate
    <1>13. Apart(FlattenSeq(parts))
        BY <1>2, <1>9, <1>12, FlattenApart
    <1> QED
        BY <1>2, <1>13

\* Whose an identifier of a copy is.
LEMMA CopiedId ==
    ASSUME NEW s, NEW c, CopyOf(c, s), NEW d, NEW y \in Export!Exported(c, d)
    PROVE  \/ y.kind = "schema" /\ y.parts = <<s.name>>
           \/ /\ y.kind # "schema"
              /\ \E k \in Kinds : \E x \in ToSet(s.lists[k]) : y \in ObjectIds(k, x, s, d)
    <1>1. c.name = s.name /\ \A k \in Kinds : ToSet(c.lists[k]) \subseteq ToSet(s.lists[k])
        BY DEF CopyOf
    <1>2. CASE y \in Export!InSchema(c.name, d)
        BY <1>1, <1>2, SchemaId
    <1>3. CASE y \notin Export!InSchema(c.name, d)
        <2>1. y.kind # "schema"
              /\ \E k \in Kinds : \E x \in ToSet(c.lists[k]) : y \in ObjectIds(k, x, c, d)
            BY <1>3, ExportedId
        <2>2. \A k, x : ObjectIds(k, x, c, d) = ObjectIds(k, x, s, d)
            BY <1>1 DEF ObjectIds
        <2> QED
            BY <1>1, <2>1, <2>2
    <1> QED
        BY <1>2, <1>3

\* Two places of a database where one identifier comes from are one.
LEMMA SchemasApart ==
    ASSUME NEW d \in Databases, NEW i \in DOMAIN d, NEW j \in DOMAIN d,
           NEW c, CopyOf(c, d[i]), NEW e, CopyOf(e, d[j]),
           NEW y \in Export!Exported(c, EngineOf(d)) \cap Export!Exported(e, EngineOf(d))
    PROVE  i = j
    <1> DEFINE s == d[i]
               t == d[j]
               engine == EngineOf(d)
               Of(u) == \E k \in Kinds : \E x \in ToSet(u.lists[k]) : y \in ObjectIds(k, x, u, engine)
    <1>1. s \in ToSet(d) /\ t \in ToSet(d)
        BY DEF ToSet
    <1>2. \/ y.kind = "schema" /\ y.parts = <<s.name>>
          \/ y.kind # "schema" /\ Of(s)
        BY CopiedId
    <1>3. \/ y.kind = "schema" /\ y.parts = <<t.name>>
          \/ y.kind # "schema" /\ Of(t)
        BY CopiedId
    <1>4. s.name = t.name
        <2>1. CASE y.kind = "schema"
            <3>1. <<s.name>> = <<t.name>>
                BY <1>2, <1>3, <2>1
            <3>2. \A a, b : <<a>> = <<b>> => a = b
                OBVIOUS
            <3> QED
                BY <3>1, <3>2
        <2>2. CASE y.kind # "schema"
            <3>1. PICK k \in Kinds : \E x \in ToSet(s.lists[k]) : y \in ObjectIds(k, x, s, engine)
                BY <1>2, <2>2
            <3>2. PICK x \in ToSet(s.lists[k]) : y \in ObjectIds(k, x, s, engine)
                BY <3>1
            <3>3. PICK l \in Kinds : \E z \in ToSet(t.lists[l]) : y \in ObjectIds(l, z, t, engine)
                BY <1>3, <2>2
            <3>4. PICK z \in ToSet(t.lists[l]) : y \in ObjectIds(l, z, t, engine)
                BY <3>3
            <3>5. s = t
                BY <1>1, <3>2, <3>4, SharedId
            <3> QED
                BY <3>5
        <2> QED
            BY <2>1, <2>2
    <1> QED
        BY <1>4, NamesAssumption, Zenon

\* Scripts of copies, one for each schema of a database or none.
LEMMA CopiesApart ==
    ASSUME NEW d \in Databases, NEW scripts, IsList(scripts), Len(scripts) = Len(d),
           \A x \in ToSet(scripts) : IsList(x),
           \A i \in 1..Len(d) :
                \/ scripts[i] = <<>>
                \/ \E c : CopyOf(c, d[i]) /\ scripts[i] = Export!GenerateSchema(c, EngineOf(d))
    PROVE  Apart(FlattenSeq(scripts))
    <1> DEFINE n == Len(d)
               engine == EngineOf(d)
               Script(i, c) == CopyOf(c, d[i]) /\ scripts[i] = Export!GenerateSchema(c, engine)
    <1>1. n \in Nat /\ DOMAIN d = 1..n /\ \A i \in 1..n : d[i] \in ToSet(d)
        BY DatabaseIsList, ListFacts
    <1>2. engine \in Export!Dialects
        BY EngineIsDialect
    <1>3. MadeBy(<<>>) = {}
        BY EmptyIsList DEF MadeBy
    <1>4. \A i \in 1..n : scripts[i] = <<>> \/ \E c : Script(i, c)
        OBVIOUS
    <1>5. ASSUME NEW i \in 1..n, NEW c, Script(i, c)
          PROVE  Apart(scripts[i]) /\ MadeBy(scripts[i]) = Export!Exported(c, engine)
        <2>1. Apart(scripts[i])
            BY <1>1, <1>5, SchemaApart
        <2>2. Exportable(c)
            BY <1>5 DEF CopyOf
        <2>3. MadeBy(Export!GenerateSchema(c, engine)) = Export!Exported(c, engine)
            BY <1>2, <2>2, MadeBySchema
        <2> QED
            BY <1>5, <2>1, <2>3
    <1>6. ASSUME NEW i \in 1..n
          PROVE  Apart(scripts[i])
        <2>1. CASE scripts[i] = <<>>
            BY <2>1, SmallApart
        <2>2. CASE scripts[i] # <<>>
            <3>1. PICK c : Script(i, c)
                BY <1>4, <2>2
            <3> HIDE DEF Script
            <3> QED
                BY <1>5, <3>1
        <2> QED
            BY <2>1, <2>2
    <1>7. ASSUME NEW i \in 1..n, NEW j \in 1..n, i # j
          PROVE  Separate(MadeBy(scripts[i]), MadeBy(scripts[j]))
        <2>1. CASE scripts[i] = <<>> \/ scripts[j] = <<>>
            BY <1>3, <2>1 DEF Separate
        <2>2. CASE scripts[i] # <<>> /\ scripts[j] # <<>>
            <3>1. PICK c : Script(i, c)
                BY <1>4, <2>2
            <3>2. PICK e : Script(j, e)
                BY <1>4, <2>2
            <3>3. CopyOf(c, d[i]) /\ CopyOf(e, d[j])
                BY <3>1, <3>2
            <3> HIDE DEF Script
            <3>4. MadeBy(scripts[i]) = Export!Exported(c, engine) /\ MadeBy(scripts[j]) = Export!Exported(e, engine)
                BY <1>5, <3>1, <3>2
            <3>5. Export!Exported(c, engine) \cap Export!Exported(e, engine) = {}
                BY <1>1, <1>7, <3>3, SchemasApart
            <3> QED
                BY <3>4, <3>5 DEF Separate
        <2> QED
            BY <2>1, <2>2
    <1> HIDE DEF n
    <1>8. Apart(FlattenSeq(scripts))
        BY <1>6, <1>7, FlattenApart DEF n
    <1> QED
        BY <1>8

\* The script of a database, or of what is left of it.
LEMMA ScriptApart ==
    ASSUME NEW d \in Databases, NEW o
    PROVE  Apart(Export!GenerateDDL(FilterSchema(d, o), EngineOf(d)))
    <1> DEFINE engine == EngineOf(d)
               n == Len(d)
    <1>1. ExportableAll(d) /\ n \in Nat /\ DOMAIN d = 1..n /\ \A i \in 1..n : d[i] \in ToSet(d)
        BY DatabaseIsExportable, DatabaseIsList, ListFacts
    <1>2. CASE o = Nil
        <2> DEFINE scripts == SchemaScripts(d, engine)
        <2>1. /\ IsList(scripts) /\ Len(scripts) = n /\ (\A x \in ToSet(scripts) : IsList(x))
              /\ Export!GenerateDDL(d, engine) = FlattenSeq(scripts)
            BY <1>1, SchemaScriptsAreLists
        <2>2. \A i \in 1..n : CopyOf(d[i], d[i]) /\ scripts[i] = Export!GenerateSchema(d[i], engine)
            BY <1>1, Copies DEF SchemaScripts
        <2> HIDE DEF scripts
        <2>3. Apart(FlattenSeq(scripts))
            BY <2>1, <2>2, CopiesApart
        <2> QED
            BY <1>2, <2>1, <2>3 DEF FilterSchema
    <1>3. CASE o # Nil
        <2> DEFINE scripts == CopyScripts(d, o, engine)
        <2>1. /\ IsList(scripts) /\ Len(scripts) = n /\ (\A x \in ToSet(scripts) : IsList(x))
              /\ Export!GenerateDDL(FilterSchema(d, o), engine) = FlattenSeq(scripts)
            BY <1>3, ScriptIsCopies
        <2>2. ASSUME NEW i \in 1..n
              PROVE  \/ scripts[i] = <<>>
                     \/ \E c : CopyOf(c, d[i]) /\ scripts[i] = Export!GenerateSchema(c, engine)
            <3>1. scripts[i] = CopyScript(d[i], d, o, engine)
                BY <1>1 DEF CopyScripts
            <3>2. scripts[i] = <<>> \/ scripts[i] = Export!GenerateSchema(FilterSchemaObjects(d[i], o), engine)
                BY <3>1 DEF CopyScript
            <3>3. CopyOf(FilterSchemaObjects(d[i], o), d[i])
                BY <1>1, Copies
            <3> HIDE DEF scripts
            <3> QED
                BY <3>2, <3>3
        <2> HIDE DEF scripts
        <2>3. Apart(FlattenSeq(scripts))
            BY <2>1, <2>2, CopiesApart
        <2> QED
            BY <2>1, <2>3
    <1> QED
        BY <1>2, <1>3

-----------------------------------------------------------------------------
(***************************************************************************)
(* The script of what is left, run to its end.                             *)
(***************************************************************************)
Done(i) == Ran({}, script)[i]

\* The script is that of the filtered copy in the dialect of the database's engine; the
\* server has what the statements run so far leave, and those that failed are known.
RunInv ==
    /\ pos = 0 => script = <<>> /\ catalog = {} /\ failures = {}
    /\ pos # 0 =>
        /\ step = "filtered" /\ dialect = EngineOf(db)
        /\ script = Export!GenerateDDL(filtered, dialect)
        /\ pos \in 1..(Len(script) + 1)
        /\ catalog = Done(pos - 1)
        /\ failures = {i \in 1..(pos - 1) : ~Export!Succeeds(script[i], Done(i - 1))}
ReplayInv == FilteredInv /\ RunInv

LEMMA ReplayInitially == DumpInit => ReplayInv
    BY FilteredInitially DEF DumpInit, ReplayInv, RunInv

LEMMA ScriptIsList ==
    ASSUME ReplayInv, pos # 0
    PROVE  ExportableAll(filtered) /\ IsList(script)
    <1>1. db \in Databases /\ filtered = FilterSchema(db, opts) /\ dialect \in Export!Dialects
          /\ script = Export!GenerateDDL(filtered, dialect)
        BY EngineIsDialect DEF ReplayInv, RunInv, FilteredInv, FilterInv
    <1>2. ExportableAll(filtered)
        BY <1>1, CopyIsExportable
    <1> QED
        BY <1>1, <1>2, ScriptMakes

LEMMA FilteringKeepsRun ==
    ASSUME ReplayInv, FilterStep
    PROVE  RunInv'
    <1>1. step = "building"
        BY DEF FilterStep, Next, Construct, Called, WithIncludeSchemas, Apply,
            WithExcludeSchemas, WithIncludeTablesPattern, WithExcludeTablesPattern,
            WithBadPattern, WithTableSizeRange, WithRemoveEmptySchemas, SetPatterns
    <1>2. pos = 0
        BY <1>1 DEF ReplayInv, RunInv
    <1> QED
        BY <1>2 DEF FilterStep, exportVars, ReplayInv, RunInv

LEMMA ExportStartsRun ==
    ASSUME ReplayInv, ExportStep
    PROVE  RunInv'
    <1>1. /\ pos = 0 /\ pos' = 1 /\ step' = "filtered" /\ filtered' = filtered
          /\ dialect' = DialectFromEngine /\ script' = Export!GenerateDDL(filtered, DialectFromEngine)
          /\ catalog' = catalog /\ failures' = failures /\ db' = db
        BY DEF ExportStep, Export!ExportSQL
    <1>2. DialectFromEngine = EngineOf(db) /\ DialectFromEngine \in Export!Dialects
        BY EngineIsDialect DEF DialectFromEngine, EngineOf
    <1>3. db \in Databases /\ filtered = FilterSchema(db, opts)
        BY DEF ExportStep, ReplayInv, FilteredInv, FilterInv
    <1>4. IsList(script')
        BY <1>1, <1>2, <1>3, CopyIsExportable, ScriptMakes
    <1>5. Len(script') \in Nat
        BY <1>4, ListFacts
    <1>6. catalog = {} /\ failures = {}
        BY <1>1 DEF ReplayInv, RunInv
    <1>7. Ran({}, script')[0] = {}
        BY <1>4, RanSteps
    <1>8. 1 \in 1..(Len(script') + 1) /\ 1 - 1 = 0 /\ 1..0 = {}
        BY <1>5
    <1> QED
        BY <1>1, <1>2, <1>6, <1>7, <1>8 DEF RunInv, Done

LEMMA StatementKeepsRun ==
    ASSUME ReplayInv, ReplayStep
    PROVE  RunInv'
    <1>1. /\ pos \in DOMAIN script /\ pos' = pos + 1 /\ script' = script /\ step' = step
          /\ filtered' = filtered /\ dialect' = dialect /\ db' = db
          /\ IF Export!Succeeds(script[pos], catalog)
             THEN catalog' = catalog \cup script[pos].makes /\ failures' = failures
             ELSE failures' = failures \cup {pos} /\ catalog' = catalog
        BY DEF ReplayStep, Export!RunStatement
    <1>2. pos # 0
        BY <1>1 DEF ReplayInv, RunInv
    <1>3. IsList(script)
        BY <1>2, ScriptIsList
    <1>4. /\ Len(script) \in Nat /\ DOMAIN script = 1..Len(script)
          /\ \A i \in 1..Len(script) : Done(i) = Present(Done(i - 1), script[i])
        BY <1>3, ListFacts, RanSteps DEF Done
    <1>5. /\ step = "filtered" /\ dialect = EngineOf(db)
          /\ script = Export!GenerateDDL(filtered, dialect)
          /\ catalog = Done(pos - 1)
          /\ failures = {i \in 1..(pos - 1) : ~Export!Succeeds(script[i], Done(i - 1))}
        BY <1>2 DEF ReplayInv, RunInv
    <1>6. pos \in 1..Len(script) /\ pos' - 1 = pos /\ pos' # 0 /\ pos' \in 1..(Len(script) + 1)
          /\ 1..(pos' - 1) = 1..(pos - 1) \cup {pos}
        BY <1>1, <1>4
    <1>7. catalog' = Done(pos)
        BY <1>1, <1>4, <1>5, <1>6 DEF Present
    <1>8. failures' = {i \in 1..pos : ~Export!Succeeds(script[i], Done(i - 1))}
        <2>1. CASE Export!Succeeds(script[pos], catalog)
            BY <1>1, <1>5, <1>6, <2>1
        <2>2. CASE ~Export!Succeeds(script[pos], catalog)
            BY <1>1, <1>5, <1>6, <2>2
        <2> QED
            BY <2>1, <2>2
    <1>9. \A i : Ran({}, script')[i] = Done(i)
        BY <1>1 DEF Done
    <1> QED
        BY <1>1, <1>5, <1>6, <1>7, <1>8, <1>9 DEF RunInv, Done

LEMMA ReplayKept == ReplayInv /\ [DumpNext]_dumpVars => ReplayInv'
    <1> SUFFICES ASSUME ReplayInv, [DumpNext]_dumpVars PROVE ReplayInv'
        OBVIOUS
    <1>1. FilteredInv'
        BY FilteredKept DEF ReplayInv
    <1>2. CASE FilterStep
        BY <1>1, <1>2, FilteringKeepsRun DEF ReplayInv
    <1>3. CASE ExportStep
        BY <1>1, <1>3, ExportStartsRun DEF ReplayInv
    <1>4. CASE ReplayStep
        BY <1>1, <1>4, StatementKeepsRun DEF ReplayInv
    <1>5. CASE UNCHANGED dumpVars
        BY <1>1, <1>5 DEF dumpVars, ReplayInv, RunInv, Done
    <1> QED
        BY <1>2, <1>3, <1>4, <1>5 DEF DumpNext

\* Of a script that has been run to its end.
LEMMA ReplayedLeaves ==
    ASSUME ReplayInv, Export!Replayed
    PROVE  /\ db \in Databases /\ filtered = FilterSchema(db, opts) /\ dialect = EngineOf(db)
           /\ ExportableAll(filtered) /\ IsList(script) /\ dialect \in Export!Dialects
           /\ script = Export!GenerateDDL(filtered, dialect)
           /\ catalog = After({}, script)
           /\ failures = {i \in 1..Len(script) : ~Export!Succeeds(script[i], Done(i - 1))}
    <1>1. pos # 0 /\ ~(pos <= Len(script))
        BY DEF Export!Replayed, ReplayInv, RunInv
    <1>2. ExportableAll(filtered) /\ IsList(script)
        BY <1>1, ScriptIsList
    <1>3. Len(script) \in Nat
        BY <1>2, ListFacts
    <1>4. /\ dialect = EngineOf(db) /\ pos \in 1..(Len(script) + 1)
          /\ script = Export!GenerateDDL(filtered, dialect)
          /\ catalog = Done(pos - 1)
          /\ failures = {i \in 1..(pos - 1) : ~Export!Succeeds(script[i], Done(i - 1))}
          /\ step = "filtered"
        BY <1>1 DEF ReplayInv, RunInv
    <1>6. /\ db \in Databases /\ filtered = FilterSchema(db, opts)
          /\ dialect \in Export!Dialects
        BY <1>4, EngineIsDialect DEF ReplayInv, FilteredInv, FilterInv
    <1>5. pos - 1 = Len(script)
        BY <1>1, <1>3, <1>4
    <1> QED
        BY <1>2, <1>4, <1>5, <1>6 DEF After, Done

\* Of any database, whatever is filtered from it: no two statements of the script make
\* the same, and a script that runs without a failure leaves exactly what the dialect
\* exports, nothing missing or under another name (exporter/sql.go 46-143).
THEOREM ScriptsRebuild == DumpSpec => []ReplayRebuilds
    <1>1. ReplayInv => ReplayRebuilds
        <2> SUFFICES ASSUME ReplayInv, Export!Replayed
                     PROVE  /\ \A i, j \in DOMAIN script : i # j => script[i].makes \cap script[j].makes = {}
                            /\ failures = {} =>
                                catalog = UNION {Export!Exported(filtered[i], dialect) : i \in DOMAIN filtered}
            BY DEF ReplayRebuilds, Export!ReplayRebuilds
        <2>1. /\ ExportableAll(filtered) /\ IsList(script) /\ dialect \in Export!Dialects
              /\ script = Export!GenerateDDL(filtered, dialect)
              /\ db \in Databases /\ filtered = FilterSchema(db, opts) /\ dialect = EngineOf(db)
              /\ catalog = After({}, script)
            BY ReplayedLeaves
        <2>2. ASSUME failures = {}
              PROVE  catalog = UNION {Export!Exported(filtered[i], dialect) : i \in DOMAIN filtered}
            <3>1. \A i \in 1..Len(script) : Export!Succeeds(script[i], Ran({}, script)[i - 1])
                BY <2>2, ReplayedLeaves DEF Done
            <3>2. catalog = MadeBy(script)
                <4>1. After({}, script) = {} \cup MadeBy(script)
                    BY <2>1, <3>1, AllSucceeded
                <4> QED
                    BY <2>1, <4>1
            <3> QED
                BY <2>1, <3>2, ScriptMakes
        <2>3. ASSUME NEW i \in DOMAIN script, NEW j \in DOMAIN script, i # j
              PROVE  script[i].makes \cap script[j].makes = {}
            <3>1. Apart(script)
                BY <2>1, ScriptApart
            <3>2. DOMAIN script = 1..Len(script)
                BY <2>1, ListFacts
            <3> QED
                BY <2>3, <3>1, <3>2 DEF Apart, Separate
        <2> QED
            BY <2>2, <2>3
    <1> QED
        BY <1>1, ReplayInitially, ReplayKept, PTL DEF DumpSpec

\* Whatever fails in it, a script creates every object all of whose needs are of earlier
\* kinds or schemas and are such objects themselves, tables with a column that no server
\* accepts (DEFAULT AUTO_INCREMENT, or generated with a default) excepted: the order of the
\* kinds, the commas and the names of the statements are right for every database
\* (sql.go 62-140, 148-181).
THEOREM EarlierKindsAreEnough == DumpSpec => []EarlierKindsSuffice
    <1>1. ReplayInv => EarlierKindsSuffice
        <2> SUFFICES ASSUME ReplayInv, Export!Replayed
                     PROVE  Export!Grounded \subseteq catalog
            BY DEF EarlierKindsSuffice, Export!EarlierKindsSuffice
        <2> QED
            BY ReplayedLeaves, GroundedIsCreated
    <1> QED
        BY <1>1, ReplayInitially, ReplayKept, PTL DEF DumpSpec

\* The scripts that run are those whose statements all succeed.
LEMMA CleanIsSuccess ==
    ASSUME NEW list, IsList(list), Clean(list)
    PROVE  AllSucceed({}, list)
    <1>1. Run(list) = Ran({}, list)
        BY DEF Run, Ran, Present
    <1>2. DOMAIN list = 1..Len(list)
        BY ListFacts
    <1> QED
        BY <1>1, <1>2 DEF Clean, AllSucceed

\* What a script makes is named by what is exported.
LEMMA MadeIsExported ==
    ASSUME NEW schemas, IsList(schemas), ExportableAll(schemas), NEW d \in Export!Dialects
    PROVE  Made(Export!GenerateDDL(schemas, d)) = IdsOf(schemas, d)
    <1> DEFINE list == Export!GenerateDDL(schemas, d)
    <1>1. IsList(list) /\ MadeBy(list) = UNION {Export!Exported(schemas[i], d) : i \in DOMAIN schemas}
        BY ScriptMakes
    <1>2. DOMAIN schemas = 1..Len(schemas) /\ ToSet(schemas) = {schemas[i] : i \in DOMAIN schemas}
        BY ListFacts DEF ToSet
    <1>3. IdsOf(schemas, d) = UNION {Export!Exported(schemas[i], d) : i \in DOMAIN schemas}
        BY <1>2 DEF IdsOf
    <1>4. Made(list) = MadeBy(list)
        BY DEF Made, MadeBy, ToSet
    <1> QED
        BY <1>1, <1>3, <1>4

\* A filter that keeps whatever the kept objects need keeps a script that runs: if the
\* whole database's script runs without a failure, so does the one of the copy, whichever
\* options made it, for every database whose names the engines keep unique
\* (filter.go 50-103 keeps the order, sql.go 46-143).
THEOREM ClosedFiltersReplay == DumpSpec => []ClosedFilterReplays
    <1>1. ReplayInv => ClosedFilterReplays
        <2> DEFINE whole == Export!GenerateDDL(db, dialect)
                   K == IdsOf(filtered, dialect)
        <2> SUFFICES ASSUME ReplayInv, Export!Replayed, Clean(whole),
                            Needed(script) \subseteq Made(script)
                     PROVE  failures = {}
            BY DEF ClosedFilterReplays
        <2>1. /\ db \in Databases /\ filtered = FilterSchema(db, opts) /\ dialect = EngineOf(db)
              /\ ExportableAll(filtered) /\ IsList(script) /\ dialect \in Export!Dialects
              /\ script = Export!GenerateDDL(filtered, dialect)
              /\ failures = {i \in 1..Len(script) : ~Export!Succeeds(script[i], Done(i - 1))}
            BY ReplayedLeaves
        <2>2. IsList(whole)
            BY <2>1, DatabaseIsExportable, ScriptMakes
        <2>3. AllSucceed({}, whole)
            BY <2>2, CleanIsSuccess
        <2>4. AllSucceed({}, script)
            <3>1. CASE opts = Nil
                BY <2>1, <2>3, <3>1 DEF FilterSchema
            <3>2. CASE opts # Nil
                <4>1. Made(script) = K
                    BY <2>1, MadeIsExported DEF ExportableAll
                <4>2. \A y \in ToSet(script) : y.needs \subseteq K
                    <5>1. \A y \in ToSet(script) : y.needs \subseteq Needed(script)
                        BY DEF ToSet, Needed
                    <5> QED
                        BY <4>1, <5>1
                <4>3. Follows(script, whole, K)
                    BY <2>1, <3>2, <4>2, DatabaseFollows
                <4>4. Within({}, {}, K)
                    BY DEF Within
                <4> HIDE DEF whole, K
                <4> QED
                    BY <2>3, <4>3, <4>4 DEF Follows
            <3> QED
                BY <3>1, <3>2
        <2> QED
            BY <2>1, <2>4 DEF AllSucceed, Done
    <1> QED
        BY <1>1, ReplayInitially, ReplayKept, PTL DEF DumpSpec
=============================================================================

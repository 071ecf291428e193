--------------------------- MODULE CompareProofs ---------------------------
(***************************************************************************)
(* Theorems about Compare, for all databases the extractors may deliver,   *)
(* and lemmas about what the reports of Report list and count of a diff.   *)
(***************************************************************************)
EXTENDS Compare, Report, FiniteSetTheorems, SequenceTheorems, WellFoundedInduction, TLAPS

(***************************************************************************)
(* Lists, and the enumerations of a set.                                   *)
(***************************************************************************)
LEMMA ListFacts ==
    ASSUME NEW list, IsList(list)
    PROVE  /\ Len(list) \in Nat
           /\ DOMAIN list = 1..Len(list)
           /\ IsFiniteSet(ToSet(list))
           /\ \A i \in DOMAIN list : list[i] \in ToSet(list)
           /\ (ToSet(list) = {}) <=> (list = <<>>)
<1>1. list \in Seq(ToSet(list))
    BY DEF IsList
<1>2. Len(list) \in Nat /\ DOMAIN list = 1..Len(list)
    BY <1>1
<1>3. \A i \in DOMAIN list : list[i] \in ToSet(list)
    BY DEF ToSet
<1>4. IsFiniteSet(ToSet(list))
    <2>1. list \in Surjection(1..Len(list), ToSet(list))
        BY <1>1, <1>2 DEF Surjection, ToSet
    <2> QED
        BY <2>1, <1>2, FS_Interval, FS_Surjection
<1>5. (ToSet(list) = {}) <=> (list = <<>>)
    <2>1. ASSUME ToSet(list) = {} PROVE list = <<>>
        <3>1. Len(list) = 0
            BY <2>1, <1>2, <1>3
        <3> QED
            BY <3>1, <1>1
    <2>2. ToSet(<<>>) = {}
        BY DEF ToSet
    <2> QED
        BY <2>1, <2>2
<1> QED
    BY <1>2, <1>3, <1>4, <1>5

LEMMA EmptyList == IsList(<<>>) /\ ToSet(<<>>) = {}
BY DEF IsList, ToSet

LEMMA JoinedLists ==
    ASSUME NEW s, NEW t, IsList(s), IsList(t)
    PROVE  /\ IsList(s \o t)
           /\ ToSet(s \o t) = ToSet(s) \cup ToSet(t)
           /\ Len(s \o t) = Len(s) + Len(t)
           /\ \A i \in 1..Len(s) : (s \o t)[i] = s[i]
           /\ \A i \in 1..Len(t) : (s \o t)[Len(s) + i] = t[i]
<1> DEFINE S == ToSet(s) \cup ToSet(t)
<1>1. s \in Seq(ToSet(s)) /\ t \in Seq(ToSet(t))
    BY DEF IsList
<1>2. Len(s) \in Nat /\ Len(t) \in Nat /\ DOMAIN s = 1..Len(s) /\ DOMAIN t = 1..Len(t)
    BY ListFacts
<1>3. /\ \A i \in 1..Len(s) : s[i] \in ToSet(s)
      /\ \A i \in 1..Len(t) : t[i] \in ToSet(t)
    BY <1>2, ListFacts
<1>4. s \in Seq(S) /\ t \in Seq(S)
    BY <1>1, SMT
<1>5. /\ s \o t \in Seq(S)
      /\ Len(s \o t) = Len(s) + Len(t)
      /\ \A i \in 1..Len(s) : (s \o t)[i] = s[i]
      /\ \A i \in 1..Len(t) : (s \o t)[Len(s) + i] = t[i]
    BY <1>4, <1>2
<1>6. DOMAIN (s \o t) = 1..Len(s) + Len(t)
    BY <1>5
<1>7. ToSet(s \o t) = S
    <2>1. ASSUME NEW x \in ToSet(s \o t) PROVE x \in S
        BY <1>5 DEF ToSet
    <2>2. ASSUME NEW x \in ToSet(s) PROVE x \in ToSet(s \o t)
        <3>1. PICK i \in DOMAIN s : x = s[i]
            BY DEF ToSet
        <3>2. i \in DOMAIN (s \o t) /\ (s \o t)[i] = x
            BY <3>1, <1>2, <1>5, <1>6
        <3> QED
            BY <3>2 DEF ToSet
    <2>3. ASSUME NEW x \in ToSet(t) PROVE x \in ToSet(s \o t)
        <3>1. PICK i \in DOMAIN t : x = t[i]
            BY DEF ToSet
        <3>2. Len(s) + i \in DOMAIN (s \o t) /\ (s \o t)[Len(s) + i] = x
            BY <3>1, <1>2, <1>5, <1>6
        <3> QED
            BY <3>2 DEF ToSet
    <2> QED
        BY <2>1, <2>2, <2>3
<1> QED
    BY <1>5, <1>7 DEF IsList

\* A list with an operation carried out on every element is a list again.
LEMMA MappedList ==
    ASSUME NEW s, IsList(s), NEW t, DOMAIN t = DOMAIN s
    PROVE  IsList([i \in DOMAIN s |-> t[i]]) /\ Len([i \in DOMAIN s |-> t[i]]) = Len(s)
<1> DEFINE m == [i \in DOMAIN s |-> t[i]]
<1>1. Len(s) \in Nat /\ DOMAIN s = 1..Len(s)
    BY ListFacts
<1>2. \A i \in 1..Len(s) : m[i] \in ToSet(m)
    BY <1>1 DEF ToSet
<1>3. m \in [1..Len(s) -> ToSet(m)]
    BY <1>1, <1>2
<1>4. m \in Seq(ToSet(m)) /\ Len(m) = Len(s)
    BY <1>1, <1>3
<1> QED
    BY <1>4 DEF IsList

\* The sequences of SetToSeqs hold every element of a finite set once.
LEMMA Enumerations ==
    ASSUME NEW S, IsFiniteSet(S), NEW f \in SetToSeqs(S)
    PROVE  /\ IsList(f)
           /\ ToSet(f) = S
           /\ \A i, j \in DOMAIN f : f[i] = f[j] => i = j
<1> DEFINE D == 1..Cardinality(S)
<1>1. Cardinality(S) \in Nat
    BY FS_CardinalityType
<1>2. f \in [D -> S] /\ \A i, j \in D : i # j => f[i] # f[j]
    BY DEF SetToSeqs
<1>3. f \in Injection(D, S)
    BY <1>2 DEF Injection, IsInjective
<1>4. IsFiniteSet(D) /\ Cardinality(D) = Cardinality(S)
    BY <1>1, FS_Interval
<1>5. f \in Surjection(D, S)
    BY <1>3, <1>4, FS_Injection
<1>6. ToSet(f) = S
    BY <1>2, <1>5 DEF Surjection, ToSet
<1>7. f \in Seq(S)
    BY <1>1, <1>2
<1> QED
    BY <1>2, <1>6, <1>7 DEF IsList

\* The image of a finite set is finite.
LEMMA FiniteImage ==
    ASSUME NEW f, IsFiniteSet(DOMAIN f)
    PROVE  IsFiniteSet({f[x] : x \in DOMAIN f})
<1> DEFINE T == {f[x] : x \in DOMAIN f}
           g == [x \in DOMAIN f |-> f[x]]
<1>1. g \in Surjection(DOMAIN f, T)
    <2>1. g \in [DOMAIN f -> T]
        OBVIOUS
    <2>2. ASSUME NEW t \in T PROVE \E x \in DOMAIN f : g[x] = t
        OBVIOUS
    <2> QED
        BY <2>1, <2>2 DEF Surjection
<1> QED
    BY <1>1, FS_Surjection

(***************************************************************************)
(* The positions of a list in a strict total order: each has its own       *)
(* number of earlier ones.  This is what Sorted chooses by.                *)
(***************************************************************************)
RankIn(n, R) == [j \in 1..n |-> Cardinality({i \in 1..n : <<i, j>> \in R})]

LEMMA Ranking ==
    ASSUME NEW n \in Nat, NEW R,
           \A i \in 1..n : <<i, i>> \notin R,
           \A i, j, k \in 1..n : <<i, j>> \in R /\ <<j, k>> \in R => <<i, k>> \in R,
           \A i, j \in 1..n : i # j => <<i, j>> \in R \/ <<j, i>> \in R,
           NEW rank, rank = RankIn(n, R)
    PROVE  /\ rank \in [1..n -> 0..n - 1]
           /\ \A i, j \in 1..n : <<i, j>> \in R <=> rank[i] < rank[j]
           /\ \A m \in 1..n : \E j \in 1..n : rank[j] = m - 1
<1> DEFINE earlier(j) == {i \in 1..n : <<i, j>> \in R}
<1>0. rank = [j \in 1..n |-> Cardinality(earlier(j))]
    BY DEF RankIn
<1>1. IsFiniteSet(1..n) /\ Cardinality(1..n) = n
    BY FS_Interval
<1>2. ASSUME NEW j \in 1..n
      PROVE  /\ IsFiniteSet(earlier(j)) /\ rank[j] = Cardinality(earlier(j))
             /\ rank[j] \in 0..n - 1 /\ rank[j] \in Nat
    <2>1. earlier(j) \in SUBSET (1..n) /\ j \notin earlier(j)
        OBVIOUS
    <2>2. /\ IsFiniteSet(earlier(j))
          /\ Cardinality(earlier(j)) <= Cardinality(1..n)
          /\ Cardinality(1..n) = Cardinality(earlier(j)) => 1..n = earlier(j)
        BY <2>1, <1>1, FS_Subset
    <2>3. Cardinality(earlier(j)) \in Nat
        BY <2>2, FS_CardinalityType
    <2>4. Cardinality(earlier(j)) # n
        BY <2>1, <2>2, <1>1
    <2>5. rank[j] = Cardinality(earlier(j))
        BY <1>0
    <2> QED
        BY <2>2, <2>3, <2>4, <2>5, <1>1
<1>3. rank \in [1..n -> 0..n - 1]
    BY <1>0, <1>2
<1>4. ASSUME NEW i \in 1..n, NEW j \in 1..n, <<i, j>> \in R
      PROVE  rank[i] < rank[j]
    <2>1. earlier(i) \in SUBSET earlier(j) /\ i \in earlier(j) /\ i \notin earlier(i)
        <3>1. \A m \in 1..n : <<m, i>> \in R => <<m, j>> \in R
            BY <1>4
        <3>2. <<i, i>> \notin R
            OBVIOUS
        <3> QED
            BY <1>4, <3>1, <3>2
    <2>2. /\ Cardinality(earlier(i)) <= Cardinality(earlier(j))
          /\ Cardinality(earlier(j)) = Cardinality(earlier(i)) => earlier(j) = earlier(i)
        <3>1. IsFiniteSet(earlier(j))
            BY <1>2
        <3> HIDE DEF earlier
        <3> QED
            BY <2>1, <3>1, FS_Subset
    <2>3. rank[i] \in Nat /\ rank[j] \in Nat
        BY <1>2
    <2> QED
        BY <2>1, <2>2, <2>3, <1>2
<1>5. ASSUME NEW i \in 1..n, NEW j \in 1..n, rank[i] < rank[j]
      PROVE  <<i, j>> \in R
    <2>0. rank[i] \in Nat /\ rank[j] \in Nat
        BY <1>2
    <2>1. i # j
        BY <1>5, <2>0
    <2>2. CASE <<j, i>> \in R
        <3>1. rank[j] < rank[i]
            BY <2>2, <1>4
        <3> QED
            BY <3>1, <2>0, <1>5
    <2> QED
        BY <2>1, <2>2
<1>6. rank \in Injection(1..n, 0..n - 1)
    <2>1. ASSUME NEW i \in 1..n, NEW j \in 1..n, rank[i] = rank[j], i # j PROVE FALSE
        <3>1. rank[i] < rank[j] \/ rank[j] < rank[i]
            BY <2>1, <1>4
        <3>2. rank[i] \in Nat /\ rank[j] \in Nat
            BY <1>2
        <3> QED
            BY <3>1, <3>2, <2>1
    <2>2. \A i, j \in DOMAIN rank : rank[i] = rank[j] => i = j
        BY <2>1, <1>3
    <2> QED
        BY <2>2, <1>3 DEF Injection, IsInjective
<1>7. IsFiniteSet(0..n - 1) /\ Cardinality(0..n - 1) = n
    <2>1. 0 \in Int /\ n - 1 \in Int
        OBVIOUS
    <2>2. /\ IsFiniteSet(0..n - 1)
          /\ Cardinality(0..n - 1) = IF 0 > n - 1 THEN 0 ELSE n - 1 - 0 + 1
        BY <2>1, FS_Interval
    <2> QED
        BY <2>2
<1>8. rank \in Surjection(1..n, 0..n - 1)
    BY <1>6, <1>7, <1>1, FS_Injection
<1>9. ASSUME NEW m \in 1..n PROVE \E j \in 1..n : rank[j] = m - 1
    <2>1. m - 1 \in 0..n - 1
        OBVIOUS
    <2> QED
        BY <2>1, <1>8 DEF Surjection
<1> QED
    BY <1>3, <1>4, <1>5, <1>9

(***************************************************************************)
(* The entries for one list.                                               *)
(***************************************************************************)
LEMMA IndexedFacts ==
    ASSUME NEW kind, NEW list, IsList(list)
    PROVE  /\ Indexed(kind, list) \subseteq ToSet(list)
           /\ IsFiniteSet(Indexed(kind, list))
           /\ \A o, n \in Indexed(kind, list) : Key(kind, o) = Key(kind, n) => o = n
           /\ UniqueKeys(kind, list) => Indexed(kind, list) = ToSet(list)
<1> DEFINE lasts == {i \in DOMAIN list :
                        \A j \in DOMAIN list : Key(kind, list[j]) = Key(kind, list[i]) => j <= i}
<1>0. DOMAIN list = 1..Len(list) /\ Len(list) \in Nat /\ IsFiniteSet(ToSet(list))
    BY ListFacts
<1>1. Indexed(kind, list) = {list[i] : i \in lasts}
    BY DEF Indexed
<1>2. Indexed(kind, list) \subseteq ToSet(list)
    BY <1>1 DEF ToSet
<1>3. IsFiniteSet(Indexed(kind, list))
    BY <1>0, <1>2, FS_Subset
<1>4. ASSUME NEW o \in Indexed(kind, list), NEW n \in Indexed(kind, list),
             Key(kind, o) = Key(kind, n)
      PROVE  o = n
    <2>1. PICK i \in lasts : o = list[i]
        BY <1>1
    <2>2. PICK j \in lasts : n = list[j]
        BY <1>1
    <2>3. i <= j /\ j <= i
        BY <1>4, <2>1, <2>2
    <2>4. i \in Nat /\ j \in Nat
        BY <1>0
    <2> QED
        BY <2>1, <2>2, <2>3, <2>4
<1>5. ASSUME UniqueKeys(kind, list) PROVE ToSet(list) \subseteq Indexed(kind, list)
    <2> SUFFICES ASSUME NEW i \in DOMAIN list PROVE i \in lasts
        BY <1>1 DEF ToSet
    <2>1. ASSUME NEW j \in DOMAIN list, Key(kind, list[j]) = Key(kind, list[i]) PROVE j <= i
        <3>1. j = i
            BY <1>5, <2>1 DEF UniqueKeys
        <3> QED
            BY <3>1, <1>0
    <2> QED
        BY <2>1
<1> QED
    BY <1>2, <1>3, <1>4, <1>5

\* What a compareX call appends, if it alters the objects in pairs.
EntriesOf(kind, olds, news, pairs) ==
    Drops(kind, olds, news) \cup (Creates(kind, olds, news) \cup Alters(pairs))

LEMMA SharedPairs ==
    ASSUME NEW kind, NEW olds, NEW news, NEW p \in Shared(kind, olds, news)
    PROVE  /\ p[1] \in Indexed(kind, olds) /\ p[2] \in Indexed(kind, news)
           /\ Key(kind, p[1]) = Key(kind, p[2])
           /\ p = <<p[1], p[2]>>
BY DEF Shared

LEMMA FiniteEntries ==
    ASSUME NEW kind, NEW olds, NEW news, IsList(olds), IsList(news),
           NEW pairs \in SUBSET Shared(kind, olds, news)
    PROVE  /\ IsFiniteSet(Drops(kind, olds, news))
           /\ IsFiniteSet(Creates(kind, olds, news) \cup Alters(pairs))
<1> DEFINE X == Indexed(kind, olds)
           Y == Indexed(kind, news)
           dropped == {o \in X : \A n \in Y : Key(kind, n) # Key(kind, o)}
           created == {n \in Y : \A o \in X : Key(kind, n) # Key(kind, o)}
<1>1. IsFiniteSet(X) /\ IsFiniteSet(Y)
    BY IndexedFacts
<1>2. IsFiniteSet(Drops(kind, olds, news))
    <2> DEFINE f == [o \in dropped |-> Entry("DROP", {o}, {})]
    <2>1. dropped \in SUBSET X
        OBVIOUS
    <2>2. IsFiniteSet(dropped)
        BY <1>1, <2>1, FS_Subset
    <2>3. IsFiniteSet({f[o] : o \in DOMAIN f})
        <3>1. IsFiniteSet(DOMAIN f)
            BY <2>2
        <3> HIDE DEF f
        <3> QED
            BY <3>1, FiniteImage
    <2>4. Drops(kind, olds, news) = {f[o] : o \in DOMAIN f}
        BY DEF Drops
    <2> QED
        BY <2>3, <2>4
<1>3. IsFiniteSet(Creates(kind, olds, news))
    <2> DEFINE f == [n \in created |-> Entry("CREATE", {}, {n})]
    <2>1. created \in SUBSET Y
        OBVIOUS
    <2>2. IsFiniteSet(created)
        BY <1>1, <2>1, FS_Subset
    <2>3. IsFiniteSet({f[n] : n \in DOMAIN f})
        <3>1. IsFiniteSet(DOMAIN f)
            BY <2>2
        <3> HIDE DEF f
        <3> QED
            BY <3>1, FiniteImage
    <2>4. Creates(kind, olds, news) = {f[n] : n \in DOMAIN f}
        BY DEF Creates
    <2> QED
        BY <2>3, <2>4
<1>4. IsFiniteSet(Alters(pairs))
    <2> DEFINE f == [p \in pairs |-> Entry("ALTER", {p[1]}, {p[2]})]
    <2>1. pairs \in SUBSET (X \X Y)
        BY DEF Shared
    <2>2. IsFiniteSet(X \X Y)
        BY <1>1, FS_Product
    <2>3. IsFiniteSet(pairs)
        BY <2>1, <2>2, FS_Subset
    <2>4. IsFiniteSet({f[p] : p \in DOMAIN f})
        <3>1. IsFiniteSet(DOMAIN f)
            BY <2>3
        <3> HIDE DEF f
        <3> QED
            BY <3>1, FiniteImage
    <2>5. Alters(pairs) = {f[p] : p \in DOMAIN f}
        BY DEF Alters
    <2> QED
        BY <2>4, <2>5
<1> QED
    BY <1>2, <1>3, <1>4, FS_Union

\* No two entries of one list are about objects with one key.
OneEach(kind, entries) ==
    \A d, e \in entries : \A o \in d.was \cup d.is, n \in e.was \cup e.is :
        Key(kind, o) = Key(kind, n) => d = e

LEMMA OneKeyOneEntry ==
    ASSUME NEW kind, NEW olds, NEW news, IsList(olds), IsList(news),
           NEW pairs \in SUBSET Shared(kind, olds, news)
    PROVE  OneEach(kind, EntriesOf(kind, olds, news, pairs))
<1> SUFFICES ASSUME NEW d \in EntriesOf(kind, olds, news, pairs),
                    NEW e \in EntriesOf(kind, olds, news, pairs),
                    NEW o \in d.was \cup d.is, NEW n \in e.was \cup e.is,
                    Key(kind, o) = Key(kind, n)
             PROVE  d = e
    BY DEF OneEach
<1> DEFINE X == Indexed(kind, olds)
           Y == Indexed(kind, news)
           Dropped(f, x) == f = Entry("DROP", {x}, {}) /\ \A y \in Y : Key(kind, y) # Key(kind, x)
           Created(f, y) == f = Entry("CREATE", {}, {y}) /\ \A x \in X : Key(kind, y) # Key(kind, x)
           Altered(f, x, y) == f = Entry("ALTER", {x}, {y}) /\ Key(kind, x) = Key(kind, y)
<1>1. \A x, y \in X : Key(kind, x) = Key(kind, y) => x = y
    BY IndexedFacts
<1>2. \A x, y \in Y : Key(kind, x) = Key(kind, y) => x = y
    BY IndexedFacts
<1>3. ASSUME NEW f \in EntriesOf(kind, olds, news, pairs), NEW x \in f.was \cup f.is
      PROVE  \/ x \in X /\ Dropped(f, x)
             \/ x \in Y /\ Created(f, x)
             \/ \E z \in X, y \in Y : Altered(f, z, y) /\ Key(kind, x) = Key(kind, z)
    <2>1. CASE \E z \in X : f = Entry("DROP", {z}, {}) /\ \A y \in Y : Key(kind, y) # Key(kind, z)
        BY <2>1 DEF Entry
    <2>2. CASE \E y \in Y : f = Entry("CREATE", {}, {y}) /\ \A z \in X : Key(kind, y) # Key(kind, z)
        BY <2>2 DEF Entry
    <2>3. CASE \E p \in pairs : f = Entry("ALTER", {p[1]}, {p[2]})
        <3>1. PICK p \in pairs : f = Entry("ALTER", {p[1]}, {p[2]})
            BY <2>3
        <3>2. p[1] \in X /\ p[2] \in Y /\ Key(kind, p[1]) = Key(kind, p[2])
            BY SharedPairs
        <3>3. x = p[1] \/ x = p[2]
            BY <3>1 DEF Entry
        <3>4. Altered(f, p[1], p[2]) /\ Key(kind, x) = Key(kind, p[1])
            BY <3>1, <3>2, <3>3
        <3> QED
            BY <3>2, <3>4
    <2>4. \/ \E z \in X : f = Entry("DROP", {z}, {}) /\ \A y \in Y : Key(kind, y) # Key(kind, z)
          \/ \E y \in Y : f = Entry("CREATE", {}, {y}) /\ \A z \in X : Key(kind, y) # Key(kind, z)
          \/ \E p \in pairs : f = Entry("ALTER", {p[1]}, {p[2]})
        BY <1>3, Zenon DEF EntriesOf, Drops, Creates, Alters
    <2> HIDE DEF X, Y, Dropped, Created, Altered
    <2> QED
        BY <2>1, <2>2, <2>3, <2>4, Zenon
<1>4. /\ \/ o \in X /\ Dropped(d, o)
         \/ o \in Y /\ Created(d, o)
         \/ \E z \in X, y \in Y : Altered(d, z, y) /\ Key(kind, o) = Key(kind, z)
      /\ \/ n \in X /\ Dropped(e, n)
         \/ n \in Y /\ Created(e, n)
         \/ \E z \in X, y \in Y : Altered(e, z, y) /\ Key(kind, n) = Key(kind, z)
    <2> HIDE DEF X, Y, Dropped, Created, Altered
    <2> QED
        BY <1>3
<1>5. CASE o \in X /\ Dropped(d, o)
    BY <1>5, <1>4, <1>1
<1>6. CASE o \in Y /\ Created(d, o)
    BY <1>6, <1>4, <1>2
<1>7. CASE \E z \in X, y \in Y : Altered(d, z, y) /\ Key(kind, o) = Key(kind, z)
    BY <1>7, <1>4, <1>1, <1>2
<1> QED
    BY <1>4, <1>5, <1>6, <1>7

\* Applying the entries puts what is compared of the new list in place of what is compared
\* of the old one, when only objects that are equal stay without an entry.
LEMMA ListReconciles ==
    ASSUME NEW kind, NEW olds, NEW news, IsList(olds), IsList(news),
           NEW pairs \in SUBSET Shared(kind, olds, news),
           \A p \in Shared(kind, olds, news) \ pairs : p[1] = p[2],
           NEW entries, entries = EntriesOf(kind, olds, news, pairs)
    PROVE  (ToSet(olds) \ WasIn(entries)) \cup IsIn(entries)
                = Indexed(kind, news) \cup (ToSet(olds) \ Indexed(kind, olds))
<1> DEFINE X == Indexed(kind, olds)
           Y == Indexed(kind, news)
<1>1. X \subseteq ToSet(olds)
    BY IndexedFacts
<1>2. \A x, y \in Y : Key(kind, x) = Key(kind, y) => x = y
    BY IndexedFacts
<1>3. ASSUME NEW o, NEW n
      PROVE  <<o, n>> \in Shared(kind, olds, news) <=> o \in X /\ n \in Y /\ Key(kind, o) = Key(kind, n)
    BY DEF Shared
<1>4. ASSUME NEW o
      PROVE  o \in WasIn(entries) <=>
                \/ o \in X /\ \A n \in Y : Key(kind, n) # Key(kind, o)
                \/ \E p \in pairs : o = p[1]
    <2>1. o \in WasIn(entries) <=> \E e \in entries : o \in e.was
        BY DEF WasIn
    <2>2. ASSUME NEW e \in entries, o \in e.was
          PROVE  (o \in X /\ \A n \in Y : Key(kind, n) # Key(kind, o)) \/ (\E p \in pairs : o = p[1])
        <3>1. \A e0 \in Creates(kind, olds, news) : e0.was = {}
            BY DEF Creates, Entry
        <3>2. CASE e \in Drops(kind, olds, news)
            BY <2>2, <3>2 DEF Drops, Entry
        <3>3. CASE e \in Alters(pairs)
            BY <2>2, <3>3 DEF Alters, Entry
        <3> QED
            BY <2>2, <3>1, <3>2, <3>3 DEF EntriesOf
    <2>3. ASSUME (o \in X /\ \A n \in Y : Key(kind, n) # Key(kind, o)) PROVE \E e \in entries : o \in e.was
        <3>1. Entry("DROP", {o}, {}) \in Drops(kind, olds, news)
            BY <2>3 DEF Drops
        <3>2. o \in Entry("DROP", {o}, {}).was
            BY DEF Entry
        <3> QED
            BY <3>1, <3>2 DEF EntriesOf
    <2>4. ASSUME NEW p \in pairs, o = p[1] PROVE \E e \in entries : o \in e.was
        <3>1. Entry("ALTER", {p[1]}, {p[2]}) \in Alters(pairs)
            BY DEF Alters
        <3>2. o \in Entry("ALTER", {p[1]}, {p[2]}).was
            BY <2>4 DEF Entry
        <3> QED
            BY <3>1, <3>2 DEF EntriesOf
    <2> QED
        BY <2>1, <2>2, <2>3, <2>4
<1>5. ASSUME NEW n
      PROVE  n \in IsIn(entries) <=>
                \/ n \in Y /\ \A o \in X : Key(kind, n) # Key(kind, o)
                \/ \E p \in pairs : n = p[2]
    <2>1. n \in IsIn(entries) <=> \E e \in entries : n \in e.is
        BY DEF IsIn
    <2>2. ASSUME NEW e \in entries, n \in e.is
          PROVE  (n \in Y /\ \A o \in X : Key(kind, n) # Key(kind, o)) \/ (\E p \in pairs : n = p[2])
        <3>1. \A e0 \in Drops(kind, olds, news) : e0.is = {}
            BY DEF Drops, Entry
        <3>2. CASE e \in Creates(kind, olds, news)
            BY <2>2, <3>2 DEF Creates, Entry
        <3>3. CASE e \in Alters(pairs)
            BY <2>2, <3>3 DEF Alters, Entry
        <3> QED
            BY <2>2, <3>1, <3>2, <3>3 DEF EntriesOf
    <2>3. ASSUME (n \in Y /\ \A o \in X : Key(kind, n) # Key(kind, o)) PROVE \E e \in entries : n \in e.is
        <3>1. Entry("CREATE", {}, {n}) \in Creates(kind, olds, news)
            BY <2>3 DEF Creates
        <3>2. n \in Entry("CREATE", {}, {n}).is
            BY DEF Entry
        <3> QED
            BY <3>1, <3>2 DEF EntriesOf
    <2>4. ASSUME NEW p \in pairs, n = p[2] PROVE \E e \in entries : n \in e.is
        <3>1. Entry("ALTER", {p[1]}, {p[2]}) \in Alters(pairs)
            BY DEF Alters
        <3>2. n \in Entry("ALTER", {p[1]}, {p[2]}).is
            BY <2>4 DEF Entry
        <3> QED
            BY <3>1, <3>2 DEF EntriesOf
    <2> QED
        BY <2>1, <2>2, <2>3, <2>4
<1>6. \A p \in pairs : p[1] \in X /\ p[2] \in Y /\ Key(kind, p[1]) = Key(kind, p[2])
                        /\ p = <<p[1], p[2]>>
    BY SharedPairs
<1>7. ASSUME NEW o \in X, o \notin WasIn(entries) PROVE o \in Y
    <2>1. PICK n \in Y : Key(kind, n) = Key(kind, o)
        BY <1>4, <1>7
    <2>2. <<o, n>> \in Shared(kind, olds, news) \ pairs
        BY <2>1, <1>3, <1>4, <1>7
    <2>3. o = n
        BY <2>2
    <2> QED
        BY <2>1, <2>3
<1>8. IsIn(entries) \subseteq Y
    BY <1>5, <1>6
<1>9. ASSUME NEW n \in Y, n \notin IsIn(entries) PROVE n \in X /\ n \notin WasIn(entries)
    <2>1. PICK o \in X : Key(kind, n) = Key(kind, o)
        BY <1>5, <1>9
    <2>2. <<o, n>> \in Shared(kind, olds, news) \ pairs
        BY <2>1, <1>3, <1>5, <1>9
    <2>3. o = n
        BY <2>2
    <2>4. ASSUME NEW p \in pairs, n = p[1] PROVE FALSE
        <3>1. p[2] = n
            BY <2>4, <1>2, <1>6
        <3>2. p = <<o, n>>
            BY <2>3, <2>4, <3>1, <1>6
        <3> QED
            BY <3>2, <2>2
    <2> QED
        BY <2>1, <2>3, <2>4, <1>4
<1>10. WasIn(entries) \subseteq X
    BY <1>4, <1>6
<1> HIDE DEF X, Y
<1> DEFINE A == ToSet(olds)
<1> HIDE DEF A
<1>11. (A \ WasIn(entries)) \cup IsIn(entries) = Y \cup (A \ X)
    <2>1. X \subseteq A
        BY <1>1 DEF A
    <2> QED
        BY <1>7, <1>8, <1>9, <1>10, <2>1
<1> QED
    BY <1>11 DEF X, Y, A

\* Lists of which the same objects are compared give no entry, when only objects that
\* differ are altered.
LEMMA SameListsNoEntries ==
    ASSUME NEW kind, NEW olds, NEW news, IsList(olds), IsList(news),
           Indexed(kind, olds) = Indexed(kind, news),
           NEW pairs \in SUBSET Shared(kind, olds, news),
           \A p \in pairs : p[1] # p[2]
    PROVE  EntriesOf(kind, olds, news, pairs) = {}
<1>2. pairs = {}
    BY SharedPairs, IndexedFacts
<1>3. Drops(kind, olds, news) = {} /\ Creates(kind, olds, news) = {}
    BY DEF Drops, Creates
<1>4. Alters({}) = {}
    BY DEF Alters
<1> QED
    BY <1>2, <1>3, <1>4 DEF EntriesOf

\* And without an entry the same objects are compared.
LEMMA NoEntriesSameLists ==
    ASSUME NEW kind, NEW olds, NEW news,
           NEW pairs \in SUBSET Shared(kind, olds, news),
           \A p \in Shared(kind, olds, news) \ pairs : p[1] = p[2],
           EntriesOf(kind, olds, news, pairs) = {}
    PROVE  Indexed(kind, olds) = Indexed(kind, news)
<1> DEFINE X == Indexed(kind, olds)
           Y == Indexed(kind, news)
<1>1. Drops(kind, olds, news) = {} /\ Creates(kind, olds, news) = {} /\ Alters(pairs) = {}
    BY DEF EntriesOf
<1>2. pairs = {}
    <2> SUFFICES ASSUME NEW p \in pairs PROVE FALSE
        OBVIOUS
    <2>1. Entry("ALTER", {p[1]}, {p[2]}) \in Alters(pairs)
        BY DEF Alters
    <2> QED
        BY <1>1, <2>1
<1>3. ASSUME NEW x \in X, NEW y \in Y, Key(kind, x) = Key(kind, y) PROVE x = y
    <2> DEFINE p == <<x, y>>
    <2>1. p \in Shared(kind, olds, news) /\ p[1] = x /\ p[2] = y
        BY <1>3 DEF Shared
    <2> HIDE DEF p
    <2> QED
        BY <1>2, <2>1
<1>4. ASSUME NEW x \in X PROVE \E y \in Y : Key(kind, y) = Key(kind, x)
    <2> SUFFICES ASSUME \A y \in Y : Key(kind, y) # Key(kind, x) PROVE FALSE
        OBVIOUS
    <2>1. Entry("DROP", {x}, {}) \in Drops(kind, olds, news)
        BY DEF Drops
    <2> QED
        BY <1>1, <2>1
<1>5. ASSUME NEW y \in Y PROVE \E x \in X : Key(kind, y) = Key(kind, x)
    <2> SUFFICES ASSUME \A x \in X : Key(kind, y) # Key(kind, x) PROVE FALSE
        OBVIOUS
    <2>1. Entry("CREATE", {}, {y}) \in Creates(kind, olds, news)
        BY DEF Creates
    <2> QED
        BY <1>1, <2>1
<1> HIDE DEF X, Y
<1>6. X = Y
    BY <1>3, <1>4, <1>5
<1> QED
    BY <1>6 DEF X, Y

LEMMA NoEntriesNoChange == WasIn({}) = {} /\ IsIn({}) = {}
BY DEF WasIn, IsIn

(***************************************************************************)
(* Tables: the lists of a TableDiff.                                       *)
(***************************************************************************)
Content(t) == [name |-> t.name, parts |-> [p \in TableParts |-> ToSet(t.parts[p])],
               props |-> Ignoring(t.props)]

\* The pairs of parts that are altered.
ChangedParts(o, n, part) ==
    {p \in Shared(part, o.parts[part], n.parts[part]) : PartChanged(part, p[1], p[2])}

LEMMA PartsOfTables ==
    ASSUME NEW o, NEW n, IsTable(o), IsTable(n), NEW part \in TableParts
    PROVE  /\ (ToSet(o.parts[part]) \ WasIn(PartDiffs(o, n, part)))
                    \cup IsIn(PartDiffs(o, n, part)) = ToSet(n.parts[part])
           /\ (PartDiffs(o, n, part) = {}) <=> (ToSet(o.parts[part]) = ToSet(n.parts[part]))
<1> DEFINE olds == o.parts[part]
           news == n.parts[part]
           pairs == ChangedParts(o, n, part)
<1>1. /\ IsList(olds) /\ UniqueKeys(part, olds) /\ \A x \in ToSet(olds) : IsPart(part, x)
      /\ IsList(news) /\ UniqueKeys(part, news) /\ \A x \in ToSet(news) : IsPart(part, x)
    BY DEF IsTable
<1>2. PartDiffs(o, n, part) = EntriesOf(part, olds, news, pairs)
    BY DEF PartDiffs, EntriesOf, ChangedParts
<1>3. part # "function"
    BY DEF TableParts
<1>4. ASSUME NEW p \in Shared(part, olds, news)
      PROVE  p[1] = p[2] <=> ~PartChanged(part, p[1], p[2])
    <2>1. /\ p[1] \in ToSet(olds) /\ p[2] \in ToSet(news)
          /\ Key(part, p[1]) = Key(part, p[2])
        BY <1>1, SharedPairs, IndexedFacts
    <2>2. p[1].name = p[2].name
        BY <2>1, <1>3 DEF Key, ByName
    <2>3. IsPart(part, p[1]) /\ IsPart(part, p[2])
        BY <2>1, <1>1
    <2> QED
        BY <2>2, <2>3 DEF IsPart, PartChanged, DefChanged, RoleOrDefChanged
<1>5. pairs \in SUBSET Shared(part, olds, news)
    BY DEF ChangedParts
<1>6. /\ \A p \in Shared(part, olds, news) \ pairs : p[1] = p[2]
      /\ \A p \in pairs : p[1] # p[2]
    BY <1>4 DEF ChangedParts
<1> HIDE DEF olds, news, pairs
<1>0. Indexed(part, olds) = ToSet(olds) /\ Indexed(part, news) = ToSet(news)
    BY <1>1, IndexedFacts
<1>7. (ToSet(olds) \ WasIn(PartDiffs(o, n, part))) \cup IsIn(PartDiffs(o, n, part)) = ToSet(news)
    <2>1. (ToSet(olds) \ WasIn(PartDiffs(o, n, part))) \cup IsIn(PartDiffs(o, n, part))
                = Indexed(part, news) \cup (ToSet(olds) \ Indexed(part, olds))
        BY <1>1, <1>2, <1>5, <1>6, ListReconciles
    <2> QED
        BY <1>0, <2>1
<1>8. ASSUME PartDiffs(o, n, part) = {} PROVE ToSet(olds) = ToSet(news)
    BY <1>7, <1>8, NoEntriesNoChange
<1>9. ASSUME ToSet(olds) = ToSet(news) PROVE PartDiffs(o, n, part) = {}
    BY <1>0, <1>1, <1>2, <1>5, <1>6, <1>9, SameListsNoEntries
<1> QED
    BY <1>7, <1>8, <1>9 DEF olds, news

LEMMA Roles ==
    ASSUME NEW entries
    PROVE  OfRole(entries, "") \cup OfRole(entries, "primary") \cup OfRole(entries, "unique") = entries
BY DEF OfRole

\* The lists of a TableDiff together hold the entries of each part.
LEMMA ListsOfTableDiff ==
    ASSUME NEW o, NEW n, NEW d, d = TableDiff(o, n)
    PROVE  /\ d.columns = PartDiffs(o, n, "columns")
           /\ d.indexes \cup d.pk \cup d.unique = PartDiffs(o, n, "indexes")
           /\ d.fks = PartDiffs(o, n, "fks")
           /\ d.checks = PartDiffs(o, n, "checks")
           /\ d.triggers = PartDiffs(o, n, "triggers")
           /\ d.partitions = PartDiffs(o, n, "partitions")
           /\ d.rules = PartDiffs(o, n, "rules")
           /\ d.props = {p \in DOMAIN o.props \ ignored : o.props[p] # n.props[p]}
<1> DEFINE entries == PartDiffs(o, n, "indexes")
<1>1. d.indexes = OfRole(entries, "") /\ d.pk = OfRole(entries, "primary")
        /\ d.unique = OfRole(entries, "unique")
    BY DEF TableDiff, IndexDiffs
<1>2. d.indexes \cup d.pk \cup d.unique = entries
    BY <1>1, Roles
<1>3. /\ d.columns = PartDiffs(o, n, "columns")
      /\ d.fks = PartDiffs(o, n, "fks")
      /\ d.checks = PartDiffs(o, n, "checks")
      /\ d.triggers = PartDiffs(o, n, "triggers")
      /\ d.partitions = PartDiffs(o, n, "partitions")
      /\ d.rules = PartDiffs(o, n, "rules")
      /\ d.props = {p \in DOMAIN o.props \ ignored : o.props[p] # n.props[p]}
    BY DEF TableDiff, ColumnDiffs, ForeignKeyDiffs, CheckDiffs, TriggerDiffs, PartitionDiffs, RuleDiffs
<1> QED
    BY <1>2, <1>3

LEMMA AppliedTable ==
    ASSUME NEW o, NEW n, IsTable(o), IsTable(n), o.name = n.name
    PROVE  Applied(o, n) = Content(n)
<1> DEFINE d == TableDiff(o, n)
           entries == [columns |-> d.columns, indexes |-> d.indexes \cup d.pk \cup d.unique,
                       fks |-> d.fks, checks |-> d.checks, triggers |-> d.triggers,
                       partitions |-> d.partitions, rules |-> d.rules]
           parts == [p \in TableParts |->
                        (ToSet(o.parts[p]) \ WasIn(entries[p])) \cup IsIn(entries[p])]
           props == [p \in DOMAIN o.props \ ignored |->
                        IF p \in d.props THEN n.props[p] ELSE o.props[p]]
<1>1. Applied(o, n) = [name |-> o.name, parts |-> parts, props |-> props]
    BY DEF Applied
<1>2. ASSUME NEW p \in TableParts PROVE entries[p] = PartDiffs(o, n, p)
    <2>1. d = TableDiff(o, n)
        OBVIOUS
    <2> HIDE DEF d
    <2>2. /\ d.columns = PartDiffs(o, n, "columns")
          /\ d.indexes \cup d.pk \cup d.unique = PartDiffs(o, n, "indexes")
          /\ d.fks = PartDiffs(o, n, "fks")
          /\ d.checks = PartDiffs(o, n, "checks")
          /\ d.triggers = PartDiffs(o, n, "triggers")
          /\ d.partitions = PartDiffs(o, n, "partitions")
          /\ d.rules = PartDiffs(o, n, "rules")
        BY <2>1, ListsOfTableDiff
    <2>3. /\ entries["columns"] = d.columns
          /\ entries["indexes"] = d.indexes \cup d.pk \cup d.unique
          /\ entries["fks"] = d.fks /\ entries["checks"] = d.checks
          /\ entries["triggers"] = d.triggers /\ entries["partitions"] = d.partitions
          /\ entries["rules"] = d.rules
        OBVIOUS
    <2> HIDE DEF entries
    <2> QED
        BY <2>2, <2>3 DEF TableParts
<1>3. parts = [p \in TableParts |-> ToSet(n.parts[p])]
    <2>1. ASSUME NEW p \in TableParts
          PROVE  (ToSet(o.parts[p]) \ WasIn(entries[p])) \cup IsIn(entries[p]) = ToSet(n.parts[p])
        <3>1. entries[p] = PartDiffs(o, n, p)
            BY <1>2
        <3> HIDE DEF entries
        <3> QED
            BY <3>1, PartsOfTables
    <2> HIDE DEF entries
    <2> QED
        BY <2>1
<1>4. props = Ignoring(n.props)
    <2>1. d.props = {p \in DOMAIN o.props \ ignored : o.props[p] # n.props[p]}
        BY DEF TableDiff
    <2>2. DOMAIN o.props = DOMAIN n.props
        BY DEF IsTable
    <2> HIDE DEF d
    <2> QED
        BY <2>1, <2>2 DEF Ignoring
<1> HIDE DEF parts, props
<1> QED
    BY <1>1, <1>3, <1>4 DEF Content

LEMMA ChangesOfTable ==
    ASSUME NEW o, NEW n, IsTable(o), IsTable(n), o.name = n.name
    PROVE  HasChanges(o, n) <=> Content(o) # Content(n)
<1> DEFINE d == TableDiff(o, n)
           lists == {"columns", "indexes", "pk", "unique", "fks", "checks", "triggers",
                     "partitions", "rules", "props"}
<1>1. DOMAIN d = lists
    BY DEF TableDiff
<1>2. HasChanges(o, n) <=> \E list \in lists : d[list] # {}
    BY <1>1 DEF HasChanges
<1> HIDE DEF d
<1>3. /\ d.columns = PartDiffs(o, n, "columns")
      /\ d.indexes \cup d.pk \cup d.unique = PartDiffs(o, n, "indexes")
      /\ d.fks = PartDiffs(o, n, "fks")
      /\ d.checks = PartDiffs(o, n, "checks")
      /\ d.triggers = PartDiffs(o, n, "triggers")
      /\ d.partitions = PartDiffs(o, n, "partitions")
      /\ d.rules = PartDiffs(o, n, "rules")
      /\ d.props = {p \in DOMAIN o.props \ ignored : o.props[p] # n.props[p]}
    <2>1. d = TableDiff(o, n)
        BY DEF d
    <2> QED
        BY <2>1, ListsOfTableDiff
<1>4. (\A list \in lists : d[list] = {}) <=>
        (d.props = {} /\ \A p \in TableParts : PartDiffs(o, n, p) = {})
    BY <1>3 DEF TableParts
<1>5. (\A p \in TableParts : PartDiffs(o, n, p) = {}) <=>
        (\A p \in TableParts : ToSet(o.parts[p]) = ToSet(n.parts[p]))
    BY PartsOfTables
<1>6. (d.props = {}) <=> (Ignoring(o.props) = Ignoring(n.props))
    <2>1. DOMAIN o.props = DOMAIN n.props
        BY DEF IsTable
    <2>2. ASSUME d.props = {} PROVE Ignoring(o.props) = Ignoring(n.props)
        BY <1>3, <2>1, <2>2 DEF Ignoring
    <2>3. ASSUME Ignoring(o.props) = Ignoring(n.props), NEW p \in DOMAIN o.props \ ignored
          PROVE  o.props[p] = n.props[p]
        <3>1. Ignoring(o.props)[p] = Ignoring(n.props)[p]
            BY <2>3
        <3> QED
            BY <3>1, <2>1 DEF Ignoring
    <2> QED
        BY <1>3, <2>2, <2>3
<1>7. (\A p \in TableParts : ToSet(o.parts[p]) = ToSet(n.parts[p])) <=>
        ([p \in TableParts |-> ToSet(o.parts[p])] = [p \in TableParts |-> ToSet(n.parts[p])])
    <2> DEFINE f == [p \in TableParts |-> ToSet(o.parts[p])]
               g == [p \in TableParts |-> ToSet(n.parts[p])]
    <2>1. ASSUME f = g, NEW p \in TableParts PROVE ToSet(o.parts[p]) = ToSet(n.parts[p])
        <3>1. f[p] = g[p]
            BY <2>1
        <3> QED
            BY <3>1
    <2> QED
        BY <2>1
<1>8. (Content(o) = Content(n)) <=>
        /\ [p \in TableParts |-> ToSet(o.parts[p])] = [p \in TableParts |-> ToSet(n.parts[p])]
        /\ Ignoring(o.props) = Ignoring(n.props)
    BY DEF Content
<1> QED
    BY <1>2, <1>4, <1>5, <1>6, <1>7, <1>8, Zenon

(***************************************************************************)
(* The inductive invariant: the databases are as the extractors deliver    *)
(* them, and at each point the result holds exactly the entries of the     *)
(* calls made so far.                                                      *)
(***************************************************************************)
InputInv ==
    /\ IsDatabase(old) /\ IsDatabase(new)
    /\ ignored \subseteq IgnorableProps
    /\ \A i \in DOMAIN old, j \in DOMAIN new : \A k \in ToSet(ObjectKinds) \ {"table", "function"} :
            DefinitionsTellArguments(old[i].lists[k], new[j].lists[k])

LoopInv ==
    /\ phase \in {"dropped", "created", "shared", "new", "sort", "done"}
    /\ at \in Nat /\ at >= 1
    /\ at <= (IF phase \in {"dropped", "shared"} THEN Len(old) ELSE Len(new)) + 1
    /\ stage \in 1..9
    /\ stage # 1 => phase = "shared" /\ at <= Len(old)
    /\ DOMAIN mdiff = Kinds
    /\ \A k \in Kinds : IsList(mdiff[k])

\* The pairs of schemas compared so far in the objects of a kind, and the new schemas
\* added.
Reached(k) ==
    {i \in DOMAIN old :
        \/ phase \in {"new", "sort", "done"}
        \/ phase = "shared" /\ (i < at \/ (i = at /\ \E j \in 1..stage - 1 : ObjectKinds[j] = k))}
Compared(k) ==
    {p \in {old[i] : i \in Reached(k)} \X ToSet(new) : p[1].name = p[2].name}
Added ==
    {new[i] : i \in {i \in DOMAIN new :
        /\ Found(old, new[i].name) = {}
        /\ phase \in {"sort", "done"} \/ (phase = "new" /\ i < at)}}

\* What is altered of two lists, the entries of a compareX call, and of a new schema.
AlteredIn(k, olds, news) == {p \in Shared(k, olds, news) : Changed(k, p[1], p[2])}
CallEntries(k, o, n) ==
    {Placed(SchemaNamed(k, o), e) :
        e \in EntriesOf(k, o.lists[k], n.lists[k], AlteredIn(k, o.lists[k], n.lists[k]))}
TableEntries(n) == {Placed(n.name, Entry("CREATE", {}, {t})) : t \in ToSet(n.lists["table"])}

Reported(k) ==
    (UNION {CallEntries(k, p[1], p[2]) : p \in Compared(k)})
        \cup (UNION {TableEntries(n) : n \in {n \in Added : k = "table"}})
ReportInv == \A k \in ToSet(ObjectKinds) : ToSet(mdiff[k]) = Reported(k)

Unmatched(db, other) == {i \in DOMAIN db : Found(other, db[i].name) = {}}
SchemaReports ==
    {Placed(old[i].name, Entry("DROP", {}, {})) :
        i \in {i \in Unmatched(old, new) : phase # "dropped" \/ i < at}}
    \cup {Placed(new[i].name, Entry("CREATE", {}, {})) :
        i \in {i \in Unmatched(new, old) :
                    phase \notin {"dropped", "created"} \/ (phase = "created" /\ i < at)}}
SchemaInv == ToSet(mdiff["schema"]) = SchemaReports

IInv == InputInv /\ LoopInv /\ ReportInv /\ SchemaInv /\ OneEntryPerObject /\ TableOrderIsDetermined

(***************************************************************************)
(* Facts about the invariant that every step needs.                        *)
(***************************************************************************)
LEMMA KindFacts ==
    /\ Len(ObjectKinds) = 9 /\ DOMAIN ObjectKinds = 1..9
    /\ ToSet(ObjectKinds) = {"table", "view", "mview", "function", "procedure",
                             "sequence", "enum", "event", "extension"}
    /\ Kinds = ToSet(ObjectKinds) \cup {"schema"} /\ "schema" \notin ToSet(ObjectKinds)
    /\ \A i, j \in 1..9 : ObjectKinds[i] = ObjectKinds[j] => i = j
    /\ \A i \in 1..9 : ObjectKinds[i] \in ToSet(ObjectKinds)
<1>1. Len(ObjectKinds) = 9 /\ DOMAIN ObjectKinds = 1..9
    BY DEF ObjectKinds
<1>2. /\ ObjectKinds[1] = "table" /\ ObjectKinds[2] = "view" /\ ObjectKinds[3] = "mview"
      /\ ObjectKinds[4] = "function" /\ ObjectKinds[5] = "procedure"
      /\ ObjectKinds[6] = "sequence" /\ ObjectKinds[7] = "enum"
      /\ ObjectKinds[8] = "event" /\ ObjectKinds[9] = "extension"
    BY DEF ObjectKinds
<1>3. 1..9 = {1, 2, 3, 4, 5, 6, 7, 8, 9}
    OBVIOUS
<1>4. ToSet(ObjectKinds) = {"table", "view", "mview", "function", "procedure",
                            "sequence", "enum", "event", "extension"}
    BY <1>1, <1>2, <1>3 DEF ToSet
<1> QED
    BY <1>1, <1>2, <1>3, <1>4 DEF Kinds

\* The comparison of two schemas depends on no variable that changes.
LEMMA SameCall ==
    ASSUME ignored' = ignored, NEW k, NEW o, NEW n
    PROVE  CallEntries(k, o, n)' = CallEntries(k, o, n)
BY DEF CallEntries, AlteredIn, Changed, HasChanges, TableDiff

\* The schema that the entries carry.
LEMMA EntrySchemas ==
    /\ \A k, o, n : \A e \in CallEntries(k, o, n) : e.schema = SchemaNamed(k, o)
    /\ \A n : \A e \in TableEntries(n) : e.schema = n.name
<1>1. \A schema, e : Placed(schema, e).schema = schema
    BY DEF Placed
<1> QED
    BY <1>1 DEF CallEntries, TableEntries

LEMMA InputStays ==
    ASSUME InputInv, UNCHANGED <<old, new, ignored>>
    PROVE  InputInv'
BY DEF InputInv

\* While nothing is compared and nothing added, nothing new is reported.
LEMMA ReportStays ==
    ASSUME UNCHANGED <<old, new, ignored>>, NEW k, Compared(k)' = Compared(k), Added' = Added
    PROVE  Reported(k)' = Reported(k)
BY SameCall DEF Reported

\* A database is a list, each schema of which is in its set.
LEMMA DatabaseFacts ==
    ASSUME NEW db, IsDatabase(db)
    PROVE  /\ IsList(db) /\ Len(db) \in Nat /\ DOMAIN db = 1..Len(db)
           /\ \A i \in DOMAIN db : db[i] \in ToSet(db) /\ IsSchema(db[i])
           /\ \A i, j \in DOMAIN db : db[i].name = db[j].name => i = j
           /\ \A s \in ToSet(db) : IsSchema(s) /\ \E i \in DOMAIN db : s = db[i]
<1>1. IsList(db)
    BY DEF IsDatabase
<1>2. Len(db) \in Nat /\ DOMAIN db = 1..Len(db) /\ \A i \in DOMAIN db : db[i] \in ToSet(db)
    BY <1>1, ListFacts
<1>3. /\ \A i \in DOMAIN db : IsSchema(db[i])
      /\ \A i, j \in DOMAIN db : db[i].name = db[j].name => i = j
    BY DEF IsDatabase
<1>4. \A s \in ToSet(db) : \E i \in DOMAIN db : s = db[i]
    BY DEF ToSet
<1> QED
    BY <1>1, <1>2, <1>3, <1>4

LEMMA FoundFacts ==
    ASSUME NEW db, IsDatabase(db), NEW name
    PROVE  /\ Found(db, name) = {s \in ToSet(db) : s.name = name}
           /\ \A s, t \in Found(db, name) : s = t
<1>1. Found(db, name) = {s \in ToSet(db) : s.name = name}
    BY DEF Found, ToSet
<1>2. \A s, t \in Found(db, name) : s = t
    BY <1>1, DatabaseFacts
<1> QED
    BY <1>1, <1>2

\* What is known of the variables.
LEMMA StateFacts ==
    ASSUME IInv
    PROVE  /\ Len(old) \in Nat /\ DOMAIN old = 1..Len(old)
           /\ Len(new) \in Nat /\ DOMAIN new = 1..Len(new)
           /\ at \in Nat /\ at >= 1 /\ stage \in 1..9
           /\ DOMAIN mdiff = Kinds /\ \A k \in Kinds : IsList(mdiff[k])
           /\ "schema" \in Kinds /\ \A k \in ToSet(ObjectKinds) : k \in Kinds /\ k # "schema"
BY DatabaseFacts, KindFacts DEF IInv, InputInv, LoopInv

\* In the loops over schema lists.
LEMMA NothingCompared ==
    ASSUME phase \in {"dropped", "created"}, NEW k
    PROVE  Reported(k) = {} /\ Compared(k) = {} /\ Added = {}
BY DEF Reported, Compared, Reached, Added

LEMMA InitIsInv == Init => IInv
<1> SUFFICES ASSUME Init PROVE IInv
    OBVIOUS
<1>1. PICK input \in Inputs : old = input.old /\ new = input.new /\ ignored = input.ignored
    BY DEF Init
<1>2. phase = "dropped" /\ at = 1 /\ stage = 1
    BY DEF Init
<1>3. InputInv
    BY <1>1, InputsAssumption DEF InputInv
<1>4. DOMAIN mdiff = Kinds /\ \A k \in Kinds : mdiff[k] = <<>>
    BY KindFacts DEF Init
<1>5. Len(old) \in Nat /\ DOMAIN old = 1..Len(old)
    BY <1>3, DatabaseFacts DEF InputInv
<1>6. LoopInv
    BY <1>2, <1>4, <1>5, EmptyList DEF LoopInv
<1>7. ReportInv
    BY <1>2, <1>4, EmptyList, NothingCompared, KindFacts DEF ReportInv
<1>8. SchemaInv
    <2>1. SchemaReports = {}
        BY <1>2, <1>5 DEF SchemaReports, Unmatched
    <2> QED
        BY <2>1, <1>4, EmptyList, KindFacts DEF SchemaInv
<1>9. OneEntryPerObject
    BY <1>4, KindFacts DEF OneEntryPerObject
<1>10. TableOrderIsDetermined
    BY <1>2 DEF TableOrderIsDetermined
<1> QED
    BY <1>3, <1>6, <1>7, <1>8, <1>9, <1>10 DEF IInv

LEMMA AppendedList ==
    ASSUME NEW s, NEW x, IsList(s)
    PROVE  /\ IsList(Append(s, x))
           /\ ToSet(Append(s, x)) = ToSet(s) \cup {x}
           /\ Len(Append(s, x)) = Len(s) + 1
           /\ Append(s, x)[Len(s) + 1] = x
           /\ \A i \in 1..Len(s) : Append(s, x)[i] = s[i]
<1> DEFINE S == ToSet(s) \cup {x}
<1>1. s \in Seq(ToSet(s)) /\ Len(s) \in Nat /\ DOMAIN s = 1..Len(s)
    BY ListFacts DEF IsList
<1>2. s \in Seq(S)
    BY <1>1, SMT
<1>3. /\ Append(s, x) \in Seq(S) /\ Len(Append(s, x)) = Len(s) + 1
      /\ Append(s, x)[Len(s) + 1] = x
      /\ \A i \in 1..Len(s) : Append(s, x)[i] = s[i]
    BY <1>1, <1>2
<1>4. DOMAIN Append(s, x) = 1..Len(s) + 1
    BY <1>3
<1>5. ToSet(Append(s, x)) = S
    <2>1. ToSet(Append(s, x)) \subseteq S
        BY <1>3 DEF ToSet
    <2>2. ASSUME NEW y \in ToSet(s) PROVE y \in ToSet(Append(s, x))
        <3>1. PICK i \in DOMAIN s : y = s[i]
            BY DEF ToSet
        <3>2. i \in DOMAIN Append(s, x) /\ Append(s, x)[i] = y
            BY <3>1, <1>1, <1>3, <1>4
        <3> QED
            BY <3>2 DEF ToSet
    <2>3. x \in ToSet(Append(s, x))
        <3>1. Len(s) + 1 \in DOMAIN Append(s, x)
            BY <1>1, <1>4
        <3> QED
            BY <3>1, <1>3 DEF ToSet
    <2> QED
        BY <2>1, <2>2, <2>3
<1> QED
    BY <1>3, <1>5 DEF IsList

(***************************************************************************)
(* The steps, one lemma each.                                              *)
(***************************************************************************)
LEMMA DropSchemaKeeps ==
    ASSUME IInv, DropSchema
    PROVE  IInv'
<1> DEFINE x == Placed(old[at].name, Entry("DROP", {}, {}))
           missing == Found(new, old[at].name) = {}
<1>1. /\ phase = "dropped" /\ at <= Len(old) /\ at' = at + 1
      /\ UNCHANGED <<old, new, ignored, phase, stage>>
      /\ mdiff' = IF missing THEN [mdiff EXCEPT !["schema"] = Append(mdiff["schema"], x)] ELSE mdiff
    BY DEF DropSchema, CompareSchema
<1>2. /\ Len(old) \in Nat /\ DOMAIN old = 1..Len(old) /\ at \in 1..Len(old)
      /\ DOMAIN mdiff = Kinds /\ \A k \in Kinds : IsList(mdiff[k])
    BY <1>1, StateFacts
<1>3. /\ DOMAIN mdiff' = Kinds
      /\ mdiff'["schema"] = IF missing THEN Append(mdiff["schema"], x) ELSE mdiff["schema"]
      /\ \A k \in ToSet(ObjectKinds) : mdiff'[k] = mdiff[k]
    BY <1>1, <1>2, KindFacts
<1>4. /\ IsList(mdiff'["schema"])
      /\ ToSet(mdiff'["schema"]) = ToSet(mdiff["schema"]) \cup (IF missing THEN {x} ELSE {})
    BY <1>2, <1>3, KindFacts, AppendedList
<1>5. InputInv'
    BY <1>1, InputStays DEF IInv
<1>6. LoopInv'
    BY <1>1, <1>2, <1>3, <1>4, KindFacts DEF IInv, LoopInv
<1>7. ReportInv'
    <2>1. \A k : Compared(k) = {} /\ Compared(k)' = {} /\ Added = {} /\ Added' = {}
        BY <1>1 DEF Compared, Reached, Added
    <2>2. \A k : Reported(k)' = Reported(k)
        BY <2>1, <1>1, ReportStays
    <2> QED
        BY <2>2, <1>3 DEF ReportInv, IInv
<1>8. SchemaInv'
    <2>1. \A i \in DOMAIN old : i < at + 1 <=> i < at \/ i = at
        BY <1>2
    <2>2. Unmatched(old, new)' = Unmatched(old, new) /\ Unmatched(new, old)' = Unmatched(new, old)
        BY <1>1
    <2>3. SchemaReports' = SchemaReports \cup (IF missing THEN {x} ELSE {})
        BY <2>1, <2>2, <1>1, <1>2 DEF SchemaReports, Unmatched
    <2> QED
        BY <2>3, <1>4 DEF SchemaInv, IInv
<1>9. OneEntryPerObject'
    BY <1>3 DEF OneEntryPerObject, IInv
<1>10. TableOrderIsDetermined'
    BY <1>1 DEF TableOrderIsDetermined
<1> QED
    BY <1>5, <1>6, <1>7, <1>8, <1>9, <1>10 DEF IInv

LEMMA CreateSchemaKeeps ==
    ASSUME IInv, CreateSchema
    PROVE  IInv'
<1> DEFINE x == Placed(new[at].name, Entry("CREATE", {}, {}))
           missing == Found(old, new[at].name) = {}
<1>1. /\ phase = "created" /\ at <= Len(new) /\ at' = at + 1
      /\ UNCHANGED <<old, new, ignored, phase, stage>>
      /\ mdiff' = IF missing THEN [mdiff EXCEPT !["schema"] = Append(mdiff["schema"], x)] ELSE mdiff
    BY DEF CreateSchema, CompareSchema
<1>2. /\ Len(new) \in Nat /\ DOMAIN new = 1..Len(new) /\ at \in 1..Len(new)
      /\ DOMAIN mdiff = Kinds /\ \A k \in Kinds : IsList(mdiff[k])
    BY <1>1, StateFacts
<1>3. /\ DOMAIN mdiff' = Kinds
      /\ mdiff'["schema"] = IF missing THEN Append(mdiff["schema"], x) ELSE mdiff["schema"]
      /\ \A k \in ToSet(ObjectKinds) : mdiff'[k] = mdiff[k]
    BY <1>1, <1>2, KindFacts
<1>4. /\ IsList(mdiff'["schema"])
      /\ ToSet(mdiff'["schema"]) = ToSet(mdiff["schema"]) \cup (IF missing THEN {x} ELSE {})
    BY <1>2, <1>3, KindFacts, AppendedList
<1>5. InputInv'
    BY <1>1, InputStays DEF IInv
<1>6. LoopInv'
    BY <1>1, <1>2, <1>3, <1>4, KindFacts DEF IInv, LoopInv
<1>7. ReportInv'
    <2>1. \A k : Compared(k) = {} /\ Compared(k)' = {} /\ Added = {} /\ Added' = {}
        BY <1>1 DEF Compared, Reached, Added
    <2>2. \A k : Reported(k)' = Reported(k)
        BY <2>1, <1>1, ReportStays
    <2> QED
        BY <2>2, <1>3 DEF ReportInv, IInv
<1>8. SchemaInv'
    <2>1. \A i \in DOMAIN new : i < at + 1 <=> i < at \/ i = at
        BY <1>2
    <2>2. Unmatched(old, new)' = Unmatched(old, new) /\ Unmatched(new, old)' = Unmatched(new, old)
        BY <1>1
    <2>3. SchemaReports' = SchemaReports \cup (IF missing THEN {x} ELSE {})
        BY <2>1, <2>2, <1>1, <1>2 DEF SchemaReports, Unmatched
    <2> QED
        BY <2>3, <1>4 DEF SchemaInv, IInv
<1>9. OneEntryPerObject'
    BY <1>3 DEF OneEntryPerObject, IInv
<1>10. TableOrderIsDetermined'
    BY <1>1 DEF TableOrderIsDetermined
<1> QED
    BY <1>5, <1>6, <1>7, <1>8, <1>9, <1>10 DEF IInv

\* A step that moves on without an entry: what is reported has to stay the same.
LEMMA QuietStep ==
    ASSUME IInv, UNCHANGED <<old, new, ignored, mdiff>>, LoopInv',
           \A k \in ToSet(ObjectKinds) : Reported(k)' = Reported(k),
           SchemaReports' = SchemaReports, phase' # "done"
    PROVE  IInv'
<1>1. InputInv'
    BY InputStays DEF IInv
<1>2. ReportInv' /\ SchemaInv'
    BY DEF IInv, ReportInv, SchemaInv
<1>3. OneEntryPerObject' /\ TableOrderIsDetermined'
    BY DEF IInv, OneEntryPerObject, TableOrderIsDetermined
<1> QED
    BY <1>1, <1>2, <1>3 DEF IInv

LEMMA DroppedDoneKeeps ==
    ASSUME IInv, DroppedDone
    PROVE  IInv'
<1>1. /\ phase = "dropped" /\ at > Len(old) /\ phase' = "created" /\ at' = 1
      /\ UNCHANGED <<old, new, ignored, stage, mdiff>>
    BY DEF DroppedDone
<1>2. Len(old) \in Nat /\ DOMAIN old = 1..Len(old) /\ Len(new) \in Nat /\ DOMAIN new = 1..Len(new)
        /\ at \in Nat
    BY StateFacts
<1>3. LoopInv'
    BY <1>1, <1>2 DEF IInv, LoopInv
<1>4. ASSUME NEW k PROVE Reported(k)' = Reported(k)
    <2>1. Compared(k)' = Compared(k) /\ Added' = Added
        BY <1>1 DEF Compared, Reached, Added
    <2> QED
        BY <2>1, <1>1, ReportStays
<1>5. SchemaReports' = SchemaReports
    BY <1>1, <1>2 DEF SchemaReports, Unmatched
<1> QED
    BY <1>1, <1>3, <1>4, <1>5, QuietStep

LEMMA CreatedDoneKeeps ==
    ASSUME IInv, CreatedDone
    PROVE  IInv'
<1>1. /\ phase = "created" /\ at > Len(new) /\ phase' = "shared" /\ at' = 1
      /\ UNCHANGED <<old, new, ignored, stage, mdiff>>
    BY DEF CreatedDone
<1>2. Len(old) \in Nat /\ DOMAIN old = 1..Len(old) /\ Len(new) \in Nat /\ DOMAIN new = 1..Len(new)
        /\ at \in Nat /\ stage \in 1..9
    BY StateFacts
<1>3. LoopInv' /\ stage = 1
    BY <1>1, <1>2 DEF IInv, LoopInv
<1>4. ASSUME NEW k PROVE Reported(k)' = Reported(k)
    <2>1. Reached(k) = {} /\ Reached(k)' = {}
        BY <1>1, <1>2, <1>3 DEF Reached
    <2>2. Compared(k)' = Compared(k) /\ Added' = Added
        BY <1>1, <2>1 DEF Compared, Added
    <2> QED
        BY <2>2, <1>1, ReportStays
<1>5. SchemaReports' = SchemaReports
    BY <1>1, <1>2 DEF SchemaReports, Unmatched
<1> QED
    BY <1>1, <1>3, <1>4, <1>5, QuietStep

LEMMA SkipDroppedSchemaKeeps ==
    ASSUME IInv, SkipDroppedSchema
    PROVE  IInv'
<1>1. /\ phase = "shared" /\ at <= Len(old) /\ stage = 1 /\ Found(new, old[at].name) = {}
      /\ at' = at + 1 /\ UNCHANGED <<old, new, ignored, phase, stage, mdiff>>
    BY DEF SkipDroppedSchema
<1>2. Len(old) \in Nat /\ DOMAIN old = 1..Len(old) /\ at \in 1..Len(old)
    BY <1>1, StateFacts
<1>3. LoopInv'
    BY <1>1, <1>2 DEF IInv, LoopInv
<1>4. ASSUME NEW k PROVE Reported(k)' = Reported(k)
    <2>1. Reached(k)' = Reached(k) \cup {at}
        BY <1>1, <1>2 DEF Reached
    <2>2. \A n \in ToSet(new) : old[at].name # n.name
        BY <1>1, FoundFacts DEF IInv, InputInv
    <2>3. Compared(k)' = Compared(k)
        BY <1>1, <2>1, <2>2 DEF Compared
    <2>4. Added' = Added
        BY <1>1 DEF Added
    <2> QED
        BY <2>3, <2>4, <1>1, ReportStays
<1>5. SchemaReports' = SchemaReports
    BY <1>1 DEF SchemaReports, Unmatched
<1> QED
    BY <1>1, <1>3, <1>4, <1>5, QuietStep

LEMMA SharedDoneKeeps ==
    ASSUME IInv, SharedDone
    PROVE  IInv'
<1>1. /\ phase = "shared" /\ at > Len(old) /\ phase' = "new" /\ at' = 1
      /\ UNCHANGED <<old, new, ignored, stage, mdiff>>
    BY DEF SharedDone
<1>2. Len(old) \in Nat /\ DOMAIN old = 1..Len(old) /\ Len(new) \in Nat /\ DOMAIN new = 1..Len(new)
        /\ at \in Nat /\ stage \in 1..9
    BY StateFacts
<1>3. LoopInv'
    BY <1>1, <1>2 DEF IInv, LoopInv
<1>4. ASSUME NEW k PROVE Reported(k)' = Reported(k)
    <2>1. Reached(k) = DOMAIN old /\ Reached(k)' = DOMAIN old
        BY <1>1, <1>2 DEF Reached
    <2>2. Compared(k)' = Compared(k)
        BY <1>1, <2>1 DEF Compared
    <2>3. Added = {} /\ Added' = {}
        BY <1>1, <1>2 DEF Added
    <2> QED
        BY <2>2, <2>3, <1>1, ReportStays
<1>5. SchemaReports' = SchemaReports
    BY <1>1 DEF SchemaReports, Unmatched
<1> QED
    BY <1>1, <1>3, <1>4, <1>5, QuietStep

LEMMA SkipSharedSchemaKeeps ==
    ASSUME IInv, SkipSharedSchema
    PROVE  IInv'
<1>1. /\ phase = "new" /\ at <= Len(new) /\ Found(old, new[at].name) # {}
      /\ at' = at + 1 /\ UNCHANGED <<old, new, ignored, phase, stage, mdiff>>
    BY DEF SkipSharedSchema
<1>2. Len(new) \in Nat /\ DOMAIN new = 1..Len(new) /\ at \in 1..Len(new)
    BY <1>1, StateFacts
<1>3. LoopInv'
    BY <1>1, <1>2 DEF IInv, LoopInv
<1>4. ASSUME NEW k PROVE Reported(k)' = Reported(k)
    <2>1. Compared(k)' = Compared(k)
        BY <1>1 DEF Compared, Reached
    <2>2. \A i \in DOMAIN new : i < at + 1 <=> i < at \/ i = at
        BY <1>2
    <2>3. Added' = Added
        BY <1>1, <2>2 DEF Added
    <2> QED
        BY <2>1, <2>3, <1>1, ReportStays
<1>5. SchemaReports' = SchemaReports
    BY <1>1 DEF SchemaReports, Unmatched
<1> QED
    BY <1>1, <1>3, <1>4, <1>5, QuietStep

LEMMA NewDoneKeeps ==
    ASSUME IInv, NewDone
    PROVE  IInv'
<1>1. /\ phase = "new" /\ at > Len(new) /\ phase' = "sort"
      /\ UNCHANGED <<old, new, ignored, at, stage, mdiff>>
    BY DEF NewDone
<1>2. Len(new) \in Nat /\ DOMAIN new = 1..Len(new) /\ at \in Nat
    BY StateFacts
<1>3. LoopInv'
    BY <1>1, <1>2 DEF IInv, LoopInv
<1>4. ASSUME NEW k PROVE Reported(k)' = Reported(k)
    <2>1. Compared(k)' = Compared(k)
        BY <1>1 DEF Compared, Reached
    <2>2. \A i \in DOMAIN new : i < at
        BY <1>1, <1>2
    <2>3. Added' = Added
        BY <1>1, <2>2 DEF Added
    <2> QED
        BY <2>1, <2>3, <1>1, ReportStays
<1>5. SchemaReports' = SchemaReports
    BY <1>1 DEF SchemaReports, Unmatched
<1> QED
    BY <1>1, <1>3, <1>4, <1>5, QuietStep

LEMMA InjectiveJoin ==
    ASSUME NEW s, NEW t, IsList(s), IsList(t), ToSet(s) \cap ToSet(t) = {},
           \A i, j \in DOMAIN s : s[i] = s[j] => i = j,
           \A i, j \in DOMAIN t : t[i] = t[j] => i = j
    PROVE  \A i, j \in DOMAIN (s \o t) : (s \o t)[i] = (s \o t)[j] => i = j
<1>1. /\ Len(s) \in Nat /\ DOMAIN s = 1..Len(s) /\ \A i \in DOMAIN s : s[i] \in ToSet(s)
      /\ Len(t) \in Nat /\ DOMAIN t = 1..Len(t) /\ \A i \in DOMAIN t : t[i] \in ToSet(t)
    BY ListFacts
<1>2. /\ IsList(s \o t) /\ Len(s \o t) = Len(s) + Len(t)
      /\ \A i \in 1..Len(s) : (s \o t)[i] = s[i]
      /\ \A i \in 1..Len(t) : (s \o t)[Len(s) + i] = t[i]
    BY JoinedLists
<1>3. DOMAIN (s \o t) = 1..Len(s) + Len(t)
    BY <1>1, <1>2, ListFacts
<1>4. ASSUME NEW i \in DOMAIN (s \o t)
      PROVE  \/ i \in DOMAIN s /\ (s \o t)[i] = s[i]
             \/ \E a \in DOMAIN t : i = Len(s) + a /\ (s \o t)[i] = t[a]
    <2>1. CASE i <= Len(s)
        BY <2>1, <1>1, <1>2, <1>3
    <2>2. CASE i > Len(s)
        <3>1. i - Len(s) \in 1..Len(t) /\ i = Len(s) + (i - Len(s))
            BY <2>2, <1>1, <1>3
        <3> QED
            BY <3>1, <1>1, <1>2
    <2> QED
        BY <2>1, <2>2, <1>1, <1>3
<1>5. ASSUME NEW i \in DOMAIN (s \o t), NEW j \in DOMAIN (s \o t), (s \o t)[i] = (s \o t)[j]
      PROVE  i = j
    <2>1. CASE i \in DOMAIN s /\ (s \o t)[i] = s[i]
        BY <2>1, <1>4, <1>5, <1>1
    <2>2. CASE \E a \in DOMAIN t : i = Len(s) + a /\ (s \o t)[i] = t[a]
        BY <2>2, <1>4, <1>5, <1>1
    <2> QED
        BY <2>1, <2>2, <1>4
<1> QED
    BY <1>5

LEMMA NothingOfNothing ==
    ASSUME NEW k
    PROVE  EntriesOf(k, <<>>, <<>>, AlteredIn(k, <<>>, <<>>)) = {}
<1>1. Indexed(k, <<>>) = {}
    BY DEF Indexed
<1> QED
    BY <1>1 DEF EntriesOf, Drops, Creates, Alters, AlteredIn, Shared

\* What is reported of two pairs of schemas does not carry one schema name: an event
\* carries none, but then there is one schema only.
LEMMA SchemasApart ==
    ASSUME InputInv, NEW k \in ToSet(ObjectKinds),
           NEW i \in DOMAIN old, NEW j \in DOMAIN old, i # j,
           NEW m \in Found(new, old[i].name), NEW n \in Found(new, old[j].name),
           NEW d \in CallEntries(k, old[i], m)
    PROVE  d.schema # SchemaNamed(k, old[j])
<1>1. old[i].name # old[j].name
    BY DatabaseFacts DEF InputInv
<1>2. /\ m \in ToSet(new) /\ m.name = old[i].name
      /\ n \in ToSet(new) /\ n.name = old[j].name
    BY FoundFacts DEF InputInv
<1>3. d.schema = SchemaNamed(k, old[i])
    BY EntrySchemas
<1>4. CASE k # "event"
    BY <1>1, <1>3, <1>4 DEF SchemaNamed
<1>5. CASE k = "event"
    <2>1. PICK a \in DOMAIN new, b \in DOMAIN new : m = new[a] /\ n = new[b]
        BY <1>2, DatabaseFacts DEF InputInv
    <2>2. Len(old) \in Nat /\ DOMAIN old = 1..Len(old) /\ Len(new) \in Nat /\ DOMAIN new = 1..Len(new)
        BY DatabaseFacts DEF InputInv
    <2>3. a # b /\ Len(old) # 1 /\ Len(new) # 1
        BY <1>1, <1>2, <2>1, <2>2
    <2>4. old[i].lists["event"] = <<>> /\ m.lists["event"] = <<>>
        BY <2>1, <2>3 DEF InputInv, IsDatabase
    <2>5. CallEntries(k, old[i], m) = {}
        BY <1>5, <2>4, NothingOfNothing DEF CallEntries
    <2> QED
        BY <2>5
<1> QED
    BY <1>4, <1>5

\* What a compareX call appends: a list of its entries, one for an object.
CallResult(k, o, n, list) ==
    /\ IsList(list) /\ ToSet(list) = CallEntries(k, o, n)
    /\ \A i, j \in DOMAIN list :
        (\E x \in list[i].was \cup list[i].is, y \in list[j].was \cup list[j].is :
            Key(k, x) = Key(k, y)) => i = j

LEMMA CallList ==
    ASSUME NEW k, NEW o, NEW n, IsList(o.lists[k]), IsList(n.lists[k])
    PROVE  \A d \in SetToSeqs(Drops(k, o.lists[k], n.lists[k])) :
           \A c \in SetToSeqs(Creates(k, o.lists[k], n.lists[k])
                                \cup Alters(AlteredIn(k, o.lists[k], n.lists[k]))) :
                CallResult(k, o, n, [i \in DOMAIN (d \o c) |->
                                        Placed(SchemaNamed(k, o), (d \o c)[i])])
<1> SUFFICES ASSUME NEW d \in SetToSeqs(Drops(k, o.lists[k], n.lists[k])),
                    NEW c \in SetToSeqs(Creates(k, o.lists[k], n.lists[k])
                                        \cup Alters(AlteredIn(k, o.lists[k], n.lists[k]))),
                    NEW list, list = [i \in DOMAIN (d \o c) |->
                                        Placed(SchemaNamed(k, o), (d \o c)[i])]
             PROVE  CallResult(k, o, n, list)
    OBVIOUS
<1> DEFINE olds == o.lists[k]
           news == n.lists[k]
           pairs == AlteredIn(k, olds, news)
           dc == d \o c
<1>1. pairs \in SUBSET Shared(k, olds, news)
    BY DEF AlteredIn
<1>2. IsFiniteSet(Drops(k, olds, news)) /\ IsFiniteSet(Creates(k, olds, news) \cup Alters(pairs))
    <2> HIDE DEF olds, news, pairs
    <2>1. IsList(olds) /\ IsList(news)
        BY DEF olds, news
    <2> QED
        BY <1>1, <2>1, FiniteEntries
<1>3. /\ IsList(d) /\ ToSet(d) = Drops(k, olds, news)
      /\ \A i, j \in DOMAIN d : d[i] = d[j] => i = j
    BY <1>2, Enumerations
<1>4. /\ IsList(c) /\ ToSet(c) = Creates(k, olds, news) \cup Alters(pairs)
      /\ \A i, j \in DOMAIN c : c[i] = c[j] => i = j
    BY <1>2, Enumerations
<1>5. ToSet(d) \cap ToSet(c) = {}
    <2>1. \A e \in ToSet(d) : e.action = "DROP"
        BY <1>3 DEF Drops, Entry
    <2>2. \A e \in ToSet(c) : e.action # "DROP"
        BY <1>4 DEF Creates, Alters, Entry
    <2> QED
        BY <2>1, <2>2
<1>6. IsList(dc) /\ ToSet(dc) = EntriesOf(k, olds, news, pairs)
    BY <1>3, <1>4, JoinedLists DEF EntriesOf
<1>7. \A i, j \in DOMAIN dc : dc[i] = dc[j] => i = j
    BY <1>3, <1>4, <1>5, InjectiveJoin
<1>8. list = [i \in DOMAIN dc |-> Placed(SchemaNamed(k, o), dc[i])]
    OBVIOUS
<1> HIDE DEF dc, olds, news, pairs
<1>9. DOMAIN list = DOMAIN dc /\ \A i \in DOMAIN dc : list[i] = Placed(SchemaNamed(k, o), dc[i])
    BY <1>8
<1>10. IsList(list)
    <2>1. IsList([i \in DOMAIN dc |-> list[i]])
        BY <1>6, <1>9, MappedList
    <2>2. [i \in DOMAIN dc |-> list[i]] = list
        BY <1>8
    <2> QED
        BY <2>1, <2>2
<1>11. ToSet(list) = CallEntries(k, o, n)
    <2>1. ToSet(list) = {Placed(SchemaNamed(k, o), e) : e \in ToSet(dc)}
        BY <1>9 DEF ToSet
    <2> QED
        BY <2>1, <1>6 DEF CallEntries, olds, news, pairs
<1>12. OneEach(k, EntriesOf(k, olds, news, pairs))
    <2>1. IsList(olds) /\ IsList(news)
        BY DEF olds, news
    <2> QED
        BY <1>1, <2>1, OneKeyOneEntry
<1>13. ASSUME NEW i \in DOMAIN list, NEW j \in DOMAIN list,
              NEW x \in list[i].was \cup list[i].is, NEW y \in list[j].was \cup list[j].is,
              Key(k, x) = Key(k, y)
       PROVE  i = j
    <2>1. dc[i] \in EntriesOf(k, olds, news, pairs) /\ dc[j] \in EntriesOf(k, olds, news, pairs)
        BY <1>6, <1>9 DEF ToSet
    <2>2. x \in dc[i].was \cup dc[i].is /\ y \in dc[j].was \cup dc[j].is
        BY <1>9 DEF Placed
    <2>3. dc[i] = dc[j]
        BY <1>12, <1>13, <2>1, <2>2 DEF OneEach
    <2> QED
        BY <2>3, <1>7, <1>9
<1>14. \A i, j \in DOMAIN list :
            (\E x \in list[i].was \cup list[i].is, y \in list[j].was \cup list[j].is :
                Key(k, x) = Key(k, y)) => i = j
    BY <1>13
<1> QED
    BY <1>10, <1>11, <1>14 DEF CallResult

\* One entry for an object, said of one list.
OneEntryIn(k, list) ==
    \A i, j \in DOMAIN list :
        /\ list[i].schema = list[j].schema
        /\ \E x \in list[i].was \cup list[i].is, y \in list[j].was \cup list[j].is : Key(k, x) = Key(k, y)
        => i = j

LEMMA OneEntryEverywhere ==
    OneEntryPerObject <=> \A k \in ToSet(ObjectKinds) : OneEntryIn(k, mdiff[k])
BY DEF OneEntryPerObject, OneEntryIn

LEMMA JoinedEntries ==
    ASSUME NEW k, NEW s, NEW t, IsList(s), IsList(t), OneEntryIn(k, s), OneEntryIn(k, t),
           \A e \in ToSet(s), f \in ToSet(t) : e.schema # f.schema
    PROVE  OneEntryIn(k, s \o t)
<1> DEFINE Alike(d, e) ==
                /\ d.schema = e.schema
                /\ \E x \in d.was \cup d.is, y \in e.was \cup e.is : Key(k, x) = Key(k, y)
<1>1. /\ Len(s) \in Nat /\ DOMAIN s = 1..Len(s) /\ \A i \in DOMAIN s : s[i] \in ToSet(s)
      /\ Len(t) \in Nat /\ DOMAIN t = 1..Len(t) /\ \A i \in DOMAIN t : t[i] \in ToSet(t)
    BY ListFacts
<1>2. /\ DOMAIN (s \o t) = 1..Len(s) + Len(t)
      /\ \A i \in 1..Len(s) : (s \o t)[i] = s[i]
      /\ \A i \in 1..Len(t) : (s \o t)[Len(s) + i] = t[i]
    BY <1>1, JoinedLists, ListFacts
<1>3. ASSUME NEW i \in DOMAIN (s \o t)
      PROVE  \/ i \in DOMAIN s /\ (s \o t)[i] = s[i]
             \/ \E a \in DOMAIN t : i = Len(s) + a /\ (s \o t)[i] = t[a]
    <2>1. CASE i <= Len(s)
        BY <2>1, <1>1, <1>2
    <2>2. CASE i > Len(s)
        <3>1. i - Len(s) \in 1..Len(t) /\ i = Len(s) + (i - Len(s))
            BY <2>2, <1>1, <1>2
        <3> QED
            BY <3>1, <1>1, <1>2
    <2> QED
        BY <2>1, <2>2, <1>1, <1>2
<1>4. \A i, j \in DOMAIN s : Alike(s[i], s[j]) => i = j
    BY DEF OneEntryIn
<1>5. \A i, j \in DOMAIN t : Alike(t[i], t[j]) => i = j
    BY DEF OneEntryIn
<1>6. \A i \in DOMAIN s, j \in DOMAIN t : ~Alike(s[i], t[j]) /\ ~Alike(t[j], s[i])
    BY <1>1
<1>7. ASSUME NEW i \in DOMAIN (s \o t), NEW j \in DOMAIN (s \o t), Alike((s \o t)[i], (s \o t)[j])
      PROVE  i = j
    <2> HIDE DEF Alike
    <2>1. CASE i \in DOMAIN s /\ (s \o t)[i] = s[i]
        BY <2>1, <1>3, <1>4, <1>6, <1>7
    <2>2. CASE \E a \in DOMAIN t : i = Len(s) + a /\ (s \o t)[i] = t[a]
        BY <2>2, <1>3, <1>5, <1>6, <1>7
    <2> QED
        BY <2>1, <2>2, <1>3
<1> QED
    BY <1>7 DEF OneEntryIn

LEMMA CompareListsKeeps ==
    ASSUME IInv, NEW kind \in ToSet(ObjectKinds), CompareLists(kind)
    PROVE  IInv'
<1> DEFINE o == old[at]
           m == mdiff[kind]
<1>1. /\ phase = "shared" /\ at <= Len(old) /\ ObjectKinds[stage] = kind
      /\ stage' = (IF stage = 9 THEN 1 ELSE stage + 1)
      /\ at' = (IF stage = 9 THEN at + 1 ELSE at)
      /\ UNCHANGED <<old, new, ignored, phase>>
    BY KindFacts DEF CompareLists
<1>2. /\ Len(old) \in Nat /\ DOMAIN old = 1..Len(old) /\ at \in 1..Len(old) /\ stage \in 1..9
      /\ DOMAIN mdiff = Kinds /\ \A k \in Kinds : IsList(mdiff[k])
      /\ kind \in Kinds /\ kind # "schema"
    BY <1>1, StateFacts
<1>3. PICK n \in Found(new, o.name) :
            \E d \in SetToSeqs(Drops(kind, o.lists[kind], n.lists[kind])),
               c \in SetToSeqs(Creates(kind, o.lists[kind], n.lists[kind])
                               \cup Alters(AlteredIn(kind, o.lists[kind], n.lists[kind]))) :
                mdiff' = [mdiff EXCEPT ![kind] = m \o [i \in DOMAIN (d \o c) |->
                                Placed(SchemaNamed(kind, o), (d \o c)[i])]]
    BY DEF CompareLists, AlteredIn
<1>4. n \in ToSet(new) /\ n.name = o.name
    BY <1>3, FoundFacts DEF IInv, InputInv
<1>5. IsList(o.lists[kind]) /\ IsList(n.lists[kind])
    <2>1. IsSchema(o) /\ IsSchema(n)
        BY <1>2, <1>4, DatabaseFacts DEF IInv, InputInv
    <2> QED
        BY <2>1 DEF IsSchema
<1>6. PICK list : mdiff' = [mdiff EXCEPT ![kind] = m \o list] /\ CallResult(kind, o, n, list)
    <2> HIDE DEF o, m
    <2> QED
        BY <1>3, <1>5, CallList
<1>6a. /\ IsList(list) /\ ToSet(list) = CallEntries(kind, o, n)
       /\ \A i, j \in DOMAIN list :
            (\E x \in list[i].was \cup list[i].is, y \in list[j].was \cup list[j].is :
                Key(kind, x) = Key(kind, y)) => i = j
    BY <1>6 DEF CallResult
<1>7. /\ DOMAIN mdiff' = Kinds /\ mdiff'[kind] = m \o list
      /\ \A k \in Kinds \ {kind} : mdiff'[k] = mdiff[k]
    BY <1>2, <1>6
<1>8. /\ IsList(m \o list) /\ ToSet(m \o list) = ToSet(m) \cup CallEntries(kind, o, n)
    BY <1>2, <1>6a, JoinedLists
<1>9. /\ Reached(kind)' = Reached(kind) \cup {at} /\ at \notin Reached(kind)
      /\ \A k \in ToSet(ObjectKinds) \ {kind} : Reached(k)' = Reached(k)
    <2>1. \A k : (\E j \in 1..stage : ObjectKinds[j] = k) <=>
                    (k = kind \/ \E j \in 1..stage - 1 : ObjectKinds[j] = k)
        BY <1>1, <1>2
    <2>2. ~ \E j \in 1..stage - 1 : ObjectKinds[j] = kind
        BY <1>1, <1>2, KindFacts
    <2>3. CASE stage = 9
        <3>1. \A k \in ToSet(ObjectKinds) : \E j \in 1..stage : ObjectKinds[j] = k
            BY <2>3, KindFacts DEF ToSet
        <3>2. at' = at + 1 /\ stage' = 1
            BY <1>1, <2>3
        <3>3. \A i \in DOMAIN old : i < at + 1 <=> i < at \/ i = at
            BY <1>2
        <3> QED
            BY <1>1, <1>2, <2>1, <2>2, <3>1, <3>2, <3>3 DEF Reached
    <2>4. CASE stage # 9
        <3>1. at' = at /\ stage' = stage + 1 /\ stage' - 1 = stage
            BY <1>1, <1>2, <2>4
        <3> QED
            BY <1>1, <1>2, <2>1, <2>2, <3>1 DEF Reached
    <2> QED
        BY <2>3, <2>4
<1>10. /\ Compared(kind)' = Compared(kind) \cup {<<o, n>>}
       /\ \A k \in ToSet(ObjectKinds) \ {kind} : Compared(k)' = Compared(k)
       /\ Added = {} /\ Added' = {}
    <2>1. \A t \in ToSet(new) : t.name = o.name => t = n
        BY <1>4, DatabaseFacts DEF IInv, InputInv
    <2>2. Compared(kind)' = Compared(kind) \cup {<<o, n>>}
        BY <1>1, <1>4, <1>9, <2>1 DEF Compared
    <2>3. \A k \in ToSet(ObjectKinds) \ {kind} : Compared(k)' = Compared(k)
        BY <1>1, <1>9 DEF Compared
    <2> QED
        BY <1>1, <2>2, <2>3 DEF Added
<1>11. InputInv'
    BY <1>1, InputStays DEF IInv
<1>12. LoopInv'
    <2>1. \A k \in Kinds : IsList(mdiff'[k])
        BY <1>2, <1>7, <1>8
    <2>2. /\ at' \in Nat /\ at' >= 1 /\ at' <= Len(old) + 1 /\ stage' \in 1..9
          /\ stage' # 1 => at' <= Len(old)
        BY <1>1, <1>2
    <2> QED
        BY <1>1, <1>7, <2>1, <2>2 DEF LoopInv
<1>13. ReportInv'
    <2>1. ASSUME NEW k \in ToSet(ObjectKinds) \ {kind} PROVE ToSet(mdiff'[k]) = Reported(k)'
        BY <1>1, <1>7, <1>10, KindFacts, ReportStays DEF IInv, ReportInv
    <2>2. Reported(kind)' = Reported(kind) \cup CallEntries(kind, o, n)
        <3>1. \A a, b : CallEntries(kind, a, b)' = CallEntries(kind, a, b)
            BY <1>1, SameCall
        <3>2. /\ Reported(kind)' = UNION {CallEntries(kind, p[1], p[2]) : p \in Compared(kind)'}
              /\ Reported(kind) = UNION {CallEntries(kind, p[1], p[2]) : p \in Compared(kind)}
            BY <1>10, <3>1 DEF Reported
        <3> DEFINE q == <<o, n>>
        <3>3. q[1] = o /\ q[2] = n /\ Compared(kind)' = Compared(kind) \cup {q}
            BY <1>10
        <3> HIDE DEF o, q
        <3> QED
            BY <3>2, <3>3
    <2>3. ToSet(mdiff'[kind]) = Reported(kind)'
        BY <1>7, <1>8, <2>2 DEF IInv, ReportInv
    <2> QED
        BY <2>1, <2>3 DEF ReportInv
<1>14. SchemaInv'
    <2>1. SchemaReports' = SchemaReports
        BY <1>1 DEF SchemaReports, Unmatched
    <2> QED
        BY <2>1, <1>2, <1>7, KindFacts DEF IInv, SchemaInv
<1>15. OneEntryPerObject'
    <2>1. ASSUME NEW e \in ToSet(m), NEW f \in ToSet(list) PROVE e.schema # f.schema
        <3>1. e \in Reported(kind) /\ f \in CallEntries(kind, o, n)
            BY <1>6a, <2>1 DEF IInv, ReportInv
        <3>2. PICK p \in Compared(kind) : e \in CallEntries(kind, p[1], p[2])
            BY <3>1, <1>10 DEF Reported
        <3>3. PICK i \in Reached(kind) : p[1] = old[i] /\ p[2] \in ToSet(new) /\ p[2].name = old[i].name
            BY <3>2 DEF Compared
        <3>4. i \in DOMAIN old /\ i # at /\ p[2] \in Found(new, old[i].name)
            BY <1>9, <3>3, FoundFacts DEF Reached, IInv, InputInv
        <3>5. InputInv
            BY DEF IInv
        <3>6. e \in CallEntries(kind, old[i], p[2])
            BY <3>2, <3>3
        <3>7. at \in DOMAIN old /\ n \in Found(new, old[at].name)
            BY <1>2, <1>3
        <3>8. f.schema = SchemaNamed(kind, old[at])
            BY <3>1, EntrySchemas
        <3> HIDE DEF o
        <3>9. e.schema # SchemaNamed(kind, old[at])
            BY <3>4, <3>5, <3>6, <3>7, SchemasApart
        <3> QED
            BY <3>8, <3>9
    <2>2. OneEntryIn(kind, m) /\ OneEntryIn(kind, list)
        BY <1>6a, OneEntryEverywhere DEF IInv, OneEntryIn
    <2>3. OneEntryIn(kind, m \o list)
        <3> HIDE DEF m
        <3> QED
            BY <1>2, <1>6a, <2>1, <2>2, JoinedEntries DEF m
    <2>4. \A k \in ToSet(ObjectKinds) : OneEntryIn(k, mdiff'[k])
        BY <1>7, <2>3, KindFacts, OneEntryEverywhere DEF IInv
    <2> QED
        BY <2>4 DEF OneEntryPerObject, OneEntryIn
<1>16. TableOrderIsDetermined'
    BY <1>1 DEF TableOrderIsDetermined
<1> QED
    BY <1>11, <1>12, <1>13, <1>14, <1>15, <1>16 DEF IInv

LEMMA AddNewSchemaKeeps ==
    ASSUME IInv, AddNewSchema
    PROVE  IInv'
<1> DEFINE n == new[at]
           tables == n.lists["table"]
           x == Placed(n.name, Entry("CREATE", {}, {}))
           list == [i \in DOMAIN tables |-> Placed(n.name, Entry("CREATE", {}, {tables[i]}))]
           m == mdiff["table"]
<1>1. /\ phase = "new" /\ at <= Len(new) /\ Found(old, n.name) = {} /\ at' = at + 1
      /\ UNCHANGED <<old, new, ignored, phase, stage>>
      /\ mdiff' = [mdiff EXCEPT !["schema"] = Append(mdiff["schema"], x), !["table"] = m \o list]
    BY DEF AddNewSchema
<1>2. /\ Len(new) \in Nat /\ DOMAIN new = 1..Len(new) /\ at \in 1..Len(new) /\ stage \in 1..9
      /\ DOMAIN mdiff = Kinds /\ \A k \in Kinds : IsList(mdiff[k])
      /\ "table" \in Kinds /\ "schema" \in Kinds /\ "table" \in ToSet(ObjectKinds)
    BY <1>1, StateFacts, KindFacts
<1>3. /\ DOMAIN mdiff' = Kinds
      /\ mdiff'["schema"] = Append(mdiff["schema"], x) /\ mdiff'["table"] = m \o list
      /\ \A k \in Kinds \ {"schema", "table"} : mdiff'[k] = mdiff[k]
    BY <1>1, <1>2
<1>4. IsList(tables) /\ UniqueKeys("table", tables)
    BY <1>2, DatabaseFacts DEF IInv, InputInv, IsSchema
<1>5. IsList(list) /\ ToSet(list) = TableEntries(n)
    <2>1. list = [i \in DOMAIN tables |-> list[i]]
        OBVIOUS
    <2>2. IsList([i \in DOMAIN tables |-> list[i]])
        <3>1. DOMAIN list = DOMAIN tables
            OBVIOUS
        <3> HIDE DEF list, tables
        <3> QED
            BY <1>4, <3>1, MappedList
    <2>3. ToSet(list) = TableEntries(n)
        BY DEF ToSet, TableEntries
    <2> QED
        BY <2>1, <2>2, <2>3
<1>6. OneEntryIn("table", list)
    <2>1. \A i \in DOMAIN tables : list[i].was \cup list[i].is = {tables[i]}
        BY DEF Placed, Entry
    <2> HIDE DEF list, tables
    <2>2. DOMAIN list = DOMAIN tables
        BY DEF list
    <2>3. ASSUME NEW i \in DOMAIN list, NEW j \in DOMAIN list,
                 NEW y \in list[i].was \cup list[i].is, NEW z \in list[j].was \cup list[j].is,
                 Key("table", y) = Key("table", z)
          PROVE  i = j
        <3>1. y = tables[i] /\ z = tables[j]
            BY <2>1, <2>2, <2>3
        <3> QED
            BY <3>1, <1>4, <2>2, <2>3 DEF UniqueKeys
    <2> QED
        BY <2>3 DEF OneEntryIn
<1> HIDE DEF list, tables
<1>7. ASSUME NEW e \in ToSet(m), NEW f \in ToSet(list) PROVE e.schema # f.schema
    <2>1. f.schema = n.name
        BY <1>5, EntrySchemas
    <2>2. e \in Reported("table")
        BY <1>2 DEF IInv, ReportInv
    <2>3. ASSUME NEW p \in Compared("table"), e \in CallEntries("table", p[1], p[2])
          PROVE  e.schema # n.name
        <3>1. PICK i \in DOMAIN old : p[1] = old[i]
            BY <2>3 DEF Compared, Reached
        <3>2. e.schema = p[1].name
            BY <2>3, EntrySchemas DEF SchemaNamed
        <3>3. old[i].name # n.name
            <4> HIDE DEF n
            <4> QED
                BY <1>1 DEF Found
        <3> QED
            BY <3>1, <3>2, <3>3
    <2>4. ASSUME NEW t \in Added, e \in TableEntries(t) PROVE e.schema # n.name
        <3>1. PICK i \in DOMAIN new : t = new[i] /\ i < at
            BY <1>1 DEF Added
        <3>2. e.schema = t.name
            BY <2>4, EntrySchemas
        <3>3. IsDatabase(new)
            BY DEF IInv, InputInv
        <3>4. i # at /\ at \in DOMAIN new
            BY <1>2, <3>1
        <3>5. new[i].name # new[at].name
            BY <3>3, <3>4, DatabaseFacts
        <3> QED
            BY <3>1, <3>2, <3>5
    <2> QED
        BY <2>1, <2>2, <2>3, <2>4 DEF Reported
<1>8. /\ IsList(m \o list) /\ ToSet(m \o list) = ToSet(m) \cup TableEntries(n)
      /\ IsList(mdiff'["schema"]) /\ ToSet(mdiff'["schema"]) = ToSet(mdiff["schema"]) \cup {x}
    BY <1>2, <1>3, <1>5, JoinedLists, AppendedList
<1>9. InputInv'
    BY <1>1, InputStays DEF IInv
<1>10. LoopInv'
    <2>1. \A k \in Kinds : IsList(mdiff'[k])
        BY <1>2, <1>3, <1>8
    <2>2. at' \in Nat /\ at' >= 1 /\ at' <= Len(new) + 1 /\ stage = 1
        BY <1>1, <1>2 DEF IInv, LoopInv
    <2> QED
        BY <1>1, <1>2, <1>3, <2>1, <2>2 DEF LoopInv
<1>11. ReportInv'
    <2>1. \A k : Compared(k)' = Compared(k)
        BY <1>1 DEF Compared, Reached
    <2>2. Added' = Added \cup {n}
        <3>1. \A i \in DOMAIN new : i < at + 1 <=> i < at \/ i = at
            BY <1>2
        <3> QED
            BY <1>1, <1>2, <3>1 DEF Added
    <2>3. \A k, a, b : CallEntries(k, a, b)' = CallEntries(k, a, b)
        BY <1>1, SameCall
    <2>4. ASSUME NEW k \in ToSet(ObjectKinds), k # "table" PROVE Reported(k)' = Reported(k)
        BY <2>1, <2>3, <2>4 DEF Reported
    <2>5. Reported("table")' = Reported("table") \cup TableEntries(n)
        <3>1. /\ {t \in Added' : "table" = "table"} = Added \cup {n}
              /\ {t \in Added : "table" = "table"} = Added
            BY <2>2
        <3>2. Reported("table")' = (UNION {CallEntries("table", p[1], p[2]) : p \in Compared("table")})
                                    \cup (UNION {TableEntries(t) : t \in Added \cup {n}})
            BY <2>1, <2>3, <3>1 DEF Reported
        <3>3. Reported("table") = (UNION {CallEntries("table", p[1], p[2]) : p \in Compared("table")})
                                    \cup (UNION {TableEntries(t) : t \in Added})
            BY <3>1 DEF Reported
        <3> HIDE DEF n
        <3> QED
            BY <3>2, <3>3
    <2>6. ASSUME NEW k \in ToSet(ObjectKinds), k # "table" PROVE mdiff'[k] = mdiff[k]
        BY <1>3, <2>6, KindFacts
    <2> QED
        BY <1>3, <1>8, <2>4, <2>5, <2>6 DEF IInv, ReportInv
<1>12. SchemaInv'
    <2>1. SchemaReports' = SchemaReports
        BY <1>1 DEF SchemaReports, Unmatched
    <2>2. x \in SchemaReports
        BY <1>1, <1>2 DEF SchemaReports, Unmatched
    <2> QED
        BY <2>1, <2>2, <1>8 DEF IInv, SchemaInv
<1>13. OneEntryPerObject'
    <2>1. OneEntryIn("table", m)
        BY <1>2, OneEntryEverywhere DEF IInv
    <2>2. OneEntryIn("table", m \o list)
        <3> HIDE DEF m
        <3>1. IsList(m)
            BY <1>2 DEF m
        <3> QED
            BY <1>5, <1>6, <1>7, <2>1, <3>1, JoinedEntries
    <2>3. \A k \in ToSet(ObjectKinds) : OneEntryIn(k, mdiff'[k])
        BY <1>3, <2>2, KindFacts, OneEntryEverywhere DEF IInv
    <2> QED
        BY <2>3 DEF OneEntryPerObject, OneEntryIn
<1>14. TableOrderIsDetermined'
    BY <1>1 DEF TableOrderIsDetermined
<1> QED
    BY <1>9, <1>10, <1>11, <1>12, <1>13, <1>14 DEF IInv

(***************************************************************************)
(* Sorting.  A list read in the order of a strict total order of its       *)
(* positions is a permutation of it.                                       *)
(***************************************************************************)
StrictOrder(R, S) ==
    /\ \A i \in S : <<i, i>> \notin R
    /\ \A i, j, k \in S : <<i, j>> \in R /\ <<j, k>> \in R => <<i, k>> \in R
    /\ \A i, j \in S : i # j => <<i, j>> \in R \/ <<j, i>> \in R

Permuted(list, R, s) ==
    \E p \in [DOMAIN list -> DOMAIN list] :
        /\ \A n \in DOMAIN list : s[n] = list[p[n]]
        /\ \A m, n \in DOMAIN list : m < n => <<p[m], p[n]>> \in R
        /\ \A m, n \in DOMAIN list : p[m] = p[n] => m = n
        /\ \A j \in DOMAIN list : \E n \in DOMAIN list : p[n] = j

LEMMA RanksOfList ==
    ASSUME NEW list, IsList(list), NEW R, StrictOrder(R, DOMAIN list), NEW rank,
           rank = RankIn(Len(list), R)
    PROVE  /\ \A j \in DOMAIN list : rank[j] \in Nat /\ rank[j] <= Len(list) - 1
           /\ \A i, j \in DOMAIN list : <<i, j>> \in R <=> rank[i] < rank[j]
           /\ \A n \in DOMAIN list : \E j \in DOMAIN list : rank[j] = n - 1
<1> DEFINE N == Len(list)
<1>1. N \in Nat /\ DOMAIN list = 1..N
    BY ListFacts
<1>2. /\ \A i \in 1..N : <<i, i>> \notin R
      /\ \A i, j, k \in 1..N : <<i, j>> \in R /\ <<j, k>> \in R => <<i, k>> \in R
      /\ \A i, j \in 1..N : i # j => <<i, j>> \in R \/ <<j, i>> \in R
    BY <1>1 DEF StrictOrder
<1> HIDE DEF N
<1>3. rank = RankIn(N, R)
    BY DEF N
<1>4. /\ rank \in [1..N -> 0..N - 1]
      /\ \A i, j \in 1..N : <<i, j>> \in R <=> rank[i] < rank[j]
      /\ \A m \in 1..N : \E j \in 1..N : rank[j] = m - 1
    BY <1>1, <1>2, <1>3, Ranking
<1>5. \A j \in 1..N : rank[j] \in Nat /\ rank[j] <= N - 1
    BY <1>1, <1>4
<1> QED
    BY <1>1, <1>4, <1>5 DEF N

LEMMA InOrder ==
    ASSUME NEW list, IsList(list), NEW R, StrictOrder(R, DOMAIN list), NEW s,
           \A n \in DOMAIN list : \E j \in DOMAIN list :
                RankIn(Len(list), R)[j] = n - 1 /\ s[n] = list[j]
    PROVE  Permuted(list, R, s)
<1> DEFINE D == DOMAIN list
           rank == RankIn(Len(list), R)
           p == [n \in D |-> CHOOSE j \in D : rank[j] = n - 1 /\ s[n] = list[j]]
<1>1. Len(list) \in Nat /\ D = 1..Len(list)
    BY ListFacts
<1>2. /\ \A j \in D : rank[j] \in Nat /\ rank[j] <= Len(list) - 1
      /\ \A i, j \in D : <<i, j>> \in R <=> rank[i] < rank[j]
    BY RanksOfList
<1>3. \A n \in D : p[n] \in D /\ rank[p[n]] = n - 1 /\ s[n] = list[p[n]]
    <2>1. \A n \in D : \E j \in D : rank[j] = n - 1 /\ s[n] = list[j]
        OBVIOUS
    <2> HIDE DEF rank
    <2> QED
        BY <2>1
<1> HIDE DEF rank, p, D
<1>4. p \in [D -> D]
    BY <1>3 DEF p
<1>5. ASSUME NEW m \in D, NEW n \in D, m < n PROVE <<p[m], p[n]>> \in R
    <2>1. /\ p[m] \in D /\ rank[p[m]] = m - 1
          /\ p[n] \in D /\ rank[p[n]] = n - 1
        BY <1>3
    <2>2. rank[p[m]] < rank[p[n]]
        BY <2>1, <1>1, <1>5
    <2> QED
        BY <2>1, <2>2, <1>2
<1>6. \A m, n \in D : p[m] = p[n] => m = n
    <2>1. \A m, n \in D : p[m] = p[n] => m - 1 = n - 1
        BY <1>3
    <2> QED
        BY <1>1, <2>1
<1>7. ASSUME NEW j \in D PROVE \E n \in D : p[n] = j
    <2>1. PICK n \in D : n = rank[j] + 1
        BY <1>1, <1>2
    <2>2. n - 1 = rank[j]
        BY <2>1, <1>2
    <2>3. rank[p[n]] = rank[j] /\ p[n] \in D
        BY <1>3, <2>2
    <2>4. ~(rank[p[n]] < rank[j]) /\ ~(rank[j] < rank[p[n]])
        BY <2>3, <1>2
    <2>5. <<j, p[n]>> \notin R /\ <<p[n], j>> \notin R
        BY <2>3, <2>4, <1>2
    <2>6. p[n] = j
        BY <2>3, <2>5 DEF StrictOrder, D
    <2> QED
        BY <2>6
<1> QED
    BY <1>3, <1>4, <1>5, <1>6, <1>7 DEF Permuted, D

LEMMA PermutedFacts ==
    ASSUME NEW list, IsList(list), NEW R, NEW s, DOMAIN s = DOMAIN list, s = [n \in DOMAIN s |-> s[n]],
           Permuted(list, R, s)
    PROVE  IsList(s) /\ ToSet(s) = ToSet(list)
<1>1. PICK p \in [DOMAIN list -> DOMAIN list] :
        /\ \A n \in DOMAIN list : s[n] = list[p[n]]
        /\ \A j \in DOMAIN list : \E n \in DOMAIN list : p[n] = j
    BY DEF Permuted
<1>2. ToSet(s) = ToSet(list)
    BY <1>1 DEF ToSet
<1>3. IsList(s)
    <2>1. IsList([n \in DOMAIN list |-> s[n]])
        BY MappedList
    <2> QED
        BY <2>1
<1> QED
    BY <1>2, <1>3

\* The order of the positions of a list by one number, then by another, then as they are.
Lexicographic(D, a, b) ==
    {q \in D \X D :
        \/ a[q[1]] < a[q[2]]
        \/ a[q[1]] = a[q[2]] /\ (b[q[1]] < b[q[2]] \/ (b[q[1]] = b[q[2]] /\ q[1] < q[2]))}

LEMMA LexicographicIsStrict ==
    ASSUME NEW D \in SUBSET Nat, NEW a \in [D -> Nat], NEW b \in [D -> Nat]
    PROVE  StrictOrder(Lexicographic(D, a, b), D)
<1> DEFINE Less(i, j) == \/ a[i] < a[j]
                         \/ a[i] = a[j] /\ (b[i] < b[j] \/ (b[i] = b[j] /\ i < j))
<1>1. \A i, j \in D : <<i, j>> \in Lexicographic(D, a, b) <=> Less(i, j)
    BY DEF Lexicographic
<1>2. \A i \in D : i \in Nat /\ a[i] \in Nat /\ b[i] \in Nat
    OBVIOUS
<1>3. \A i \in D : ~Less(i, i)
    BY <1>2
<1>4. \A i, j, k \in D : Less(i, j) /\ Less(j, k) => Less(i, k)
    BY <1>2
<1>5. \A i, j \in D : i # j => Less(i, j) \/ Less(j, i)
    BY <1>2
<1> HIDE DEF Less
<1> QED
    BY <1>1, <1>3, <1>4, <1>5 DEF StrictOrder

\* Sorted puts the schemas in the order of their names, and the tables.
LEMMA SortedSchemas ==
    ASSUME NEW list, IsList(list), \A e \in ToSet(list) : e.schema \in Nat
    PROVE  \E R : Permuted(list, R, Sorted(list, Before))
<1> DEFINE D == DOMAIN list
           a == [i \in D |-> list[i].schema]
           b == [i \in D |-> 0]
           R == Lexicographic(D, a, b)
           earlier(j) == {i \in D : Before(list[i], list[j]) \/ (~Before(list[j], list[i]) /\ i < j)}
           s == Sorted(list, Before)
<1>1. Len(list) \in Nat /\ D = 1..Len(list) /\ \A i \in D : list[i] \in ToSet(list)
    BY ListFacts
<1>2. a \in [D -> Nat] /\ b \in [D -> Nat] /\ D \in SUBSET Nat
    BY <1>1
<1>3. StrictOrder(R, D)
    <2> HIDE DEF D, a, b
    <2> QED
        BY <1>2, LexicographicIsStrict
<1>4. ASSUME NEW j \in D PROVE earlier(j) = {i \in D : <<i, j>> \in R}
    <2>1. \A i \in D : /\ i \in Nat /\ a[i] \in Nat /\ a[i] = list[i].schema /\ b[i] = 0
        BY <1>1, <1>2
    <2>2. \A i \in D : <<i, j>> \in R <=> a[i] < a[j] \/ (a[i] = a[j] /\ i < j)
        <3> HIDE DEF a, b, D
        <3> QED
            BY <2>1 DEF Lexicographic
    <2>3. \A i \in D : i \in earlier(j) <=> a[i] < a[j] \/ (a[i] = a[j] /\ i < j)
        <3> HIDE DEF a, b
        <3> QED
            BY <2>1 DEF Before
    <2> HIDE DEF a, b, D, R
    <2> QED
        BY <2>2, <2>3
<1>5. \A j \in D : RankIn(Len(list), R)[j] = Cardinality(earlier(j))
    BY <1>1, <1>4 DEF RankIn
<1>6. s = [n \in D |-> list[CHOOSE j \in D : Cardinality(earlier(j)) = n - 1]]
    BY DEF Sorted
<1> HIDE DEF s, R, earlier
<1>7. \A n \in D : \E j \in D : RankIn(Len(list), R)[j] = n - 1
    BY <1>3, RanksOfList
<1>8. \A n \in D : \E j \in D : RankIn(Len(list), R)[j] = n - 1 /\ s[n] = list[j]
    BY <1>5, <1>6, <1>7
<1>9. Permuted(list, R, s)
    BY <1>3, <1>8, InOrder
<1> QED
    BY <1>9 DEF s

TableOrder(list) ==
    Lexicographic(DOMAIN list, [i \in DOMAIN list |-> list[i].schema],
                  [i \in DOMAIN list |-> ObjectOf(list[i]).name])

LEMMA SortedTables ==
    ASSUME NEW list, IsList(list),
           \A e \in ToSet(list) : e.schema \in Nat /\ ObjectOf(e).name \in Nat,
           NEW R, R = TableOrder(list)
    PROVE  Permuted(list, R, Sorted(list, BeforeTable))
<1> DEFINE D == DOMAIN list
           a == [i \in D |-> list[i].schema]
           b == [i \in D |-> ObjectOf(list[i]).name]
           earlier(j) == {i \in D : BeforeTable(list[i], list[j])
                                        \/ (~BeforeTable(list[j], list[i]) /\ i < j)}
           s == Sorted(list, BeforeTable)
<1>1. Len(list) \in Nat /\ D = 1..Len(list) /\ \A i \in D : list[i] \in ToSet(list)
    BY ListFacts
<1>2. a \in [D -> Nat] /\ b \in [D -> Nat] /\ D \in SUBSET Nat
    BY <1>1
<1>2a. R = Lexicographic(D, a, b)
    BY DEF TableOrder
<1>3. StrictOrder(R, D)
    <2> HIDE DEF D, a, b
    <2> QED
        BY <1>2, <1>2a, LexicographicIsStrict
<1>4. ASSUME NEW j \in D PROVE earlier(j) = {i \in D : <<i, j>> \in R}
    <2> DEFINE Less(i) == a[i] < a[j] \/ (a[i] = a[j] /\ (b[i] < b[j] \/ (b[i] = b[j] /\ i < j)))
    <2>1. \A i \in D : /\ i \in Nat /\ a[i] \in Nat /\ a[i] = list[i].schema
                       /\ b[i] \in Nat /\ b[i] = ObjectOf(list[i]).name
        BY <1>1, <1>2
    <2>2. \A i \in D : <<i, j>> \in R <=> Less(i)
        <3> HIDE DEF a, b, D
        <3> QED
            BY <1>2a, <2>1 DEF Lexicographic
    <2>3. \A i \in D : i \in earlier(j) <=> Less(i)
        <3> HIDE DEF a, b
        <3> QED
            BY <2>1 DEF BeforeTable
    <2> HIDE DEF a, b, D, Less
    <2> QED
        BY <2>2, <2>3
<1>5. \A j \in D : RankIn(Len(list), R)[j] = Cardinality(earlier(j))
    BY <1>1, <1>4 DEF RankIn
<1>6. s = [n \in D |-> list[CHOOSE j \in D : Cardinality(earlier(j)) = n - 1]]
    BY DEF Sorted
<1> HIDE DEF s, earlier
<1>7. \A n \in D : \E j \in D : RankIn(Len(list), R)[j] = n - 1
    BY <1>3, RanksOfList
<1>8. ASSUME NEW n \in D PROVE \E j \in D : RankIn(Len(list), R)[j] = n - 1 /\ s[n] = list[j]
    <2> DEFINE j == CHOOSE j \in D : Cardinality(earlier(j)) = n - 1
    <2>1. \E i \in D : Cardinality(earlier(i)) = n - 1
        BY <1>5, <1>7
    <2>2. j \in D /\ Cardinality(earlier(j)) = n - 1
        BY <2>1, Zenon
    <2>3. s[n] = list[j]
        BY <1>6
    <2> HIDE DEF j
    <2> QED
        BY <1>5, <2>2, <2>3
<1> QED
    BY <1>3, <1>8, InOrder DEF s

(***************************************************************************)
(* What an entry is like.                                                  *)
(***************************************************************************)
Shaped(e) ==
    /\ e.action \in {"CREATE", "DROP", "ALTER"}
    /\ (e.was = {}) = (e.action = "CREATE")
    /\ (e.is = {}) = (e.action = "DROP")

LEMMA ShapedEntries ==
    ASSUME NEW kind, NEW olds, NEW news, IsList(olds), IsList(news),
           NEW pairs \in SUBSET Shared(kind, olds, news),
           NEW e \in EntriesOf(kind, olds, news, pairs)
    PROVE  Shaped(e) /\ e.was \subseteq ToSet(olds) /\ e.is \subseteq ToSet(news)
<1>1. Indexed(kind, olds) \subseteq ToSet(olds) /\ Indexed(kind, news) \subseteq ToSet(news)
    BY IndexedFacts
<1>2. CASE e \in Drops(kind, olds, news)
    BY <1>1, <1>2 DEF Drops, Entry, Shaped
<1>3. CASE e \in Creates(kind, olds, news)
    BY <1>1, <1>3 DEF Creates, Entry, Shaped
<1>4. CASE e \in Alters(pairs)
    <2>1. PICK p \in pairs : e = Entry("ALTER", {p[1]}, {p[2]})
        BY <1>4 DEF Alters
    <2>2. p[1] \in ToSet(olds) /\ p[2] \in ToSet(news)
        BY <1>1, SharedPairs
    <2> QED
        BY <2>1, <2>2 DEF Entry, Shaped
<1> QED
    BY <1>2, <1>3, <1>4 DEF EntriesOf

LEMMA PlacedFacts ==
    ASSUME NEW schema, NEW e
    PROVE  /\ Placed(schema, e).schema = schema /\ Placed(schema, e).action = e.action
           /\ Placed(schema, e).was = e.was /\ Placed(schema, e).is = e.is
BY DEF Placed

LEMMA ReportedFacts ==
    ASSUME InputInv, NEW k \in ToSet(ObjectKinds), NEW e \in Reported(k)
    PROVE  /\ Shaped(e) /\ e.schema \in Nat
           /\ k = "table" => \A t \in e.was \cup e.is : t.name \in Nat
<1>1. CASE \E p \in Compared(k) : e \in CallEntries(k, p[1], p[2])
    <2>1. PICK p \in Compared(k) : e \in CallEntries(k, p[1], p[2])
        BY <1>1
    <2>2. PICK i \in DOMAIN old : p[1] = old[i]
        BY <2>1 DEF Compared, Reached
    <2>3. p[2] \in ToSet(new)
        BY <2>1 DEF Compared
    <2>4. IsSchema(p[1]) /\ IsSchema(p[2])
        BY <2>2, <2>3, DatabaseFacts DEF InputInv
    <2> DEFINE olds == p[1].lists[k]
               news == p[2].lists[k]
    <2>5. /\ IsList(olds) /\ (k = "table" => \A t \in ToSet(olds) : IsTable(t))
          /\ IsList(news) /\ (k = "table" => \A t \in ToSet(news) : IsTable(t))
        BY <2>4 DEF IsSchema
    <2>6. AlteredIn(k, olds, news) \in SUBSET Shared(k, olds, news)
        BY DEF AlteredIn
    <2>7. PICK f \in EntriesOf(k, olds, news, AlteredIn(k, olds, news)) :
                e = Placed(SchemaNamed(k, p[1]), f)
        BY <2>1 DEF CallEntries
    <2> HIDE DEF olds, news
    <2>8. Shaped(f) /\ f.was \subseteq ToSet(olds) /\ f.is \subseteq ToSet(news)
        BY <2>5, <2>6, ShapedEntries
    <2>9. e.schema = SchemaNamed(k, p[1]) /\ e.action = f.action /\ e.was = f.was /\ e.is = f.is
        BY <2>7, PlacedFacts
    <2>10. e.schema \in Nat
        BY <2>4, <2>9 DEF SchemaNamed, IsSchema
    <2>11. k = "table" => \A t \in e.was \cup e.is : t.name \in Nat
        BY <2>5, <2>8, <2>9 DEF IsTable
    <2> QED
        BY <2>8, <2>9, <2>10, <2>11 DEF Shaped
<1>2. CASE \E n \in Added : k = "table" /\ e \in TableEntries(n)
    <2>1. PICK i \in DOMAIN new : k = "table" /\ e \in TableEntries(new[i])
        BY <1>2 DEF Added
    <2>2. IsSchema(new[i])
        BY <2>1, DatabaseFacts DEF InputInv
    <2>3. PICK t \in ToSet(new[i].lists["table"]) :
                e = Placed(new[i].name, Entry("CREATE", {}, {t}))
        BY <2>1 DEF TableEntries
    <2>4. "table" \in ToSet(ObjectKinds)
        BY KindFacts
    <2>5. IsTable(t) /\ new[i].name \in Nat
        BY <2>2, <2>3, <2>4 DEF IsSchema
    <2>6. e.schema = new[i].name /\ e.action = "CREATE" /\ e.was = {} /\ e.is = {t}
        BY <2>3, PlacedFacts DEF Entry
    <2> QED
        BY <2>5, <2>6 DEF Shaped, IsTable
<1> QED
    BY <1>1, <1>2 DEF Reported

\* The object an entry is sorted by is one of its objects.
LEMMA ObjectOfEntry ==
    ASSUME NEW e, Shaped(e)
    PROVE  ObjectOf(e) \in e.was \cup e.is
<1>1. \E o : o \in e.was \cup e.is
    BY DEF Shaped
<1> QED
    BY <1>1, Zenon DEF ObjectOf

LEMMA SchemaReportFacts ==
    ASSUME InputInv, NEW e \in SchemaReports
    PROVE  e.schema \in Nat /\ e.action \in {"CREATE", "DROP"} /\ e.was = {} /\ e.is = {}
<1>1. CASE \E i \in DOMAIN old : e = Placed(old[i].name, Entry("DROP", {}, {}))
    <2>1. PICK i \in DOMAIN old : e = Placed(old[i].name, Entry("DROP", {}, {}))
        BY <1>1
    <2>2. old[i].name \in Nat
        BY DatabaseFacts DEF InputInv, IsSchema
    <2> QED
        BY <2>1, <2>2, PlacedFacts DEF Entry
<1>2. CASE \E i \in DOMAIN new : e = Placed(new[i].name, Entry("CREATE", {}, {}))
    <2>1. PICK i \in DOMAIN new : e = Placed(new[i].name, Entry("CREATE", {}, {}))
        BY <1>2
    <2>2. new[i].name \in Nat
        BY DatabaseFacts DEF InputInv, IsSchema
    <2> QED
        BY <2>1, <2>2, PlacedFacts DEF Entry
<1> QED
    BY <1>1, <1>2 DEF SchemaReports, Unmatched

LEMMA SortDiffsKeeps ==
    ASSUME IInv, SortDiffs
    PROVE  IInv'
<1> DEFINE schemas == mdiff["schema"]
           m == mdiff["table"]
           s == Sorted(m, BeforeTable)
           R == TableOrder(m)
<1>1. /\ phase = "sort" /\ phase' = "done" /\ UNCHANGED <<old, new, ignored, at, stage>>
      /\ mdiff' = [mdiff EXCEPT !["schema"] = Sorted(schemas, Before), !["table"] = s]
    BY DEF SortDiffs
<1>2. /\ DOMAIN mdiff = Kinds /\ \A k \in Kinds : IsList(mdiff[k])
      /\ "table" \in Kinds /\ "schema" \in Kinds /\ "table" \in ToSet(ObjectKinds)
    BY StateFacts, KindFacts
<1>3. /\ DOMAIN mdiff' = Kinds
      /\ mdiff'["schema"] = Sorted(schemas, Before) /\ mdiff'["table"] = s
      /\ \A k \in Kinds \ {"schema", "table"} : mdiff'[k] = mdiff[k]
    BY <1>1, <1>2
<1>4. IsList(mdiff'["schema"]) /\ ToSet(mdiff'["schema"]) = ToSet(schemas)
    <2> DEFINE t == Sorted(schemas, Before)
    <2>1. \A e \in ToSet(schemas) : e.schema \in Nat
        BY SchemaReportFacts DEF IInv, SchemaInv
    <2>2. IsList(schemas)
        BY <1>2
    <2>3. DOMAIN t = DOMAIN schemas /\ t = [n \in DOMAIN t |-> t[n]]
        BY DEF Sorted
    <2> HIDE DEF t, schemas
    <2>4. PICK P : Permuted(schemas, P, t)
        BY <2>1, <2>2, SortedSchemas DEF t
    <2>5. IsList(t) /\ ToSet(t) = ToSet(schemas)
        BY <2>2, <2>3, <2>4, PermutedFacts
    <2> QED
        BY <2>5, <1>3 DEF t
<1>5. \A e \in ToSet(m) : /\ Shaped(e) /\ e.schema \in Nat
                          /\ ObjectOf(e) \in e.was \cup e.is /\ ObjectOf(e).name \in Nat
    <2> SUFFICES ASSUME NEW e \in ToSet(m)
                 PROVE  /\ Shaped(e) /\ e.schema \in Nat
                        /\ ObjectOf(e) \in e.was \cup e.is /\ ObjectOf(e).name \in Nat
        OBVIOUS
    <2>1. e \in Reported("table") /\ InputInv
        BY <1>2 DEF IInv, ReportInv
    <2>2. Shaped(e) /\ e.schema \in Nat /\ \A t \in e.was \cup e.is : t.name \in Nat
        BY <1>2, <2>1, ReportedFacts
    <2> QED
        BY <2>2, ObjectOfEntry
<1>6. IsList(m)
    BY <1>2
<1>7. DOMAIN s = DOMAIN m /\ s = [n \in DOMAIN s |-> s[n]]
    BY DEF Sorted
<1> HIDE DEF s, m, schemas, R
<1>8. Permuted(m, R, s)
    BY <1>5, <1>6, SortedTables DEF s, R
<1>9. IsList(s) /\ ToSet(s) = ToSet(m)
    BY <1>6, <1>7, <1>8, PermutedFacts
<1>10. PICK p \in [DOMAIN m -> DOMAIN m] :
            /\ \A n \in DOMAIN m : s[n] = m[p[n]]
            /\ \A i, j \in DOMAIN m : i < j => <<p[i], p[j]>> \in R
            /\ \A i, j \in DOMAIN m : p[i] = p[j] => i = j
    BY <1>8 DEF Permuted
<1>11. OneEntryIn("table", m)
    BY <1>2, OneEntryEverywhere DEF IInv, m
<1>12. InputInv'
    BY <1>1, InputStays DEF IInv
<1>13. LoopInv'
    <2>1. \A k \in Kinds : IsList(mdiff'[k])
        BY <1>2, <1>3, <1>4, <1>9
    <2>2. at \in Nat /\ at >= 1 /\ at <= Len(new) + 1 /\ stage = 1
        BY <1>1, StateFacts DEF IInv, LoopInv
    <2> QED
        BY <1>1, <1>3, <2>1, <2>2 DEF LoopInv
<1>14. ReportInv'
    <2>1. \A k : Compared(k)' = Compared(k)
        BY <1>1 DEF Compared, Reached
    <2>2. Added' = Added
        BY <1>1 DEF Added
    <2>3. \A k : Reported(k)' = Reported(k)
        BY <1>1, <2>1, <2>2, ReportStays
    <2>4. ASSUME NEW k \in ToSet(ObjectKinds) PROVE ToSet(mdiff'[k]) = ToSet(mdiff[k])
        BY <1>3, <1>9, KindFacts DEF m
    <2> QED
        BY <2>3, <2>4 DEF IInv, ReportInv
<1>15. SchemaInv'
    <2>1. SchemaReports' = SchemaReports
        BY <1>1 DEF SchemaReports, Unmatched
    <2> QED
        BY <2>1, <1>4 DEF IInv, SchemaInv, schemas
<1>16. OneEntryPerObject'
    <2>1. OneEntryIn("table", s)
        BY <1>7, <1>10, <1>11 DEF OneEntryIn
    <2>2. \A k \in ToSet(ObjectKinds) : OneEntryIn(k, mdiff'[k])
        BY <1>3, <2>1, KindFacts, OneEntryEverywhere DEF IInv
    <2> QED
        BY <2>2 DEF OneEntryPerObject, OneEntryIn
<1>17. TableOrderIsDetermined'
    <2> SUFFICES ASSUME NEW i \in DOMAIN m, NEW j \in DOMAIN m, i < j
                 PROVE  BeforeTable(s[i], s[j])
        BY <1>3, <1>7 DEF TableOrderIsDetermined
    <2> DEFINE d == m[p[i]]
               e == m[p[j]]
    <2>1. s[i] = d /\ s[j] = e /\ p[i] \in DOMAIN m /\ p[j] \in DOMAIN m /\ <<p[i], p[j]>> \in R
        BY <1>10
    <2>2. p[i] # p[j]
        <3>1. i # j
            BY <1>6, ListFacts
        <3> QED
            BY <1>10, <3>1
    <2>3. d \in ToSet(m) /\ e \in ToSet(m)
        BY <2>1, <1>6, ListFacts
    <2>4. \/ d.schema < e.schema
          \/ d.schema = e.schema /\ ObjectOf(d).name <= ObjectOf(e).name
        <3>1. \A k \in DOMAIN m : ObjectOf(m[k]).name \in Nat
            BY <1>5, <1>6, ListFacts
        <3>2. \A k, l \in DOMAIN m : <<k, l>> \in R =>
                    \/ m[k].schema < m[l].schema
                    \/ m[k].schema = m[l].schema /\ ObjectOf(m[k]).name <= ObjectOf(m[l]).name
            BY <3>1 DEF R, TableOrder, Lexicographic
        <3> QED
            BY <3>2, <2>1
    <2>5. ASSUME d.schema = e.schema, ObjectOf(d).name = ObjectOf(e).name PROVE FALSE
        <3>1. Key("table", ObjectOf(d)) = Key("table", ObjectOf(e))
            BY <2>5 DEF Key, ByName
        <3> QED
            BY <1>5, <1>11, <2>1, <2>2, <2>3, <2>5, <3>1 DEF OneEntryIn
    <2>6. ObjectOf(d).name \in Nat /\ ObjectOf(e).name \in Nat
        BY <1>5, <2>3
    <2> QED
        BY <2>1, <2>4, <2>5, <2>6 DEF BeforeTable
<1> QED
    BY <1>12, <1>13, <1>14, <1>15, <1>16, <1>17 DEF IInv

LEMMA NextKeeps == IInv /\ [Next]_vars => IInv'
<1> SUFFICES ASSUME IInv, [Next]_vars PROVE IInv'
    OBVIOUS
<1>1. CASE DropSchema
    BY <1>1, DropSchemaKeeps
<1>2. CASE DroppedDone
    BY <1>2, DroppedDoneKeeps
<1>3. CASE CreateSchema
    BY <1>3, CreateSchemaKeeps
<1>4. CASE CreatedDone
    BY <1>4, CreatedDoneKeeps
<1>5. CASE SkipDroppedSchema
    BY <1>5, SkipDroppedSchemaKeeps
<1>6. CASE \E kind \in ToSet(ObjectKinds) : CompareLists(kind)
    BY <1>6, CompareListsKeeps
<1>7. CASE SharedDone
    BY <1>7, SharedDoneKeeps
<1>8. CASE SkipSharedSchema
    BY <1>8, SkipSharedSchemaKeeps
<1>9. CASE AddNewSchema
    BY <1>9, AddNewSchemaKeeps
<1>10. CASE NewDone
    BY <1>10, NewDoneKeeps
<1>11. CASE SortDiffs
    BY <1>11, SortDiffsKeeps
<1>12. CASE UNCHANGED vars
    <2>1. UNCHANGED <<old, new, ignored, phase, at, stage, mdiff>>
        BY <1>12 DEF vars
    <2>3. \A k : Reported(k)' = Reported(k)
        <3>1. \A k : Compared(k)' = Compared(k)
            BY <2>1 DEF Compared, Reached
        <3>2. Added' = Added
            BY <2>1 DEF Added
        <3> QED
            BY <2>1, <3>1, <3>2, ReportStays
    <2>4. SchemaReports' = SchemaReports
        BY <2>1 DEF SchemaReports, Unmatched
    <2>5. InputInv' /\ LoopInv'
        BY <2>1, InputStays DEF IInv, LoopInv
    <2>6. ReportInv' /\ SchemaInv'
        BY <2>1, <2>3, <2>4 DEF IInv, ReportInv, SchemaInv
    <2>7. OneEntryPerObject' /\ TableOrderIsDetermined'
        BY <2>1 DEF IInv, OneEntryPerObject, TableOrderIsDetermined
    <2> QED
        BY <2>5, <2>6, <2>7 DEF IInv
<1> QED
    BY <1>1, <1>2, <1>3, <1>4, <1>5, <1>6, <1>7, <1>8, <1>9, <1>10, <1>11, <1>12, KindFacts
    DEF Next, CompareTables, CompareViews, CompareMaterializedViews, CompareFunctions,
        CompareProcedures, CompareSequences, CompareEnumTypes, CompareEvents, CompareExtensions

LEMMA InvariantHolds == Spec => []IInv
<1> QED
    BY InitIsInv, NextKeeps, PTL DEF Spec

\* The result has the shape of a MetadataDiff at every step: CREATE entries have no old
\* object, DROP entries no new one, ALTER entries have both (diff/types.go 47-142), and
\* the loops stay in the lists they run over (compare.go 59-181).
THEOREM DiffIsTyped == Spec => []TypeOK
<1>1. IInv => TypeOK
    <2> SUFFICES ASSUME IInv PROVE TypeOK
        OBVIOUS
    <2>1. \A k \in Kinds : \A i \in DOMAIN mdiff[k] : mdiff[k][i] \in ToSet(mdiff[k])
        BY StateFacts, ListFacts
    <2>2. ASSUME NEW k \in ToSet(ObjectKinds), NEW e \in ToSet(mdiff[k])
          PROVE  Shaped(e) /\ e.schema \in Nat /\ k # "schema"
        <3>1. e \in Reported(k) /\ InputInv
            BY <2>2 DEF IInv, ReportInv
        <3> QED
            BY <3>1, ReportedFacts, KindFacts
    <2>3. ASSUME NEW e \in ToSet(mdiff["schema"])
          PROVE  e.schema \in Nat /\ e.action \in {"CREATE", "DROP"} /\ e.was = {} /\ e.is = {}
        BY <2>3, SchemaReportFacts DEF IInv, SchemaInv
    <2>4. at \in 1..Len(old) + Len(new) + 1
        BY StateFacts DEF IInv, LoopInv
    <2>5. phase \in {"dropped", "created", "shared", "new", "sort", "done"} /\ stage \in 1..Len(ObjectKinds)
        BY KindFacts DEF IInv, LoopInv
    <2>6. ASSUME NEW k \in Kinds, NEW i \in DOMAIN mdiff[k]
          PROVE  /\ mdiff[k][i].schema \in Nat
                 /\ mdiff[k][i].action \in {"CREATE", "DROP", "ALTER"}
                 /\ (mdiff[k][i].was = {}) = (k = "schema" \/ mdiff[k][i].action = "CREATE")
                 /\ (mdiff[k][i].is = {}) = (k = "schema" \/ mdiff[k][i].action = "DROP")
        <3>1. mdiff[k][i] \in ToSet(mdiff[k])
            BY <2>1
        <3>2. CASE k = "schema"
            BY <3>1, <3>2, <2>3
        <3>3. CASE k \in ToSet(ObjectKinds)
            BY <3>1, <3>3, <2>2 DEF Shaped
        <3> QED
            BY <3>2, <3>3, KindFacts
    <2> QED
        BY <2>4, <2>5, <2>6 DEF TypeOK
<1> QED
    BY <1>1, InvariantHolds, PTL

\* No object is reported twice, whatever order the maps are ranged over: nothing is
\* both dropped and created, and the loop over the new schemas repeats nothing of the
\* loop over the shared ones (compare.go 59-139).
THEOREM ObjectsAreReportedOnce == Spec => []OneEntryPerObject
<1>1. IInv => OneEntryPerObject
    BY DEF IInv
<1> QED
    BY <1>1, InvariantHolds, PTL

\* The sort at the end leaves the entries of tables in one order, by schema and name,
\* whatever order the maps gave them in: no two compare alike (compare.go 1236-1260).
THEOREM TablesComeInOneOrder == Spec => []TableOrderIsDetermined
<1>1. IInv => TableOrderIsDetermined
    BY DEF IInv
<1> QED
    BY <1>1, InvariantHolds, PTL

(***************************************************************************)
(* What the entries for a pair of schemas amount to.                       *)
(***************************************************************************)
LEMMA SameFlags ==
    ASSUME NEW o, NEW n
    PROVE  EnumFlags(o, n) # {} <=> o.def # n.def
<1> DEFINE added == ToSet(n.def) \ ToSet(o.def)
           removed == ToSet(o.def) \ ToSet(n.def)
<1>1. EnumFlags(o, n) = {f \in {"added", "removed", "reordered"} :
            \/ f = "added" /\ added # {}
            \/ f = "removed" /\ removed # {}
            \/ f = "reordered" /\ added = {} /\ removed = {} /\ o.def # n.def}
    BY DEF EnumFlags
<1>2. o.def = n.def => added = {} /\ removed = {}
    OBVIOUS
<1> HIDE DEF added, removed
<1> QED
    BY <1>1, <1>2

\* Two lists in which an entry tells of every difference.
Comparable(k, olds, news) ==
    /\ IsList(olds) /\ (k # "procedure" => UniqueKeys(k, olds))
    /\ IsList(news) /\ (k # "procedure" => UniqueKeys(k, news))
    /\ k = "table" => \A t \in ToSet(olds) \cup ToSet(news) : IsTable(t)
    /\ k # "table" => \A p \in Shared(k, olds, news) : Changed(k, p[1], p[2]) <=> p[1] # p[2]

\* What is compared of a list is what the map of it holds.
LEMMA SeenIsIndexed ==
    ASSUME NEW k, NEW list, IsList(list), k # "procedure" => UniqueKeys(k, list)
    PROVE  Indexed(k, list) = Seen(k, list)
<1>1. CASE k = "procedure"
    <2>1. \A o, n : Key("procedure", o) = Key("procedure", n) <=> o.name = n.name
        BY DEF Key, ByName
    <2> QED
        BY <1>1, <2>1 DEF Indexed, Seen, LastOverloads
<1>2. CASE k # "procedure"
    BY <1>2, IndexedFacts DEF Seen
<1> QED
    BY <1>1, <1>2

LEMMA ListsAreComparable ==
    ASSUME InputInv, NEW i \in DOMAIN old, NEW j \in DOMAIN new, NEW k \in ToSet(ObjectKinds)
    PROVE  Comparable(k, old[i].lists[k], new[j].lists[k])
<1> DEFINE olds == old[i].lists[k]
           news == new[j].lists[k]
<1>1. IsSchema(old[i]) /\ IsSchema(new[j])
    BY DatabaseFacts DEF InputInv
<1>2. /\ IsList(olds) /\ (k # "procedure" => UniqueKeys(k, olds))
      /\ \A o \in ToSet(olds) : IF k = "table" THEN IsTable(o) ELSE IsObject(o)
    BY <1>1 DEF IsSchema, InputInv
<1>3. /\ IsList(news) /\ (k # "procedure" => UniqueKeys(k, news))
      /\ \A o \in ToSet(news) : IF k = "table" THEN IsTable(o) ELSE IsObject(o)
    BY <1>1 DEF IsSchema, InputInv
<1>4. k \notin {"table", "function"} => DefinitionsTellArguments(olds, news)
    BY DEF InputInv
<1> HIDE DEF olds, news
<1>5. ASSUME k # "table", NEW p \in Shared(k, olds, news)
      PROVE  Changed(k, p[1], p[2]) <=> p[1] # p[2]
    <2>1. p[1] \in ToSet(olds) /\ p[2] \in ToSet(news) /\ Key(k, p[1]) = Key(k, p[2])
        BY <1>2, <1>3, SharedPairs, IndexedFacts
    <2>2. p[1].name = p[2].name /\ (k = "function" => p[1].arg = p[2].arg)
        BY <2>1 DEF Key, ByName, BySignature
    <2>3. Changed(k, p[1], p[2]) <=> p[1].def # p[2].def
        BY <1>5, SameFlags DEF Changed, DefChanged
    <2>4. p[1].def = p[2].def => p[1].arg = p[2].arg
        BY <1>4, <1>5, <2>1, <2>2 DEF DefinitionsTellArguments
    <2>5. IsObject(p[1]) /\ IsObject(p[2])
        BY <1>2, <1>3, <1>5, <2>1
    <2>6. p[1] = p[2] <=> p[1].def = p[2].def
        BY <2>2, <2>4, <2>5 DEF IsObject
    <2> QED
        BY <2>3, <2>6
<1>6. k = "table" => \A t \in ToSet(olds) \cup ToSet(news) : IsTable(t)
    BY <1>2, <1>3
<1> QED
    BY <1>2, <1>3, <1>5, <1>6 DEF Comparable, olds, news

\* The entries of a call, each with the schema it is placed in.
PlacedEntries(schema, entries) == {Placed(schema, e) : e \in entries}

LEMMA PlacedIn ==
    ASSUME NEW schema, NEW entries, NEW placed, placed = PlacedEntries(schema, entries)
    PROVE  WasIn(placed) = WasIn(entries) /\ IsIn(placed) = IsIn(entries)
<1>1. \A x : x \in WasIn(placed) <=> \E e \in placed : x \in e.was
    BY DEF WasIn
<1>2. \A x : x \in WasIn(entries) <=> \E e \in entries : x \in e.was
    BY DEF WasIn
<1>3. \A x : x \in IsIn(placed) <=> \E e \in placed : x \in e.is
    BY DEF IsIn
<1>4. \A x : x \in IsIn(entries) <=> \E e \in entries : x \in e.is
    BY DEF IsIn
<1>5. ASSUME NEW e \in placed PROVE \E f \in entries : e.was = f.was /\ e.is = f.is
    BY PlacedFacts DEF PlacedEntries
<1>6. ASSUME NEW f \in entries PROVE \E e \in placed : e.was = f.was /\ e.is = f.is
    BY PlacedFacts DEF PlacedEntries
<1>7. \A x : x \in WasIn(placed) <=> x \in WasIn(entries)
    <2> TAKE x
    <2>1. (\E e \in placed : x \in e.was) <=> \E f \in entries : x \in f.was
        BY <1>5, <1>6
    <2> QED
        BY <1>1, <1>2, <2>1
<1>8. \A x : x \in IsIn(placed) <=> x \in IsIn(entries)
    <2> TAKE x
    <2>1. (\E e \in placed : x \in e.is) <=> \E f \in entries : x \in f.is
        BY <1>5, <1>6
    <2> QED
        BY <1>3, <1>4, <2>1
<1> QED
    BY <1>7, <1>8

\* Objects other than tables.
LEMMA PatchedObjects ==
    ASSUME NEW k, k # "table", NEW olds, NEW news, Comparable(k, olds, news), NEW schema,
           {e \in ToSet(mdiff[k]) : e.schema = schema}
                = PlacedEntries(schema, EntriesOf(k, olds, news, AlteredIn(k, olds, news)))
    PROVE  Patched(k, schema, olds) = Reconciled(k, olds, news)
<1> DEFINE pairs == AlteredIn(k, olds, news)
           E == EntriesOf(k, olds, news, pairs)
           entries == {e \in ToSet(mdiff[k]) : e.schema = schema}
           altered == {e \in entries : e.action = "ALTER"}
           kept == {o \in ToSet(olds) : \A e \in entries : o \notin e.was}
<1>1. Patched(k, schema, olds) = (kept \cup IsIn(entries \ altered)) \cup IsIn(altered)
    BY DEF Patched, Contents
<1>2. IsIn(entries \ altered) \cup IsIn(altered) = IsIn(entries)
    BY DEF IsIn
<1>3. kept = ToSet(olds) \ WasIn(entries)
    BY DEF WasIn
<1>4. pairs \in SUBSET Shared(k, olds, news) /\ \A p \in Shared(k, olds, news) \ pairs : p[1] = p[2]
    BY DEF AlteredIn, Comparable
<1>5. entries = PlacedEntries(schema, E)
    OBVIOUS
<1> HIDE DEF pairs, entries, altered, kept
<1>6. (ToSet(olds) \ WasIn(E)) \cup IsIn(E) = Seen(k, news) \cup (ToSet(olds) \ Seen(k, olds))
    <2>1. (ToSet(olds) \ WasIn(E)) \cup IsIn(E) = Indexed(k, news) \cup (ToSet(olds) \ Indexed(k, olds))
        BY <1>4, ListReconciles DEF Comparable
    <2> QED
        BY <2>1, SeenIsIndexed DEF Comparable
<1>7. WasIn(entries) = WasIn(E) /\ IsIn(entries) = IsIn(E)
    BY <1>5, PlacedIn
<1>8. Reconciled(k, olds, news) = Seen(k, news) \cup (ToSet(olds) \ Seen(k, olds))
    BY DEF Reconciled, Contents
<1> HIDE DEF E
<1> QED
    BY <1>1, <1>2, <1>3, <1>6, <1>7, <1>8

\* The three sorts of entries.
Dropping(schema, o) == Placed(schema, Entry("DROP", {o}, {}))
Creating(schema, n) == Placed(schema, Entry("CREATE", {}, {n}))
Altering(schema, p) == Placed(schema, Entry("ALTER", {p[1]}, {p[2]}))

LEMMA DroppingFacts ==
    ASSUME NEW schema, NEW o, NEW e, e = Dropping(schema, o)
    PROVE  e.action = "DROP" /\ e.was = {o} /\ e.is = {}
BY DEF Dropping, Placed, Entry

LEMMA CreatingFacts ==
    ASSUME NEW schema, NEW n, NEW e, e = Creating(schema, n)
    PROVE  e.action = "CREATE" /\ e.was = {} /\ e.is = {n}
BY DEF Creating, Placed, Entry

LEMMA AlteringFacts ==
    ASSUME NEW schema, NEW p, NEW e, e = Altering(schema, p)
    PROVE  e.action = "ALTER" /\ e.was = {p[1]} /\ e.is = {p[2]}
BY DEF Altering, Placed, Entry

\* Two lists of tables, and the pairs that are altered.
LEMMA TablesOfLists ==
    ASSUME NEW olds, NEW news, Comparable("table", olds, news)
    PROVE  /\ Indexed("table", olds) = ToSet(olds) /\ Indexed("table", news) = ToSet(news)
           /\ \A t, u \in ToSet(olds) : t.name = u.name => t = u
           /\ \A t, u \in ToSet(news) : t.name = u.name => t = u
           /\ \A t \in ToSet(olds) \cup ToSet(news) : IsTable(t)
<1>1. \A t, u : Key("table", t) = Key("table", u) <=> t.name = u.name
    BY DEF Key, ByName
<1>2. Indexed("table", olds) = ToSet(olds) /\ Indexed("table", news) = ToSet(news)
    BY IndexedFacts DEF Comparable
<1>3. \A t \in ToSet(olds) \cup ToSet(news) : IsTable(t)
    BY DEF Comparable
<1> QED
    BY <1>1, <1>2, <1>3, IndexedFacts DEF Comparable

LEMMA AlteredTables ==
    ASSUME NEW olds, NEW news, Comparable("table", olds, news)
    PROVE  /\ \A p \in AlteredIn("table", olds, news) :
                /\ p[1] \in ToSet(olds) /\ p[2] \in ToSet(news) /\ p[1].name = p[2].name
                /\ p = <<p[1], p[2]>>
           /\ \A o \in ToSet(olds), n \in ToSet(news) : o.name = n.name =>
                (<<o, n>> \in AlteredIn("table", olds, news) <=> HasChanges(o, n))
<1> DEFINE pairs == AlteredIn("table", olds, news)
<1>1. ASSUME NEW p \in pairs
      PROVE  /\ p[1] \in ToSet(olds) /\ p[2] \in ToSet(news) /\ p[1].name = p[2].name
             /\ p = <<p[1], p[2]>>
    <2>1. p \in Shared("table", olds, news)
        BY DEF AlteredIn
    <2>2. /\ p[1] \in ToSet(olds) /\ p[2] \in ToSet(news) /\ Key("table", p[1]) = Key("table", p[2])
          /\ p = <<p[1], p[2]>>
        BY <2>1, SharedPairs, TablesOfLists
    <2> QED
        BY <2>2 DEF Key, ByName
<1>2. ASSUME NEW o \in ToSet(olds), NEW n \in ToSet(news), o.name = n.name
      PROVE  <<o, n>> \in pairs <=> HasChanges(o, n)
    <2>1. <<o, n>> \in Shared("table", olds, news)
        BY <1>2, TablesOfLists DEF Shared, Key, ByName
    <2> QED
        BY <2>1 DEF AlteredIn, Changed
<1> QED
    BY <1>1, <1>2

\* The entries of a call on two lists of tables.
LEMMA EntriesOfTables ==
    ASSUME NEW olds, NEW news, Comparable("table", olds, news), NEW schema,
           NEW pairs, pairs = AlteredIn("table", olds, news), NEW e
    PROVE  e \in PlacedEntries(schema, EntriesOf("table", olds, news, pairs)) <=>
                \/ \E o \in ToSet(olds) : (\A n \in ToSet(news) : n.name # o.name) /\ e = Dropping(schema, o)
                \/ \E n \in ToSet(news) : (\A o \in ToSet(olds) : n.name # o.name) /\ e = Creating(schema, n)
                \/ \E p \in pairs : e = Altering(schema, p)
<1> DEFINE X == ToSet(olds)
           Y == ToSet(news)
           E == EntriesOf("table", olds, news, pairs)
<1>1. e \in PlacedEntries(schema, E) <=> \E f \in E : e = Placed(schema, f)
    BY DEF PlacedEntries
<1>2. ASSUME NEW f
      PROVE  f \in E <=>
                \/ \E o \in X : (\A n \in Y : n.name # o.name) /\ f = Entry("DROP", {o}, {})
                \/ \E n \in Y : (\A o \in X : n.name # o.name) /\ f = Entry("CREATE", {}, {n})
                \/ \E p \in pairs : f = Entry("ALTER", {p[1]}, {p[2]})
    <2>1. \A t, u : Key("table", t) = Key("table", u) <=> t.name = u.name
        BY DEF Key, ByName
    <2> DEFINE I == Indexed("table", olds)
               J == Indexed("table", news)
    <2>2. f \in Drops("table", olds, news) <=>
            \E o \in I : (\A n \in J : Key("table", n) # Key("table", o)) /\ f = Entry("DROP", {o}, {})
        BY Zenon DEF Drops
    <2>3. f \in Creates("table", olds, news) <=>
            \E n \in J : (\A o \in I : Key("table", n) # Key("table", o)) /\ f = Entry("CREATE", {}, {n})
        BY Zenon DEF Creates
    <2>4. f \in Alters(pairs) <=> \E p \in pairs : f = Entry("ALTER", {p[1]}, {p[2]})
        BY Zenon DEF Alters
    <2>5. I = X /\ J = Y
        BY TablesOfLists
    <2>6. f \in E <=> f \in Drops("table", olds, news) \/ f \in Creates("table", olds, news)
                        \/ f \in Alters(pairs)
        BY DEF EntriesOf
    <2> HIDE DEF X, Y, I, J, E
    <2> QED
        BY <2>1, <2>2, <2>3, <2>4, <2>5, <2>6
<1> HIDE DEF X, Y, E
<1>3. e \in PlacedEntries(schema, E) <=>
            \/ \E o \in X : (\A n \in Y : n.name # o.name) /\ e = Dropping(schema, o)
            \/ \E n \in Y : (\A o \in X : n.name # o.name) /\ e = Creating(schema, n)
            \/ \E p \in pairs : e = Altering(schema, p)
    BY <1>1, <1>2 DEF Dropping, Creating, Altering
<1> QED
    BY <1>3 DEF X, Y, E

LEMMA PatchedTables ==
    ASSUME NEW olds, NEW news, Comparable("table", olds, news), NEW schema,
           {e \in ToSet(mdiff["table"]) : e.schema = schema}
                = PlacedEntries(schema, EntriesOf("table", olds, news, AlteredIn("table", olds, news)))
    PROVE  Patched("table", schema, olds) = ListContents("table", news)
<1> DEFINE pairs == AlteredIn("table", olds, news)
           E == EntriesOf("table", olds, news, pairs)
           entries == {e \in ToSet(mdiff["table"]) : e.schema = schema}
           altered == {e \in entries : e.action = "ALTER"}
           kept == {o \in ToSet(olds) : \A e \in entries : o \notin e.was}
           X == ToSet(olds)
           Y == ToSet(news)
           applied == UNION {{Applied(o, n) : o \in e.was, n \in e.is} : e \in altered}
<1>1. Patched("table", schema, olds)
        = {Content(t) : t \in kept \cup IsIn(entries \ altered)} \cup applied
    BY DEF Patched, Contents, Content
<1>2. ListContents("table", news) = {Content(t) : t \in Y}
    BY DEF ListContents, Contents, Content
<1>3. /\ Indexed("table", olds) = X /\ Indexed("table", news) = Y
      /\ \A t, u \in X : t.name = u.name => t = u
      /\ \A t, u \in Y : t.name = u.name => t = u
    BY TablesOfLists
<1>4. /\ \A t \in X \cup Y : IsTable(t)
      /\ \A p \in pairs : p[1] \in X /\ p[2] \in Y /\ p[1].name = p[2].name
                            /\ Applied(p[1], p[2]) = Content(p[2])
      /\ \A o \in X, n \in Y : o.name = n.name /\ <<o, n>> \notin pairs => Content(o) = Content(n)
    <2>1. \A t \in X \cup Y : IsTable(t)
        BY TablesOfLists
    <2>2. \A p \in pairs : p[1] \in X /\ p[2] \in Y /\ p[1].name = p[2].name
        BY AlteredTables
    <2>3. ASSUME NEW p \in pairs PROVE Applied(p[1], p[2]) = Content(p[2])
        BY <2>1, <2>2, AppliedTable
    <2>4. ASSUME NEW o \in X, NEW n \in Y, o.name = n.name, <<o, n>> \notin pairs
          PROVE  Content(o) = Content(n)
        <3>1. ~HasChanges(o, n)
            BY <2>4, AlteredTables
        <3> QED
            BY <2>1, <2>4, <3>1, ChangesOfTable
    <2> QED
        BY <2>1, <2>2, <2>3, <2>4
<1>5. ASSUME NEW e
      PROVE  e \in entries <=>
                \/ \E o \in X : (\A n \in Y : n.name # o.name) /\ e = Dropping(schema, o)
                \/ \E n \in Y : (\A o \in X : n.name # o.name) /\ e = Creating(schema, n)
                \/ \E p \in pairs : e = Altering(schema, p)
    <2>1. entries = PlacedEntries(schema, EntriesOf("table", olds, news, pairs))
        OBVIOUS
    <2> HIDE DEF entries, pairs
    <2> QED
        BY <2>1, EntriesOfTables DEF pairs
<1>6. \A e : e \in altered <=> \E p \in pairs : e = Altering(schema, p)
    <2>1. \A e : e \in altered <=> e \in entries /\ e.action = "ALTER"
        OBVIOUS
    <2> HIDE DEF entries, altered, pairs, X, Y
    <2> QED
        BY <1>5, <2>1, DroppingFacts, CreatingFacts, AlteringFacts
<1>7. applied = {Content(p[2]) : p \in pairs}
    <2>1. \A p : Altering(schema, p).was = {p[1]} /\ Altering(schema, p).is = {p[2]}
        BY DroppingFacts, CreatingFacts, AlteringFacts
    <2> HIDE DEF altered, pairs, X, Y, entries
    <2>2. ASSUME NEW c PROVE c \in applied <=> \E p \in pairs : c = Content(p[2])
        <3>1. c \in applied <=> \E e \in altered : \E o \in e.was, n \in e.is : c = Applied(o, n)
            OBVIOUS
        <3> HIDE DEF applied
        <3>2. ASSUME NEW p \in pairs, c = Content(p[2]) PROVE c \in applied
            <4>1. PICK e \in altered : e = Altering(schema, p)
                BY <1>6
            <4>2. p[1] \in e.was /\ p[2] \in e.is
                BY <4>1, AlteringFacts
            <4>3. c = Applied(p[1], p[2])
                BY <1>4, <3>2
            <4> QED
                BY <3>1, <4>2, <4>3
        <3>3. ASSUME c \in applied PROVE \E p \in pairs : c = Content(p[2])
            <4>1. PICK e \in altered : \E o \in e.was, n \in e.is : c = Applied(o, n)
                BY <3>1, <3>3
            <4>2. PICK p \in pairs : e = Altering(schema, p)
                BY <1>6
            <4>3. c = Applied(p[1], p[2])
                BY <2>1, <4>1, <4>2
            <4> QED
                BY <1>4, <4>3
        <3> QED
            BY <3>2, <3>3
    <2> HIDE DEF applied
    <2> QED
        BY <2>2
<1>8. ASSUME NEW t
      PROVE  t \in kept <=> /\ t \in X /\ \E n \in Y : n.name = t.name
                            /\ \A p \in pairs : t # p[1]
    <2>1. t \in kept <=> t \in X /\ \A e \in entries : t \notin e.was
        OBVIOUS
    <2> HIDE DEF kept, pairs, X, Y, entries
    <2>2. ASSUME t \in X, \A n \in Y : n.name # t.name PROVE \E e \in entries : t \in e.was
        <3>1. Dropping(schema, t) \in entries
            BY <1>5, <2>2
        <3> QED
            BY <3>1, DroppingFacts, CreatingFacts, AlteringFacts
    <2>3. ASSUME NEW p \in pairs, t = p[1] PROVE \E e \in entries : t \in e.was
        <3>1. Altering(schema, p) \in entries
            BY <1>5
        <3> QED
            BY <2>3, <3>1, DroppingFacts, CreatingFacts, AlteringFacts
    <2>4. ASSUME NEW e \in entries, t \in e.was
          PROVE  (\A n \in Y : n.name # t.name) \/ \E p \in pairs : t = p[1]
        BY <1>5, <2>4, DroppingFacts, CreatingFacts, AlteringFacts
    <2> QED
        BY <2>1, <2>2, <2>3, <2>4
<1>9. ASSUME NEW t
      PROVE  t \in IsIn(entries \ altered) <=> t \in Y /\ \A o \in X : t.name # o.name
    <2>1. t \in IsIn(entries \ altered) <=> \E e \in entries : e \notin altered /\ t \in e.is
        BY DEF IsIn
    <2>2. \A e \in entries : e \in altered <=> e.action = "ALTER"
        OBVIOUS
    <2> HIDE DEF altered, pairs, X, Y, entries
    <2>3. ASSUME t \in Y, \A o \in X : t.name # o.name
          PROVE  \E e \in entries : e \notin altered /\ t \in e.is
        <3>1. Creating(schema, t) \in entries
            BY <1>5, <2>3
        <3> QED
            BY <2>2, <3>1, DroppingFacts, CreatingFacts, AlteringFacts
    <2>4. ASSUME NEW e \in entries, e \notin altered, t \in e.is
          PROVE  t \in Y /\ \A o \in X : t.name # o.name
        <3>1. PICK n \in Y : (\A o \in X : n.name # o.name) /\ e = Creating(schema, n)
            BY <1>5, <1>6, <2>4, DroppingFacts, CreatingFacts, AlteringFacts
        <3>2. t = n
            BY <2>4, <3>1, DroppingFacts, CreatingFacts, AlteringFacts
        <3> QED
            BY <3>1, <3>2
    <2> QED
        BY <2>1, <2>3, <2>4
<1> DEFINE created == IsIn(entries \ altered)
<1> HIDE DEF pairs, entries, altered, kept, X, Y, applied, E, created
<1>10. ASSUME NEW t \in kept PROVE \E n \in Y : Content(t) = Content(n)
    <2>1. PICK n \in Y : n.name = t.name
        BY <1>8
    <2>2. <<t, n>> \notin pairs
        <3> DEFINE q == <<t, n>>
        <3>1. q[1] = t
            OBVIOUS
        <3> HIDE DEF q
        <3> QED
            BY <1>8, <3>1 DEF q
    <2> QED
        BY <1>4, <1>8, <2>1, <2>2
<1>11. ASSUME NEW n \in Y
       PROVE  \/ \E t \in kept \cup created : Content(n) = Content(t)
              \/ \E p \in pairs : Content(n) = Content(p[2])
    <2>1. CASE \A o \in X : n.name # o.name
        BY <2>1, <1>9 DEF created
    <2>2. CASE \E o \in X : n.name = o.name
        <3>1. PICK o \in X : n.name = o.name
            BY <2>2
        <3>2. CASE \E p \in pairs : o = p[1]
            <4>1. PICK p \in pairs : o = p[1]
                BY <3>2
            <4>2. p[2] = n
                BY <1>3, <1>4, <3>1, <4>1
            <4> QED
                BY <4>2
        <3>3. CASE \A p \in pairs : o # p[1]
            <4>1. o \in kept
                BY <1>8, <3>1, <3>3
            <4>2. <<o, n>> \notin pairs
                <5> DEFINE q == <<o, n>>
                <5>1. q[1] = o
                    OBVIOUS
                <5> HIDE DEF q
                <5> QED
                    BY <3>3, <5>1 DEF q
            <4>3. Content(o) = Content(n)
                BY <1>4, <3>1, <4>2
            <4> QED
                BY <4>1, <4>3
        <3> QED
            BY <3>2, <3>3
    <2> QED
        BY <2>1, <2>2
<1>12. \A t \in created : t \in Y
    BY <1>9 DEF created
<1>13. \A p \in pairs : p[2] \in Y
    BY <1>4
<1>14. {Content(t) : t \in kept \cup created} \cup {Content(p[2]) : p \in pairs} = {Content(t) : t \in Y}
    BY <1>10, <1>11, <1>12, <1>13
<1> QED
    BY <1>1, <1>2, <1>7, <1>14 DEF created

(***************************************************************************)
(* At the end: which entries are those of a schema.                        *)
(***************************************************************************)
LEMMA DoneFacts ==
    ASSUME IInv, phase = "done"
    PROVE  /\ InputInv
           /\ \A k \in ToSet(ObjectKinds) : ToSet(mdiff[k]) = Reported(k)
           /\ \A k : Compared(k) = {p \in ToSet(old) \X ToSet(new) : p[1].name = p[2].name}
           /\ Added = {new[i] : i \in {i \in DOMAIN new : Found(old, new[i].name) = {}}}
<1>1. \A k : Reached(k) = DOMAIN old
    BY DEF Reached
<1>2. {old[i] : i \in DOMAIN old} = ToSet(old)
    BY DEF ToSet
<1>3. \A k : Compared(k) = {p \in ToSet(old) \X ToSet(new) : p[1].name = p[2].name}
    BY <1>1, <1>2 DEF Compared
<1>4. Added = {new[i] : i \in {i \in DOMAIN new : Found(old, new[i].name) = {}}}
    BY DEF Added
<1> QED
    BY <1>3, <1>4 DEF IInv, ReportInv

LEMMA EntriesOfShared ==
    ASSUME IInv, phase = "done", NEW k \in ToSet(ObjectKinds),
           NEW i \in DOMAIN old, NEW j \in DOMAIN new, old[i].name = new[j].name
    PROVE  {e \in ToSet(mdiff[k]) : e.schema = SchemaNamed(k, old[i])} = CallEntries(k, old[i], new[j])
<1> DEFINE o == old[i]
           n == new[j]
           S == SchemaNamed(k, old[i])
<1>1. /\ InputInv /\ ToSet(mdiff[k]) = Reported(k)
      /\ Compared(k) = {p \in ToSet(old) \X ToSet(new) : p[1].name = p[2].name}
    BY DoneFacts
<1>2. o \in ToSet(old) /\ n \in ToSet(new)
    BY DatabaseFacts, <1>1 DEF InputInv
<1>3. ASSUME NEW e \in CallEntries(k, o, n) PROVE e \in ToSet(mdiff[k]) /\ e.schema = S
    <2> DEFINE q == <<o, n>>
    <2>1. q \in Compared(k) /\ q[1] = o /\ q[2] = n
        BY <1>1, <1>2
    <2>2. e.schema = S
        BY <1>3, EntrySchemas
    <2> HIDE DEF q, o, n
    <2>3. e \in Reported(k)
        BY <1>3, <2>1 DEF Reported
    <2> QED
        BY <1>1, <2>2, <2>3
<1>4. ASSUME NEW e \in ToSet(mdiff[k]), e.schema = S PROVE e \in CallEntries(k, o, n)
    <2>1. CASE \E p \in Compared(k) : e \in CallEntries(k, p[1], p[2])
        <3>1. PICK p \in Compared(k) : e \in CallEntries(k, p[1], p[2])
            BY <2>1
        <3>2. p[1] \in ToSet(old) /\ p[2] \in ToSet(new) /\ p[1].name = p[2].name
            BY <1>1
        <3>3. PICK a \in DOMAIN old : p[1] = old[a]
            BY <3>2 DEF ToSet
        <3>4. p[2] \in Found(new, old[a].name) /\ n \in Found(new, old[i].name)
            BY <1>1, <1>2, <3>2, <3>3, FoundFacts DEF InputInv
        <3>5. e \in CallEntries(k, old[a], p[2])
            BY <3>1, <3>3
        <3>6. a = i
            <4> SUFFICES ASSUME a # i PROVE FALSE
                OBVIOUS
            <4> HIDE DEF n
            <4>1. e.schema # SchemaNamed(k, old[i])
                BY <1>1, <3>4, <3>5, SchemasApart
            <4> QED
                BY <4>1, <1>4
        <3>7. p[2] = n
            BY <1>1, <3>4, <3>6, FoundFacts DEF InputInv
        <3> QED
            BY <3>5, <3>6, <3>7
    <2>2. CASE \E t \in Added : k = "table" /\ e \in TableEntries(t)
        <3>1. PICK a \in DOMAIN new : Found(old, new[a].name) = {} /\ k = "table" /\ e \in TableEntries(new[a])
            BY <2>2 DEF Added
        <3>2. e.schema = new[a].name
            BY <3>1, EntrySchemas
        <3>3. e.schema = old[i].name
            BY <1>4, <3>1 DEF SchemaNamed
        <3> QED
            BY <3>1, <3>2, <3>3 DEF Found
    <2>3. e \in Reported(k)
        BY <1>1, <1>4
    <2> QED
        BY <2>1, <2>2, <2>3 DEF Reported
<1> HIDE DEF o, n
<1>5. {e \in ToSet(mdiff[k]) : e.schema = S} = CallEntries(k, o, n)
    BY <1>3, <1>4
<1> QED
    BY <1>5 DEF o, n

LEMMA EntriesOfAdded ==
    ASSUME IInv, phase = "done", NEW j \in DOMAIN new, Found(old, new[j].name) = {}
    PROVE  {e \in ToSet(mdiff["table"]) : e.schema = new[j].name} = TableEntries(new[j])
<1> DEFINE n == new[j]
<1>1. /\ InputInv /\ ToSet(mdiff["table"]) = Reported("table")
      /\ Compared("table") = {p \in ToSet(old) \X ToSet(new) : p[1].name = p[2].name}
      /\ Added = {new[i] : i \in {i \in DOMAIN new : Found(old, new[i].name) = {}}}
    BY DoneFacts, KindFacts
<1>2. ASSUME NEW e \in TableEntries(n) PROVE e \in ToSet(mdiff["table"]) /\ e.schema = n.name
    <2>1. n \in Added /\ e.schema = n.name
        BY <1>1, <1>2, EntrySchemas
    <2> HIDE DEF n
    <2>2. e \in Reported("table")
        BY <1>2, <2>1 DEF Reported
    <2> QED
        BY <1>1, <2>1, <2>2
<1>3. ASSUME NEW e \in ToSet(mdiff["table"]), e.schema = n.name PROVE e \in TableEntries(n)
    <2>1. CASE \E p \in Compared("table") : e \in CallEntries("table", p[1], p[2])
        <3>1. PICK p \in Compared("table") : e \in CallEntries("table", p[1], p[2])
            BY <2>1
        <3>2. p[1] \in ToSet(old)
            BY <1>1
        <3>3. PICK a \in DOMAIN old : p[1] = old[a]
            BY <3>2 DEF ToSet
        <3>4. e.schema = old[a].name
            BY <3>1, <3>3, EntrySchemas DEF SchemaNamed
        <3> QED
            BY <1>3, <3>4 DEF Found
    <2>2. CASE \E t \in Added : e \in TableEntries(t)
        <3>1. PICK a \in DOMAIN new : e \in TableEntries(new[a])
            BY <1>1, <2>2
        <3>2. e.schema = new[a].name
            BY <3>1, EntrySchemas
        <3>3. a = j
            BY <1>1, <1>3, <3>2, DatabaseFacts DEF InputInv
        <3> QED
            BY <3>1, <3>3
    <2>3. e \in Reported("table")
        BY <1>1, <1>3
    <2> QED
        BY <2>1, <2>2, <2>3 DEF Reported
<1> HIDE DEF n
<1>4. {e \in ToSet(mdiff["table"]) : e.schema = n.name} = TableEntries(n)
    BY <1>2, <1>3
<1> QED
    BY <1>4 DEF n

\* The patch of a list of two schemas with one name.
LEMMA PatchedShared ==
    ASSUME IInv, phase = "done", NEW k \in ToSet(ObjectKinds),
           NEW i \in DOMAIN old, NEW j \in DOMAIN new, old[i].name = new[j].name
    PROVE  Patched(k, SchemaNamed(k, old[i]), old[i].lists[k])
                = Reconciled(k, old[i].lists[k], new[j].lists[k])
<1> DEFINE olds == old[i].lists[k]
           news == new[j].lists[k]
           S == SchemaNamed(k, old[i])
           E == EntriesOf(k, olds, news, AlteredIn(k, olds, news))
<1>1. Comparable(k, olds, news)
    BY DoneFacts, ListsAreComparable
<1>2. {e \in ToSet(mdiff[k]) : e.schema = S} = CallEntries(k, old[i], new[j])
    BY EntriesOfShared
<1>3. CallEntries(k, old[i], new[j]) = PlacedEntries(S, E)
    BY DEF CallEntries, PlacedEntries
<1> HIDE DEF S, olds, news
<1>4. {e \in ToSet(mdiff[k]) : e.schema = S} = PlacedEntries(S, EntriesOf(k, olds, news, AlteredIn(k, olds, news)))
    BY <1>2, <1>3
<1>5. CASE k # "table"
    BY <1>1, <1>4, <1>5, PatchedObjects DEF S, olds, news
<1>6. CASE k = "table"
    <2>1. Patched("table", S, olds) = ListContents("table", news)
        BY <1>1, <1>4, <1>6, PatchedTables
    <2>2. Reconciled("table", olds, news) = ListContents("table", news)
        BY DEF Reconciled, Seen, ListContents
    <2> QED
        BY <2>1, <2>2, <1>6 DEF S, olds, news
<1> QED
    BY <1>5, <1>6

LEMMA PatchedAdded ==
    ASSUME IInv, phase = "done", NEW j \in DOMAIN new, Found(old, new[j].name) = {}
    PROVE  Patched("table", new[j].name, <<>>) = ListContents("table", new[j].lists["table"])
<1> DEFINE Y == ToSet(new[j].lists["table"])
           S == new[j].name
           entries == {e \in ToSet(mdiff["table"]) : e.schema = S}
           altered == {e \in entries : e.action = "ALTER"}
           kept == {o \in ToSet(<<>>) : \A e \in entries : o \notin e.was}
           applied == UNION {{Applied(o, n) : o \in e.was, n \in e.is} : e \in altered}
<1>1. Patched("table", S, <<>>) = Contents("table", kept \cup IsIn(entries \ altered)) \cup applied
    BY DEF Patched
<1>2. entries = TableEntries(new[j])
    BY EntriesOfAdded
<1>3. \A e : e \in TableEntries(new[j]) <=> \E t \in Y : e = Creating(S, t)
    BY DEF TableEntries, Creating
<1>4. kept = {}
    BY EmptyList
<1>5. ASSUME NEW e \in entries PROVE e.action = "CREATE" /\ \E t \in Y : e.is = {t}
    <2>1. PICK t \in Y : e = Creating(S, t)
        BY <1>2, <1>3
    <2> QED
        BY <2>1, CreatingFacts
<1>6. altered = {} /\ entries \ altered = entries
    BY <1>5
<1>7. applied = {}
    <2> HIDE DEF altered
    <2> QED
        BY <1>6
<1>8. IsIn(entries) = Y
    <2>1. ASSUME NEW t \in Y PROVE \E e \in entries : t \in e.is
        <3>1. PICK e \in entries : e = Creating(S, t)
            BY <1>2, <1>3
        <3> QED
            BY <3>1, CreatingFacts
    <2> HIDE DEF entries, Y
    <2> QED
        BY <1>5, <2>1 DEF IsIn
<1> HIDE DEF entries, altered, kept, applied, Y, S
<1>9. Patched("table", S, <<>>) = Contents("table", Y)
    BY <1>1, <1>4, <1>6, <1>7, <1>8
<1> QED
    BY <1>9 DEF ListContents, Y, S

LEMMA InvReconciles == IInv => DiffReconciles
<1> SUFFICES ASSUME IInv, phase = "done", NEW j \in DOMAIN new
             PROVE  /\ \A o \in Found(old, new[j].name) : \A k \in ToSet(ObjectKinds) :
                            Patched(k, SchemaNamed(k, o), o.lists[k])
                                = Reconciled(k, o.lists[k], new[j].lists[k])
                    /\ Found(old, new[j].name) = {} =>
                            Patched("table", new[j].name, <<>>) = ListContents("table", new[j].lists["table"])
    BY DEF DiffReconciles
<1>1. ASSUME NEW o \in Found(old, new[j].name), NEW k \in ToSet(ObjectKinds)
      PROVE  Patched(k, SchemaNamed(k, o), o.lists[k]) = Reconciled(k, o.lists[k], new[j].lists[k])
    <2>1. PICK i \in DOMAIN old : o = old[i] /\ old[i].name = new[j].name
        BY DEF Found
    <2> QED
        BY <2>1, PatchedShared
<1> QED
    BY <1>1, PatchedAdded

\* Applying the entries to a schema that both databases have gives the new schema, and
\* the entries for a new schema give its tables: of no object, no part of a table and
\* no property that counts is a change missed, invented or put under a wrong object.
\* Of overloaded procedures only the last is compared, and the others stay what they were.
\* It holds for all databases and whatever the order of the maps (compare.go 59-145, 886-950).
THEOREM DifferencesReconcile == Spec => []DiffReconciles
BY InvReconciles, InvariantHolds, PTL

(***************************************************************************)
(* The empty result.                                                       *)
(***************************************************************************)
LEMMA NothingPatched ==
    ASSUME NEW k, ToSet(mdiff[k]) = {}, NEW schema, NEW list
    PROVE  Patched(k, schema, list) = ListContents(k, list)
<1> DEFINE entries == {e \in ToSet(mdiff[k]) : e.schema = schema}
           altered == {e \in entries : e.action = "ALTER"}
           kept == {o \in ToSet(list) : \A e \in entries : o \notin e.was}
           applied == UNION {{Applied(o, n) : o \in e.was, n \in e.is} : e \in altered}
<1>1. Patched(k, schema, list) = Contents(k, kept \cup IsIn(entries \ altered))
                                    \cup (IF k = "table" THEN applied ELSE IsIn(altered))
    BY DEF Patched
<1>2. entries = {} /\ altered = {} /\ kept = ToSet(list) /\ applied = {}
    OBVIOUS
<1> HIDE DEF entries, altered, kept, applied
<1>3. IsIn(altered) = {} /\ IsIn(entries \ altered) = {}
    BY <1>2 DEF IsIn
<1> QED
    BY <1>1, <1>2, <1>3 DEF ListContents

LEMMA NothingToReport ==
    ASSUME NEW k, NEW olds, NEW news, Comparable(k, olds, news),
           Contents(k, Seen(k, olds)) = Contents(k, Seen(k, news))
    PROVE  EntriesOf(k, olds, news, AlteredIn(k, olds, news)) = {}
<1> DEFINE pairs == AlteredIn(k, olds, news)
           X == ToSet(olds)
           Y == ToSet(news)
<1>1. /\ IsList(olds) /\ IsList(news)
      /\ k # "procedure" => UniqueKeys(k, olds) /\ UniqueKeys(k, news)
      /\ pairs \in SUBSET Shared(k, olds, news)
    BY DEF Comparable, AlteredIn
<1>2. CASE k # "table"
    <2>1. Indexed(k, olds) = Indexed(k, news)
        BY <1>1, <1>2, SeenIsIndexed DEF Contents
    <2>2. \A p \in pairs : p[1] # p[2]
        BY <1>2 DEF Comparable, AlteredIn
    <2> HIDE DEF pairs
    <2> QED
        BY <1>1, <2>1, <2>2, SameListsNoEntries DEF pairs
<1>3. CASE k = "table"
    <2>1. {Content(t) : t \in X} = {Content(t) : t \in Y}
        BY <1>3 DEF Seen, Contents, Content
    <2>2. \A t : Content(t).name = t.name
        BY DEF Content
    <2>3. \A t, u : Key(k, t) = Key(k, u) <=> t.name = u.name
        BY <1>3 DEF Key, ByName
    <2>4. /\ Indexed(k, olds) = X /\ Indexed(k, news) = Y
          /\ \A t, u \in Y : t.name = u.name => t = u
        BY <1>1, <1>3, <2>3, IndexedFacts
    <2>5. \A p \in pairs : /\ p[1] \in X /\ p[2] \in Y /\ p[1].name = p[2].name
                           /\ Content(p[1]) # Content(p[2])
        <3> SUFFICES ASSUME NEW p \in pairs
                     PROVE  /\ p[1] \in X /\ p[2] \in Y /\ p[1].name = p[2].name
                            /\ Content(p[1]) # Content(p[2])
            OBVIOUS
        <3>1. p \in Shared(k, olds, news) /\ HasChanges(p[1], p[2])
            BY <1>3 DEF AlteredIn, Changed
        <3>2. p[1] \in X /\ p[2] \in Y /\ p[1].name = p[2].name
            BY <2>3, <2>4, <3>1, SharedPairs
        <3>3. IsTable(p[1]) /\ IsTable(p[2])
            BY <1>3, <3>2 DEF Comparable
        <3> QED
            BY <3>1, <3>2, <3>3, ChangesOfTable
    <2> HIDE DEF X, Y, pairs
    <2>6. \A t \in X : \E u \in Y : Content(t) = Content(u)
        BY <2>1
    <2>7. \A u \in Y : \E t \in X : Content(t) = Content(u)
        BY <2>1
    <2>8. pairs = {}
        <3> SUFFICES ASSUME NEW p \in pairs PROVE FALSE
            OBVIOUS
        <3>1. PICK u \in Y : Content(p[1]) = Content(u)
            BY <2>5, <2>6
        <3>2. u.name = p[2].name
            BY <2>2, <2>5, <3>1
        <3> QED
            BY <2>4, <2>5, <3>1, <3>2
    <2>9. Drops(k, olds, news) = {}
        <3>1. \A t \in X : \E u \in Y : Key(k, u) = Key(k, t)
            BY <2>2, <2>3, <2>6
        <3> QED
            BY <2>4, <3>1 DEF Drops
    <2>10. Creates(k, olds, news) = {}
        <3>1. \A u \in Y : \E t \in X : Key(k, u) = Key(k, t)
            BY <2>2, <2>3, <2>7
        <3> QED
            BY <2>4, <3>1 DEF Creates
    <2>11. Alters({}) = {}
        BY DEF Alters
    <2> QED
        BY <2>8, <2>9, <2>10, <2>11 DEF EntriesOf, pairs
<1> QED
    BY <1>2, <1>3

LEMMA NothingReported ==
    ASSUME NEW k, NEW olds, NEW news, Comparable(k, olds, news), k # "table",
           EntriesOf(k, olds, news, AlteredIn(k, olds, news)) = {}
    PROVE  Seen(k, olds) = Seen(k, news)
<1> DEFINE pairs == AlteredIn(k, olds, news)
<1>1. pairs \in SUBSET Shared(k, olds, news) /\ \A p \in Shared(k, olds, news) \ pairs : p[1] = p[2]
    BY DEF AlteredIn, Comparable
<1> HIDE DEF pairs
<1>2. Indexed(k, olds) = Indexed(k, news)
    BY <1>1, NoEntriesSameLists DEF pairs
<1> QED
    BY <1>2, SeenIsIndexed DEF Comparable

LEMMA InvEmptyIffSame == IInv => EmptyIffSame
<1> SUFFICES ASSUME IInv, phase = "done"
             PROVE  IsEmpty <=> Same(old, new)
    BY DEF EmptyIffSame
<1>1. /\ InputInv
      /\ \A k \in ToSet(ObjectKinds) : ToSet(mdiff[k]) = Reported(k)
      /\ \A k : Compared(k) = {p \in ToSet(old) \X ToSet(new) : p[1].name = p[2].name}
      /\ Added = {new[i] : i \in {i \in DOMAIN new : Found(old, new[i].name) = {}}}
    BY DoneFacts
<1>2. SchemaReports = {} <=> {old[i].name : i \in DOMAIN old} = {new[i].name : i \in DOMAIN new}
    <2>1. SchemaReports = {Placed(old[i].name, Entry("DROP", {}, {})) : i \in Unmatched(old, new)}
                            \cup {Placed(new[i].name, Entry("CREATE", {}, {})) : i \in Unmatched(new, old)}
        <3>1. /\ {i \in Unmatched(old, new) : phase # "dropped" \/ i < at} = Unmatched(old, new)
              /\ {i \in Unmatched(new, old) : phase \notin {"dropped", "created"}
                        \/ (phase = "created" /\ i < at)} = Unmatched(new, old)
            OBVIOUS
        <3> QED
            BY <3>1 DEF SchemaReports
    <2>2. SchemaReports = {} <=> Unmatched(old, new) = {} /\ Unmatched(new, old) = {}
        BY <2>1
    <2>3. Unmatched(old, new) = {} <=> \A i \in DOMAIN old : \E j \in DOMAIN new : new[j].name = old[i].name
        BY DEF Unmatched, Found
    <2>4. Unmatched(new, old) = {} <=> \A i \in DOMAIN new : \E j \in DOMAIN old : old[j].name = new[i].name
        BY DEF Unmatched, Found
    <2> DEFINE A == {old[i].name : i \in DOMAIN old}
               B == {new[i].name : i \in DOMAIN new}
    <2>5. /\ A \subseteq B <=> \A i \in DOMAIN old : \E j \in DOMAIN new : new[j].name = old[i].name
          /\ B \subseteq A <=> \A i \in DOMAIN new : \E j \in DOMAIN old : old[j].name = new[i].name
        OBVIOUS
    <2> HIDE DEF A, B
    <2>6. A = B <=> A \subseteq B /\ B \subseteq A
        OBVIOUS
    <2>7. SchemaReports = {} <=> A = B
        BY <2>2, <2>3, <2>4, <2>5, <2>6
    <2> QED
        BY <2>7 DEF A, B
<1>3. IsEmpty <=> SchemaReports = {} /\ \A k \in ToSet(ObjectKinds) : Reported(k) = {}
    <2>1. \A k \in Kinds : ToSet(mdiff[k]) = {} <=> mdiff[k] = <<>>
        BY StateFacts, ListFacts
    <2>2. ToSet(mdiff["schema"]) = SchemaReports
        BY DEF IInv, SchemaInv
    <2> QED
        BY <1>1, <2>1, <2>2, KindFacts DEF IsEmpty
<1>4. ASSUME SchemaReports = {}, \A k \in ToSet(ObjectKinds) : Reported(k) = {}
      PROVE  Same(old, new)
    <2>1. ASSUME NEW i \in DOMAIN old, NEW n \in Found(new, old[i].name), NEW k \in ToSet(ObjectKinds)
          PROVE  Contents(k, Seen(k, old[i].lists[k])) = Contents(k, Seen(k, n.lists[k]))
        <3>1. PICK j \in DOMAIN new : n = new[j] /\ old[i].name = new[j].name
            BY DEF Found
        <3> DEFINE olds == old[i].lists[k]
                   news == new[j].lists[k]
        <3>2. CASE k = "table"
            <4>1. Patched(k, SchemaNamed(k, old[i]), olds) = Reconciled(k, olds, news)
                BY <3>1, PatchedShared
            <4>2. ToSet(mdiff[k]) = {}
                BY <1>1, <1>4
            <4> HIDE DEF olds, news
            <4>3. Patched(k, SchemaNamed(k, old[i]), olds) = ListContents(k, olds)
                BY <4>2, NothingPatched
            <4>4. Seen(k, olds) = ToSet(olds) /\ Seen(k, news) = ToSet(news)
                BY <3>2 DEF Seen
            <4>5. Contents(k, Seen(k, olds)) = Contents(k, Seen(k, news))
                BY <4>1, <4>3, <4>4 DEF Reconciled, ListContents
            <4> QED
                BY <3>1, <4>5 DEF olds, news
        <3>3. CASE k # "table"
            <4>1. Comparable(k, olds, news)
                BY <1>1, ListsAreComparable
            <4>2. CallEntries(k, old[i], new[j]) = {}
                <5>1. {e \in ToSet(mdiff[k]) : e.schema = SchemaNamed(k, old[i])}
                            = CallEntries(k, old[i], new[j])
                    BY <3>1, EntriesOfShared
                <5>2. ToSet(mdiff[k]) = {}
                    BY <1>1, <1>4
                <5> QED
                    BY <5>1, <5>2
            <4>3. EntriesOf(k, olds, news, AlteredIn(k, olds, news)) = {}
                BY <4>2 DEF CallEntries
            <4> HIDE DEF olds, news
            <4>4. Seen(k, olds) = Seen(k, news)
                BY <3>3, <4>1, <4>3, NothingReported
            <4> QED
                BY <3>1, <4>4 DEF olds, news
        <3> QED
            BY <3>2, <3>3
    <2> QED
        BY <1>2, <1>4, <2>1 DEF Same
<1>5. ASSUME Same(old, new)
      PROVE  SchemaReports = {} /\ \A k \in ToSet(ObjectKinds) : Reported(k) = {}
    <2>1. SchemaReports = {}
        BY <1>2, <1>5 DEF Same
    <2>2. {old[i].name : i \in DOMAIN old} = {new[i].name : i \in DOMAIN new}
        BY <1>5 DEF Same
    <2>3. Added = {}
        <3>1. \A j \in DOMAIN new : \E i \in DOMAIN old : old[i].name = new[j].name
            BY <2>2
        <3>2. \A j \in DOMAIN new : Found(old, new[j].name) # {}
            BY <3>1 DEF Found
        <3> QED
            BY <1>1, <3>2
    <2>4. ASSUME NEW k \in ToSet(ObjectKinds), NEW p \in Compared(k)
          PROVE  CallEntries(k, p[1], p[2]) = {}
        <3>1. p[1] \in ToSet(old) /\ p[2] \in ToSet(new) /\ p[1].name = p[2].name
            BY <1>1
        <3>2. PICK i \in DOMAIN old, j \in DOMAIN new : p[1] = old[i] /\ p[2] = new[j]
            BY <3>1 DEF ToSet
        <3> DEFINE olds == old[i].lists[k]
                   news == new[j].lists[k]
        <3>3. new[j] \in Found(new, old[i].name)
            BY <3>1, <3>2 DEF Found
        <3>4. Contents(k, Seen(k, olds)) = Contents(k, Seen(k, news))
            BY <1>5, <3>3 DEF Same
        <3>5. Comparable(k, olds, news)
            BY <1>1, ListsAreComparable
        <3>6. EntriesOf(k, olds, news, AlteredIn(k, olds, news)) = {}
            <4> HIDE DEF olds, news
            <4> QED
                BY <3>4, <3>5, NothingToReport
        <3> QED
            BY <3>2, <3>6 DEF CallEntries
    <2> QED
        BY <2>1, <2>3, <2>4 DEF Reported
<1> QED
    BY <1>3, <1>4, <1>5

\* The result is empty exactly when the databases have the same schemas, with the same
\* contents in everything that is compared, which of overloaded procedures is the last,
\* for all databases (compare.go 54-150, 886-950, diff/types.go 252-264).
THEOREM EmptyMeansAlike == Spec => []EmptyIffSame
BY InvEmptyIffSame, InvariantHolds, PTL

-----------------------------------------------------------------------------
(***************************************************************************)
(* Functions that run through a list.                                      *)
(***************************************************************************)
LEMMA LeastOf ==
    ASSUME NEW S, S \subseteq Nat, S # {}
    PROVE  \E m \in S : \A n \in S : m <= n
    <1>1. PICK m \in S : \A n \in S : <<n, m>> \notin OpToRel(<, Nat)
        BY NatLessThanWellFounded, WFMin
    <1>2. \A n \in S : ~(n < m)
        BY <1>1 DEF OpToRel
    <1>3. \A n \in S : m <= n
        BY <1>2
    <1> QED
        BY <1>3

\* What holds at 0 and passes from each position to the next holds up to n.
LEMMA EveryPosition ==
    ASSUME NEW n \in Nat, NEW good, 0 \in good,
           \A i \in 1..n : i - 1 \in good => i \in good
    PROVE  0..n \subseteq good
    <1> DEFINE bad == (0..n) \ good
    <1>1. CASE bad # {}
        <2>a. bad \subseteq Nat
            OBVIOUS
        <2>1. PICK k \in bad : \A j \in bad : k <= j
            BY <1>1, <2>a, LeastOf
        <2>2. k \in 1..n
            BY <2>1
        <2>3. k - 1 \in 0..n /\ k - 1 \notin bad
            BY <2>1, <2>2
        <2> QED
            BY <2>1, <2>2, <2>3
    <1> QED
        BY <1>1

\* A function on 0..n that is given by its first value and its steps exists.
AreSteps(next, n, V) == next \in [1..n -> [V -> V]]
Unfolds(f, base, next, n, V) ==
    f \in [0..n -> V] /\ f[0] = base /\ \A i \in 1..n : f[i] = next[i][f[i - 1]]

LEMMA RecursionExists ==
    ASSUME NEW V, NEW base \in V, NEW n \in Nat, NEW next, AreSteps(next, n, V)
    PROVE  \E f : Unfolds(f, base, next, n, V)
    <1> USE DEF AreSteps, Unfolds
    <1> DEFINE UpTo(k, f) == f[0] = base /\ \A i \in 1..k : f[i] = next[i][f[i - 1]]
               Reaches(k) == \E f \in [0..k -> V] : UpTo(k, f)
               good == {k \in 0..n : Reaches(k)}
    <1>1. Reaches(0)
        <2> DEFINE first == [i \in 0..0 |-> base]
        <2>1. first \in [0..0 -> V]
            OBVIOUS
        <2>2. UpTo(0, first)
            OBVIOUS
        <2> QED
            BY <2>1, <2>2
    <1>2. ASSUME NEW k \in 1..n, Reaches(k - 1)
          PROVE  Reaches(k)
        <2>1. PICK f \in [0..(k - 1) -> V] : UpTo(k - 1, f)
            BY <1>2
        <2> DEFINE g == [i \in 0..k |-> IF i = k THEN next[k][f[k - 1]] ELSE f[i]]
        <2>2. next[k] \in [V -> V] /\ f[k - 1] \in V
            BY <2>1
        <2>3. g \in [0..k -> V]
            BY <2>2
        <2>4. g[0] = base
            BY <2>1
        <2>5. ASSUME NEW i \in 1..k PROVE g[i] = next[i][g[i - 1]]
            <3>1. g[i - 1] = f[i - 1]
                BY <2>5
            <3>2. CASE i = k
                BY <3>1, <3>2
            <3>3. CASE i # k
                <4>1. i \in 1..(k - 1)
                    BY <3>3
                <4>2. f[i] = next[i][f[i - 1]]
                    BY <2>1, <4>1
                <4>3. g[i] = f[i]
                    BY <3>3
                <4> QED
                    BY <3>1, <4>2, <4>3
            <3> QED
                BY <3>2, <3>3
        <2> HIDE DEF g
        <2> QED
            BY <2>3, <2>4, <2>5
    <1> HIDE DEF Reaches
    <1>3. 0 \in good /\ \A k \in 1..n : k - 1 \in good => k \in good
        BY <1>1, <1>2
    <1>4. n \in good
        <2> HIDE DEF good
        <2>1. 0..n \subseteq good
            BY <1>3, EveryPosition
        <2> QED
            BY <2>1
    <1> QED
        BY <1>4 DEF Reaches

-----------------------------------------------------------------------------
(***************************************************************************)
(* Sums, and lists joined one after another.                               *)
(***************************************************************************)
\* The sums of the first numbers of a list.
Sums(f, numbers) ==
    /\ DOMAIN f = 0..Len(numbers) /\ f[0] = 0
    /\ \A i \in 1..Len(numbers) : f[i] = f[i - 1] + numbers[i]
    /\ \A i \in 0..Len(numbers) : f[i] \in Nat
    /\ Sum(numbers) = f[Len(numbers)]

LEMMA SumSteps ==
    ASSUME NEW n \in Nat, NEW numbers \in [1..n -> Nat]
    PROVE  Len(numbers) = n /\ \E f : Sums(f, numbers)
    <1> DEFINE Add(i, v) == v + numbers[i]
               next == [i \in 1..n |-> [v \in Nat |-> Add(i, v)]]
               Value(f, i) == IF i = 0 THEN 0 ELSE f[i - 1] + numbers[i]
               Summed(f) == f = [i \in 0..n |-> Value(f, i)]
               sum == CHOOSE f : Summed(f)
    <1>1. Len(numbers) = n
        OBVIOUS
    <1>2. Sum(numbers) = sum[n]
        BY <1>1 DEF Sum
    <1>3. \A i \in 1..n : \A v \in Nat : Add(i, v) \in Nat
        OBVIOUS
    <1> HIDE DEF sum
    <1>4. AreSteps(next, n, Nat)
        <2> HIDE DEF Add
        <2> QED
            BY <1>3 DEF AreSteps
    <1>5. PICK f : Unfolds(f, 0, next, n, Nat)
        <2> HIDE DEF next
        <2> QED
            BY <1>4, RecursionExists
    <1>6. f[0] = 0 /\ DOMAIN f = 0..n /\ f = [i \in 0..n |-> f[i]] /\ \A i \in 0..n : f[i] \in Nat
        BY <1>5 DEF Unfolds
    <1>7. ASSUME NEW i \in 1..n
          PROVE  f[i] = f[i - 1] + numbers[i]
        <2>1. f[i - 1] \in Nat
            BY <1>6
        <2>2. f[i] = Add(i, f[i - 1])
            <3> HIDE DEF Add
            <3> QED
                BY <1>5, <2>1 DEF Unfolds
        <2> QED
            BY <2>2
    <1>8. Summed(f)
        <2>1. ASSUME NEW i \in 0..n
              PROVE  f[i] = Value(f, i)
            <3>1. i = 0 \/ i \in 1..n
                OBVIOUS
            <3> QED
                BY <1>6, <1>7, <3>1
        <2> HIDE DEF Value
        <2> QED
            BY <1>6, <2>1
    <1>9. Summed(sum)
        <2> HIDE DEF Summed
        <2> QED
            BY <1>8 DEF sum
    <1>10. ASSUME NEW i \in 0..n
           PROVE  sum[i] = Value(sum, i)
        <2> HIDE DEF Value
        <2> QED
            BY <1>9
    <1>11. DOMAIN sum = 0..n
        <2> HIDE DEF Value
        <2> QED
            BY <1>9
    <1>12. sum[0] = 0 /\ \A i \in 1..n : sum[i] = sum[i - 1] + numbers[i]
        <2>1. \A i \in 1..n : i \in 0..n /\ i # 0
            OBVIOUS
        <2> QED
            BY <1>10, <2>1
    <1>13. \A i \in 0..n : sum[i] \in Nat
        <2> DEFINE good == {i \in 0..n : sum[i] \in Nat}
        <2>1. 0 \in good
            BY <1>12
        <2>2. ASSUME NEW i \in 1..n, i - 1 \in good PROVE i \in good
            BY <1>12, <2>2
        <2>3. 0..n \subseteq good
            <3> HIDE DEF good
            <3> QED
                BY <2>1, <2>2, EveryPosition
        <2> QED
            BY <2>3
    <1>14. Sums(sum, numbers)
        BY <1>1, <1>2, <1>11, <1>12, <1>13 DEF Sums
    <1> QED
        BY <1>1, <1>14

\* The sum of sums, of ones, and of numbers of which one is not zero.
LEMMA SumOfSums ==
    ASSUME NEW n \in Nat, NEW a \in [1..n -> Nat], NEW b \in [1..n -> Nat], NEW c \in [1..n -> Nat],
           \A i \in 1..n : c[i] = a[i] + b[i]
    PROVE  Sum(a) \in Nat /\ Sum(b) \in Nat /\ Sum(c) = Sum(a) + Sum(b)
    <1>1. PICK f, g, h : Sums(f, a) /\ Sums(g, b) /\ Sums(h, c)
        BY SumSteps
    <1>2. Len(a) = n /\ Len(b) = n /\ Len(c) = n
        OBVIOUS
    <1>3. /\ f[0] = 0 /\ g[0] = 0 /\ h[0] = 0
          /\ \A i \in 1..n : f[i] = f[i - 1] + a[i] /\ g[i] = g[i - 1] + b[i] /\ h[i] = h[i - 1] + c[i]
          /\ \A i \in 0..n : f[i] \in Nat /\ g[i] \in Nat /\ h[i] \in Nat
          /\ Sum(a) = f[n] /\ Sum(b) = g[n] /\ Sum(c) = h[n]
        BY <1>1, <1>2 DEF Sums
    <1> DEFINE good == {i \in 0..n : h[i] = f[i] + g[i]}
    <1>4. 0 \in good
        BY <1>3
    <1>5. ASSUME NEW i \in 1..n, i - 1 \in good
          PROVE  i \in good
        <2>1. i - 1 \in 0..n /\ i \in 0..n /\ h[i - 1] = f[i - 1] + g[i - 1]
            BY <1>5
        <2>2. f[i - 1] \in Nat /\ g[i - 1] \in Nat /\ a[i] \in Nat /\ b[i] \in Nat
            BY <1>3, <2>1
        <2>3. h[i] = (f[i - 1] + g[i - 1]) + (a[i] + b[i])
            BY <1>3, <2>1
        <2>4. f[i] = f[i - 1] + a[i] /\ g[i] = g[i - 1] + b[i]
            BY <1>3
        <2> QED
            BY <2>1, <2>2, <2>3, <2>4
    <1>6. 0..n \subseteq good
        <2> HIDE DEF good
        <2> QED
            BY <1>4, <1>5, EveryPosition
    <1>7. h[n] = f[n] + g[n]
        BY <1>6
    <1> QED
        BY <1>3, <1>7

LEMMA SumOfOnes ==
    ASSUME NEW n \in Nat, NEW a \in [1..n -> Nat], \A i \in 1..n : a[i] = 1
    PROVE  Sum(a) = n
    <1>1. PICK f : Sums(f, a)
        BY SumSteps
    <1>2. f[0] = 0 /\ (\A i \in 1..n : f[i] = f[i - 1] + 1) /\ Sum(a) = f[n]
        BY <1>1, SumSteps DEF Sums
    <1> DEFINE good == {i \in 0..n : f[i] = i}
    <1>3. 0 \in good
        BY <1>2
    <1>4. ASSUME NEW i \in 1..n, i - 1 \in good PROVE i \in good
        BY <1>2, <1>4
    <1>5. 0..n \subseteq good
        <2> HIDE DEF good
        <2> QED
            BY <1>3, <1>4, EveryPosition
    <1> QED
        BY <1>2, <1>5

LEMMA SumOfOne ==
    ASSUME NEW n \in Nat, NEW a \in [1..n -> Nat], NEW k \in 1..n, \A i \in 1..n : i # k => a[i] = 0
    PROVE  Sum(a) = a[k]
    <1>1. PICK f : Sums(f, a)
        BY SumSteps
    <1>2. /\ f[0] = 0 /\ (\A i \in 1..n : f[i] = f[i - 1] + a[i]) /\ Sum(a) = f[n]
          /\ \A i \in 0..n : f[i] \in Nat
        BY <1>1, SumSteps DEF Sums
    <1> DEFINE good == {i \in 0..n : f[i] = IF i < k THEN 0 ELSE a[k]}
    <1>3. 0 \in good
        BY <1>2
    <1>4. ASSUME NEW i \in 1..n, i - 1 \in good
          PROVE  i \in good
        <2>1. f[i] = f[i - 1] + a[i] /\ a[k] \in Nat /\ i \in 0..n
            BY <1>2
        <2>2. CASE i < k
            BY <1>4, <2>1, <2>2
        <2>3. CASE i = k
            BY <1>4, <2>1, <2>3
        <2>4. CASE i > k
            BY <1>4, <2>1, <2>4
        <2> QED
            BY <2>2, <2>3, <2>4
    <1>5. 0..n \subseteq good
        <2> HIDE DEF good
        <2> QED
            BY <1>3, <1>4, EveryPosition
    <1>6. n \in good /\ ~(n < k)
        BY <1>5
    <1> QED
        BY <1>2, <1>6

\* FlattenSeq joins one list after another.
Flattens(f, seqs) ==
    /\ DOMAIN f = 0..Len(seqs) /\ f[0] = <<>>
    /\ \A i \in 1..Len(seqs) : f[i] = f[i - 1] \o seqs[i]
    /\ \A i \in 0..Len(seqs) : IsList(f[i])
    /\ FlattenSeq(seqs) = f[Len(seqs)]

LEMMA FlattenSteps ==
    ASSUME NEW seqs, IsList(seqs), \A x \in ToSet(seqs) : IsList(x)
    PROVE  \E f : Flattens(f, seqs)
    <1> DEFINE n == Len(seqs)
               T == UNION {ToSet(x) : x \in ToSet(seqs)}
               V == Seq(T)
               Extend(i, v) == v \o seqs[i]
               next == [i \in 1..n |-> [v \in V |-> Extend(i, v)]]
    <1>1. n \in Nat /\ \A i \in 1..n : IsList(seqs[i]) /\ seqs[i] \in ToSet(seqs)
        BY ListFacts
    <1>2. \A i \in 1..n : seqs[i] \in V
        <2> SUFFICES ASSUME NEW i \in 1..n PROVE seqs[i] \in V
            OBVIOUS
        <2>1. seqs[i] \in Seq(ToSet(seqs[i])) /\ ToSet(seqs[i]) \subseteq T
            BY <1>1 DEF IsList
        <2> HIDE DEF T
        <2> QED
            BY <2>1
    <1>3. ASSUME NEW v \in V
          PROVE  IsList(v)
        <2>1. Len(v) \in Nat /\ v \in [1..Len(v) -> T] /\ DOMAIN v = 1..Len(v)
            OBVIOUS
        <2>2. v \in [1..Len(v) -> ToSet(v)]
            BY <2>1 DEF ToSet
        <2> QED
            BY <2>1, <2>2 DEF IsList
    <1> HIDE DEF T
    <1>4. ASSUME NEW i \in 1..n, NEW v \in V
          PROVE  Extend(i, v) \in V
        BY <1>2
    <1>5. <<>> \in V
        OBVIOUS
    <1> HIDE DEF n, V
    <1>6. AreSteps(next, n, V)
        <2> HIDE DEF Extend
        <2> QED
            BY <1>4 DEF AreSteps
    <1>7. PICK f : Unfolds(f, <<>>, next, n, V)
        <2> HIDE DEF next
        <2> QED
            BY <1>1, <1>5, <1>6, RecursionExists
    <1>8. DOMAIN f = 0..n /\ f[0] = <<>> /\ \A i \in 0..n : f[i] \in V
        BY <1>7 DEF Unfolds
    <1>9. ASSUME NEW i \in 1..n
          PROVE  f[i] = f[i - 1] \o seqs[i]
        <2>1. f[i - 1] \in V
            BY <1>1, <1>8
        <2>2. f[i] = Extend(i, f[i - 1])
            <3> HIDE DEF Extend
            <3> QED
                BY <1>7, <2>1 DEF Unfolds
        <2> QED
            BY <2>2
    <1>10. FlattenSeq(seqs) = f[n]
        <2>1. CASE n = 0
            BY <1>8, <2>1, ListFacts DEF FlattenSeq, n
        <2>2. CASE n # 0
            <3> DEFINE Value(g, i) == IF i = 1 THEN seqs[i] ELSE g[i - 1] \o seqs[i]
                       Flat(g) == g = [i \in 1..n |-> Value(g, i)]
                       flatten == CHOOSE g : Flat(g)
                       rest == [i \in 1..n |-> f[i]]
            <3>1. FlattenSeq(seqs) = flatten[n]
                BY <2>2 DEF FlattenSeq, n
            <3>2. <<>> \o seqs[1] = seqs[1]
                <4>1. seqs[1] \in Seq(ToSet(seqs[1]))
                    BY <1>1, <2>2 DEF IsList
                <4> QED
                    BY <4>1
            <3>a. f[1] = seqs[1]
                <4>1. 1 \in 1..n /\ 1 - 1 = 0
                    BY <1>1, <2>2
                <4>2. f[1] = f[0] \o seqs[1]
                    BY <1>9, <4>1
                <4> QED
                    BY <1>8, <3>2, <4>2
            <3>3. ASSUME NEW i \in 1..n
                  PROVE  rest[i] = Value(rest, i)
                <4>1. CASE i = 1
                    BY <3>a, <4>1
                <4>2. CASE i # 1
                    <5>1. i - 1 \in 1..n
                        BY <1>1, <4>2
                    <5> QED
                        BY <1>9, <4>2, <5>1
                <4> QED
                    BY <4>1, <4>2
            <3>4. Flat(rest)
                <4> HIDE DEF Value
                <4> QED
                    BY <3>3
            <3> HIDE DEF flatten
            <3>5. Flat(flatten)
                <4> HIDE DEF Flat
                <4> QED
                    BY <3>4 DEF flatten
            <3>6. ASSUME NEW i \in 1..n
                  PROVE  flatten[i] = Value(flatten, i)
                <4> HIDE DEF Value
                <4> QED
                    BY <3>5
            <3> DEFINE good == {0} \cup {i \in 1..n : flatten[i] = f[i]}
            <3>7. ASSUME NEW i \in 1..n, i - 1 \in good
                  PROVE  i \in good
                <4>1. CASE i = 1
                    BY <3>a, <3>6, <4>1
                <4>2. CASE i # 1
                    <5>1. i - 1 \in 1..n /\ flatten[i - 1] = f[i - 1]
                        BY <1>1, <3>7, <4>2
                    <5> QED
                        BY <1>9, <3>6, <4>2, <5>1
                <4> QED
                    BY <4>1, <4>2
            <3>8. 0..n \subseteq good
                <4>1. 0 \in good
                    OBVIOUS
                <4> HIDE DEF good
                <4> QED
                    BY <1>1, <3>7, <4>1, EveryPosition
            <3> QED
                BY <1>1, <2>2, <3>1, <3>8
        <2> QED
            BY <2>1, <2>2
    <1>11. Flattens(f, seqs)
        BY <1>3, <1>8, <1>9, <1>10 DEF Flattens, n
    <1> QED
        BY <1>11

LEMMA NumberedIsList ==
    ASSUME NEW n \in Nat, NEW f, DOMAIN f = 1..n, f = [i \in 1..n |-> f[i]]
    PROVE  IsList(f) /\ Len(f) = n
    <1> DEFINE T == ToSet(f)
    <1>1. \A i \in 1..n : f[i] \in T
        BY DEF ToSet
    <1> HIDE DEF T
    <1>2. f \in [1..n -> T]
        BY <1>1
    <1>3. f \in Seq(T) /\ Len(f) = n
        BY <1>2
    <1> QED
        BY <1>3 DEF IsList, T

\* How long such a list is, and what is in it.
LEMMA FlattenFacts ==
    ASSUME NEW n \in Nat, NEW seqs, IsList(seqs), Len(seqs) = n, \A i \in 1..n : IsList(seqs[i]),
           NEW lens \in [1..n -> Nat], \A i \in 1..n : lens[i] = Len(seqs[i])
    PROVE  /\ IsList(FlattenSeq(seqs)) /\ Len(FlattenSeq(seqs)) = Sum(lens)
           /\ \A x : x \in ToSet(FlattenSeq(seqs)) <=> \E i \in 1..n : x \in ToSet(seqs[i])
    <1>1. \A x \in ToSet(seqs) : IsList(x)
        BY ListFacts DEF ToSet
    <1>2. PICK f : Flattens(f, seqs)
        BY <1>1, FlattenSteps
    <1>3. PICK g : Sums(g, lens)
        BY SumSteps
    <1>4. /\ f[0] = <<>> /\ (\A i \in 1..n : f[i] = f[i - 1] \o seqs[i])
          /\ (\A i \in 0..n : IsList(f[i])) /\ FlattenSeq(seqs) = f[n]
        BY <1>2 DEF Flattens
    <1>5. /\ g[0] = 0 /\ (\A i \in 1..n : g[i] = g[i - 1] + lens[i])
          /\ (\A i \in 0..n : g[i] \in Nat) /\ Sum(lens) = g[n]
        BY <1>3, SumSteps DEF Sums
    <1> DEFINE UpTo(i) == UNION {ToSet(seqs[j]) : j \in 1..i}
               good == {i \in 0..n : Len(f[i]) = g[i] /\ ToSet(f[i]) = UpTo(i)}
    <1>6. 0 \in good
        <2>1. Len(<<>>) = 0 /\ ToSet(<<>>) = {} /\ UpTo(0) = {}
            BY EmptyList
        <2> HIDE DEF UpTo
        <2>2. Len(f[0]) = g[0]
            BY <1>4, <1>5
        <2>3. ToSet(f[0]) = UpTo(0)
            BY <1>4, <2>1
        <2> QED
            BY <2>2, <2>3
    <1>7. ASSUME NEW i \in 1..n, i - 1 \in good
          PROVE  i \in good
        <2>1. i \in 0..n /\ i - 1 \in 0..n /\ 1..i = 1..(i - 1) \cup {i}
            OBVIOUS
        <2>2. UpTo(i) = UpTo(i - 1) \cup ToSet(seqs[i])
            BY <2>1
        <2> HIDE DEF UpTo
        <2>3. Len(f[i - 1]) = g[i - 1] /\ ToSet(f[i - 1]) = UpTo(i - 1)
            BY <1>7
        <2>4. IsList(f[i - 1]) /\ IsList(seqs[i]) /\ f[i] = f[i - 1] \o seqs[i]
            BY <1>4, <2>1
        <2>5. Len(f[i]) = Len(f[i - 1]) + Len(seqs[i]) /\ ToSet(f[i]) = ToSet(f[i - 1]) \cup ToSet(seqs[i])
            BY <2>4, JoinedLists
        <2>6. g[i] = g[i - 1] + Len(seqs[i])
            BY <1>5
        <2> QED
            BY <2>1, <2>2, <2>3, <2>5, <2>6
    <1>8. 0..n \subseteq good
        <2> HIDE DEF good
        <2> QED
            BY <1>6, <1>7, EveryPosition
    <1>9. Len(f[n]) = g[n] /\ ToSet(f[n]) = UpTo(n)
        <2>1. n \in good
            <3> HIDE DEF good
            <3> QED
                BY <1>8
        <2> HIDE DEF UpTo
        <2> QED
            BY <2>1
    <1>10. \A x : x \in ToSet(f[n]) <=> \E i \in 1..n : x \in ToSet(seqs[i])
        BY <1>9
    <1> QED
        BY <1>4, <1>5, <1>9, <1>10

\* Lists that share nothing and hold nothing twice join to one that holds nothing twice.
LEMMA FlattenInjective ==
    ASSUME NEW n \in Nat, NEW seqs, IsList(seqs), Len(seqs) = n, \A i \in 1..n : IsList(seqs[i]),
           \A i \in 1..n : IsInjective(seqs[i]),
           \A i, j \in 1..n : i # j => ToSet(seqs[i]) \cap ToSet(seqs[j]) = {}
    PROVE  IsInjective(FlattenSeq(seqs))
    <1>1. \A x \in ToSet(seqs) : IsList(x)
        BY ListFacts DEF ToSet
    <1>2. PICK f : Flattens(f, seqs)
        BY <1>1, FlattenSteps
    <1>3. /\ f[0] = <<>> /\ (\A i \in 1..n : f[i] = f[i - 1] \o seqs[i])
          /\ (\A i \in 0..n : IsList(f[i])) /\ FlattenSeq(seqs) = f[n]
        BY <1>2 DEF Flattens
    <1> DEFINE UpTo(i) == UNION {ToSet(seqs[j]) : j \in 1..i}
               good == {i \in 0..n : IsInjective(f[i]) /\ ToSet(f[i]) = UpTo(i)}
    <1>4. 0 \in good
        <2>1. IsInjective(<<>>) /\ ToSet(<<>>) = {} /\ UpTo(0) = {}
            BY EmptyList DEF IsInjective
        <2> HIDE DEF UpTo
        <2> QED
            BY <1>3, <2>1
    <1>5. ASSUME NEW i \in 1..n, i - 1 \in good
          PROVE  i \in good
        <2>1. i \in 0..n /\ i - 1 \in 0..n /\ 1..i = 1..(i - 1) \cup {i} /\ \A j \in 1..(i - 1) : j \in 1..n /\ j # i
            OBVIOUS
        <2>2. UpTo(i) = UpTo(i - 1) \cup ToSet(seqs[i]) /\ UpTo(i - 1) \cap ToSet(seqs[i]) = {}
            BY <2>1
        <2> HIDE DEF UpTo
        <2>3. IsInjective(f[i - 1]) /\ ToSet(f[i - 1]) = UpTo(i - 1)
            BY <1>5
        <2>4. IsList(f[i - 1]) /\ IsList(seqs[i]) /\ f[i] = f[i - 1] \o seqs[i]
            BY <1>3, <2>1
        <2>5. ToSet(f[i]) = ToSet(f[i - 1]) \cup ToSet(seqs[i])
            BY <2>4, JoinedLists
        <2>6. IsInjective(f[i])
            <3>1. IsInjective(seqs[i]) /\ ToSet(f[i - 1]) \cap ToSet(seqs[i]) = {}
                BY <2>2, <2>3
            <3>2. /\ \A k, l \in DOMAIN f[i - 1] : f[i - 1][k] = f[i - 1][l] => k = l
                  /\ \A k, l \in DOMAIN seqs[i] : seqs[i][k] = seqs[i][l] => k = l
                BY <2>3, <3>1 DEF IsInjective
            <3> QED
                BY <2>4, <3>1, <3>2, InjectiveJoin DEF IsInjective
        <2> QED
            BY <2>1, <2>2, <2>3, <2>5, <2>6
    <1>6. 0..n \subseteq good
        <2> HIDE DEF good
        <2> QED
            BY <1>4, <1>5, EveryPosition
    <1>7. IsInjective(f[n])
        BY <1>6
    <1> QED
        BY <1>3, <1>7

-----------------------------------------------------------------------------
(***************************************************************************)
(* What the reports list of a diff.                                        *)
(***************************************************************************)
PartNames == {"col", "idx", "fk", "chk", "pk", "unique", "trigger", "partition", "rule"}

\* A diff has a list for every kind, and for every part of a table.
Reportable(diff) ==
    /\ \A k \in Kinds : IsList(diff[k])
    /\ \A i \in DOMAIN diff["table"] : \A p \in PartNames : IsList(diff["table"][i].parts[p])

\* The kinds or parts a report goes through.
GoesThrough(names, all) == IsList(names) /\ IsInjective(names) /\ ToSet(names) \subseteq all

LEMMA PartIdJoined == \A i, p, j : <<"table", i>> \o <<p, j>> = <<"table", i, p, j>>
    <1> TAKE i, p, j
    <1> DEFINE S == {"table", i, p, j}
               a == <<"table", i>>
               b == <<p, j>>
               c == <<"table", i, p, j>>
    <1>1. a \in Seq(S) /\ b \in Seq(S) /\ c \in Seq(S) /\ Len(a) = 2 /\ Len(b) = 2 /\ Len(c) = 4
        OBVIOUS
    <1>2. /\ a[1] = "table" /\ a[2] = i /\ b[1] = p /\ b[2] = j
          /\ c[1] = "table" /\ c[2] = i /\ c[3] = p /\ c[4] = j
        OBVIOUS
    <1> HIDE DEF S, a, b, c
    <1>3. /\ a \o b \in Seq(S) /\ Len(a \o b) = Len(a) + Len(b)
          /\ \A k \in 1..(Len(a) + Len(b)) : (a \o b)[k] = IF k <= Len(a) THEN a[k] ELSE b[k - Len(a)]
        BY <1>1, ConcatProperties
    <1>4. Len(a) + Len(b) = 4
        BY <1>1
    <1>5. /\ (a \o b)[1] = a[1] /\ (a \o b)[2] = a[2]
          /\ (a \o b)[3] = b[3 - Len(a)] /\ (a \o b)[4] = b[4 - Len(a)]
        BY <1>1, <1>3, <1>4
    <1>6. 3 - Len(a) = 1 /\ 4 - Len(a) = 2
        BY <1>1
    <1>7. \A k \in 1..4 : (a \o b)[k] = c[k]
        <2>1. \A k \in 1..4 : k = 1 \/ k = 2 \/ k = 3 \/ k = 4
            OBVIOUS
        <2>2. (a \o b)[1] = c[1] /\ (a \o b)[2] = c[2] /\ (a \o b)[3] = c[3] /\ (a \o b)[4] = c[4]
            BY <1>2, <1>5, <1>6
        <2> QED
            BY <2>1, <2>2
    <1>8. a \o b = c
        <2>1. a \o b \in Seq(S) /\ Len(a \o b) = Len(c) /\ \A k \in 1..Len(c) : (a \o b)[k] = c[k]
            BY <1>1, <1>3, <1>4, <1>7
        <2> QED
            BY <1>1, <2>1, SeqEqual
    <1> QED
        BY <1>8 DEF a, b, c

LEMMA IdentifiersDiffer ==
    \A a, b, i, p, j : <<a, b>> # <<"table", i, p, j>>
    <1> TAKE a, b, i, p, j
    <1>1. Len(<<a, b>>) = 2 /\ Len(<<"table", i, p, j>>) = 4
        OBVIOUS
    <1> QED
        BY <1>1

\* Lines differ where their places or actions do.
LEMMA LinesDiffer ==
    \A a, b, x, y : Line(a, x) = Line(b, y) <=> a = b /\ x = y
    BY DEF Line

LEMMA PartIdsDiffer ==
    \A i, p, j, k, q, l : <<"table", i, p, j>> = <<"table", k, q, l>> <=> i = k /\ p = q /\ j = l
    OBVIOUS

\* The lines of one list of a table.
ItemLines(i, p, items) == [j \in DOMAIN items |-> Line(<<"table", i, p, j>>, items[j].action)]
IsItemLine(x, i, p, items) ==
    \E j \in DOMAIN items : x = Line(<<"table", i, p, j>>, items[j].action)

LEMMA ItemLinesDiffer ==
    ASSUME NEW x, NEW i, NEW p, NEW a, IsItemLine(x, i, p, a), NEW k, NEW q, NEW b, IsItemLine(x, k, q, b)
    PROVE  i = k /\ p = q
    <1>1. PICK j \in DOMAIN a : x = Line(<<"table", i, p, j>>, a[j].action)
        BY DEF IsItemLine
    <1>2. PICK l \in DOMAIN b : x = Line(<<"table", k, q, l>>, b[l].action)
        BY DEF IsItemLine
    <1>3. <<"table", i, p, j>> = <<"table", k, q, l>>
        BY <1>1, <1>2, LinesDiffer
    <1> QED
        BY <1>3

LEMMA ItemLinesFacts ==
    ASSUME NEW i, NEW p, NEW items, IsList(items)
    PROVE  /\ IsList(ItemLines(i, p, items)) /\ IsInjective(ItemLines(i, p, items))
           /\ Len(ItemLines(i, p, items)) = Len(items)
           /\ \A x : x \in ToSet(ItemLines(i, p, items)) <=> IsItemLine(x, i, p, items)
    <1> DEFINE f == ItemLines(i, p, items)
    <1>1. /\ DOMAIN f = DOMAIN items
          /\ \A j \in DOMAIN items : f[j] = Line(<<"table", i, p, j>>, items[j].action)
          /\ f = [j \in DOMAIN items |-> f[j]]
        BY DEF ItemLines
    <1> HIDE DEF f
    <1>2. Len(items) \in Nat /\ DOMAIN items = 1..Len(items)
        BY ListFacts
    <1>3. IsList(f) /\ Len(f) = Len(items)
        BY <1>1, <1>2, NumberedIsList
    <1>4. ASSUME NEW j \in DOMAIN f, NEW l \in DOMAIN f, f[j] = f[l]
          PROVE  j = l
        <2>1. Line(<<"table", i, p, j>>, items[j].action) = Line(<<"table", i, p, l>>, items[l].action)
            BY <1>1, <1>4
        <2>2. <<"table", i, p, j>> = <<"table", i, p, l>>
            BY <2>1, LinesDiffer
        <2> QED
            BY <2>2
    <1>5. \A x : x \in ToSet(f) <=> IsItemLine(x, i, p, items)
        <2> DEFINE L(j) == Line(<<"table", i, p, j>>, items[j].action)
        <2>1. \A x : x \in ToSet(f) <=> \E j \in DOMAIN items : x = f[j]
            BY <1>1 DEF ToSet
        <2>2. \A j \in DOMAIN items : f[j] = L(j)
            BY <1>1
        <2>3. \A x : IsItemLine(x, i, p, items) <=> \E j \in DOMAIN items : x = L(j)
            BY DEF IsItemLine
        <2> HIDE DEF L
        <2> QED
            BY <2>1, <2>2, <2>3
    <1> QED
        BY <1>3, <1>4, <1>5 DEF f, IsInjective

LEMMA PartLinesFacts ==
    ASSUME NEW i, NEW c, \A p \in PartNames : IsList(c.parts[p]),
           NEW parts, GoesThrough(parts, PartNames)
    PROVE  /\ IsList(PartLines(<<"table", i>>, c, parts))
           /\ IsInjective(PartLines(<<"table", i>>, c, parts))
           /\ Len(PartLines(<<"table", i>>, c, parts)) = PartCount(c, parts)
           /\ PartCount(c, parts) \in Nat
           /\ \A x : x \in ToSet(PartLines(<<"table", i>>, c, parts)) <=>
                \E p \in ToSet(parts) : IsItemLine(x, i, p, c.parts[p])
    <1> DEFINE n == Len(parts)
               List(q) == c.parts[parts[q]]
               seqs == [q \in DOMAIN parts |-> ItemLines(i, parts[q], List(q))]
               lens == [q \in DOMAIN parts |-> Len(List(q))]
    <1>1. n \in Nat /\ DOMAIN parts = 1..n /\ (\A q \in 1..n : parts[q] \in PartNames)
          /\ ToSet(parts) = {parts[q] : q \in 1..n}
        BY ListFacts DEF GoesThrough, ToSet
    <1>2. PartLines(<<"table", i>>, c, parts) = FlattenSeq(seqs)
        BY PartIdJoined DEF PartLines, ItemLines
    <1>3. PartCount(c, parts) = Sum(lens)
        BY DEF PartCount
    <1>4. /\ DOMAIN seqs = 1..n /\ seqs = [q \in 1..n |-> seqs[q]]
          /\ \A q \in 1..n : seqs[q] = ItemLines(i, parts[q], List(q))
        BY <1>1
    <1>5. \A q \in 1..n : IsList(List(q)) /\ Len(List(q)) \in Nat
        BY <1>1, ListFacts
    <1>6. lens \in [1..n -> Nat] /\ \A q \in 1..n : lens[q] = Len(List(q))
        BY <1>1, <1>5
    <1> HIDE DEF n, seqs, lens, List
    <1>7. IsList(seqs) /\ Len(seqs) = n
        BY <1>1, <1>4, NumberedIsList
    <1>8. ASSUME NEW q \in 1..n
          PROVE  /\ IsList(seqs[q]) /\ IsInjective(seqs[q]) /\ lens[q] = Len(seqs[q])
                 /\ \A x : x \in ToSet(seqs[q]) <=> IsItemLine(x, i, parts[q], List(q))
        <2>1. seqs[q] = ItemLines(i, parts[q], List(q)) /\ IsList(List(q)) /\ lens[q] = Len(List(q))
            BY <1>4, <1>5, <1>6
        <2> QED
            BY <2>1, ItemLinesFacts
    <1>9. \A q, r \in 1..n : q # r => ToSet(seqs[q]) \cap ToSet(seqs[r]) = {}
        <2> SUFFICES ASSUME NEW q \in 1..n, NEW r \in 1..n, q # r, NEW x \in ToSet(seqs[q]), x \in ToSet(seqs[r])
                     PROVE  FALSE
            OBVIOUS
        <2>1. IsItemLine(x, i, parts[q], List(q)) /\ IsItemLine(x, i, parts[r], List(r))
            BY <1>8
        <2>2. parts[q] = parts[r]
            BY <2>1, ItemLinesDiffer
        <2> QED
            BY <1>1, <2>2 DEF GoesThrough, IsInjective
    <1> HIDE DEF n
    <1>10. /\ IsList(FlattenSeq(seqs)) /\ Len(FlattenSeq(seqs)) = Sum(lens)
           /\ \A x : x \in ToSet(FlattenSeq(seqs)) <=> \E q \in 1..n : x \in ToSet(seqs[q])
        <2>1. (\A q \in 1..n : IsList(seqs[q])) /\ \A q \in 1..n : lens[q] = Len(seqs[q])
            BY <1>8
        <2>2. n \in Nat /\ lens \in [1..n -> Nat]
            BY <1>1, <1>6
        <2> QED
            BY <1>7, <2>1, <2>2, FlattenFacts
    <1>11. IsInjective(FlattenSeq(seqs))
        <2>1. \A q \in 1..n : IsList(seqs[q]) /\ IsInjective(seqs[q])
            BY <1>8
        <2> QED
            BY <1>1, <1>7, <1>9, <2>1, FlattenInjective
    <1>12. Sum(lens) \in Nat
        BY <1>10, ListFacts
    <1>13. \A x : x \in ToSet(FlattenSeq(seqs)) <=> \E p \in ToSet(parts) : IsItemLine(x, i, p, c.parts[p])
        <2> TAKE x
        <2>1. x \in ToSet(FlattenSeq(seqs)) <=> \E q \in 1..n : IsItemLine(x, i, parts[q], List(q))
            BY <1>8, <1>10
        <2> QED
            BY <1>1, <2>1 DEF List
    <1> QED
        BY <1>2, <1>3, <1>10, <1>11, <1>12, <1>13

LEMMA SingleIsList ==
    \A x : IsList(<<x>>) /\ ToSet(<<x>>) = {x} /\ Len(<<x>>) = 1 /\ IsInjective(<<x>>)
    <1> TAKE x
    <1> DEFINE s == <<x>>
    <1>1. s \in Seq({x}) /\ Len(s) = 1 /\ DOMAIN s = {1} /\ s[1] = x
        OBVIOUS
    <1> HIDE DEF s
    <1>2. ToSet(s) = {x}
        BY <1>1 DEF ToSet
    <1>3. IsInjective(s)
        BY <1>1 DEF IsInjective
    <1> QED
        BY <1>1, <1>2, <1>3 DEF IsList, s

\* What is listed of an entry: a line of its own and, under a table, those of its parts.
EntryLine(diff, kind, i) == Line(<<kind, i>>, diff[kind][i].action)
UnderIt(diff, kind, i, parts) ==
    IF kind = "table" THEN PartLines(<<kind, i>>, diff[kind][i], parts) ELSE <<>>
Block(diff, kind, i, parts) == <<EntryLine(diff, kind, i)>> \o UnderIt(diff, kind, i, parts)
CountUnder(diff, kind, i, parts) ==
    IF kind = "table" THEN PartCount(diff[kind][i], parts) ELSE 0
IsUnder(x, diff, kind, i, parts) ==
    kind = "table" /\ \E p \in ToSet(parts) : IsItemLine(x, i, p, diff[kind][i].parts[p])
IsBlockLine(x, diff, kind, i, parts) ==
    x = EntryLine(diff, kind, i) \/ IsUnder(x, diff, kind, i, parts)

LEMMA EntryLinesDiffer ==
    ASSUME NEW diff, NEW kind, NEW i, NEW other, NEW j,
           EntryLine(diff, kind, i) = EntryLine(diff, other, j)
    PROVE  kind = other /\ i = j
    <1>1. <<kind, i>> = <<other, j>>
        BY LinesDiffer DEF EntryLine
    <1> QED
        BY <1>1

LEMMA EntriesAreNoItems ==
    ASSUME NEW diff, NEW kind, NEW i, NEW k, NEW p, NEW items
    PROVE  ~IsItemLine(EntryLine(diff, kind, i), k, p, items)
    <1> SUFFICES ASSUME IsItemLine(EntryLine(diff, kind, i), k, p, items) PROVE FALSE
        OBVIOUS
    <1>1. PICK j \in DOMAIN items : EntryLine(diff, kind, i) = Line(<<"table", k, p, j>>, items[j].action)
        BY DEF IsItemLine
    <1>2. <<kind, i>> = <<"table", k, p, j>>
        BY <1>1, LinesDiffer DEF EntryLine
    <1> QED
        BY <1>2, IdentifiersDiffer

LEMMA BlocksDiffer ==
    ASSUME NEW diff, NEW parts, NEW kind, NEW i, NEW other, NEW j,
           NEW x, IsBlockLine(x, diff, kind, i, parts), IsBlockLine(x, diff, other, j, parts)
    PROVE  kind = other /\ i = j
    <1>1. CASE x = EntryLine(diff, kind, i) /\ x = EntryLine(diff, other, j)
        <2>1. EntryLine(diff, kind, i) = EntryLine(diff, other, j)
            BY <1>1
        <2> QED
            BY <2>1, EntryLinesDiffer
    <1>2. CASE IsUnder(x, diff, kind, i, parts) /\ IsUnder(x, diff, other, j, parts)
        BY <1>2, ItemLinesDiffer DEF IsUnder
    <1>3. \A k, l : ~IsUnder(EntryLine(diff, k, l), diff, other, j, parts)
          /\ ~IsUnder(EntryLine(diff, k, l), diff, kind, i, parts)
        BY EntriesAreNoItems DEF IsUnder
    <1> QED
        BY <1>1, <1>2, <1>3 DEF IsBlockLine

LEMMA BlockFacts ==
    ASSUME NEW diff, Reportable(diff), NEW kind \in Kinds, NEW i \in DOMAIN diff[kind],
           NEW parts, GoesThrough(parts, PartNames)
    PROVE  /\ IsList(Block(diff, kind, i, parts)) /\ IsInjective(Block(diff, kind, i, parts))
           /\ CountUnder(diff, kind, i, parts) \in Nat
           /\ Len(Block(diff, kind, i, parts)) = 1 + CountUnder(diff, kind, i, parts)
           /\ \A x : x \in ToSet(Block(diff, kind, i, parts)) <=> IsBlockLine(x, diff, kind, i, parts)
    <1> DEFINE own == EntryLine(diff, kind, i)
               first == <<own>>
               under == UnderIt(diff, kind, i, parts)
    <1>1. IsList(first) /\ ToSet(first) = {own} /\ Len(first) = 1 /\ IsInjective(first)
        BY SingleIsList
    <1>2. /\ IsList(under) /\ IsInjective(under)
          /\ CountUnder(diff, kind, i, parts) \in Nat /\ Len(under) = CountUnder(diff, kind, i, parts)
          /\ \A x : x \in ToSet(under) <=> IsUnder(x, diff, kind, i, parts)
        <2>1. CASE kind = "table"
            <3> DEFINE c == diff[kind][i]
            <3>1. \A p \in PartNames : IsList(c.parts[p])
                BY <2>1 DEF Reportable
            <3>2. under = PartLines(<<"table", i>>, c, parts)
                BY <2>1 DEF UnderIt
            <3>3. CountUnder(diff, kind, i, parts) = PartCount(c, parts)
                BY <2>1 DEF CountUnder
            <3>4. \A x : IsUnder(x, diff, kind, i, parts) <=> \E p \in ToSet(parts) : IsItemLine(x, i, p, c.parts[p])
                BY <2>1 DEF IsUnder
            <3> HIDE DEF c, under
            <3> QED
                BY <3>1, <3>2, <3>3, <3>4, PartLinesFacts
        <2>2. CASE kind # "table"
            <3>1. under = <<>> /\ CountUnder(diff, kind, i, parts) = 0
                BY <2>2 DEF UnderIt, CountUnder
            <3>2. \A x : ~IsUnder(x, diff, kind, i, parts)
                BY <2>2 DEF IsUnder
            <3>3. IsList(<<>>) /\ ToSet(<<>>) = {} /\ IsInjective(<<>>) /\ Len(<<>>) = 0
                BY EmptyList DEF IsInjective
            <3> QED
                BY <3>1, <3>2, <3>3
        <2> QED
            BY <2>1, <2>2
    <1>3. Block(diff, kind, i, parts) = first \o under
        BY DEF Block
    <1>4. ~IsUnder(own, diff, kind, i, parts)
        BY EntriesAreNoItems DEF IsUnder
    <1> HIDE DEF first, under
    <1>5. /\ IsList(first \o under) /\ ToSet(first \o under) = ToSet(first) \cup ToSet(under)
          /\ Len(first \o under) = Len(first) + Len(under)
        BY <1>1, <1>2, JoinedLists
    <1>6. ToSet(first) \cap ToSet(under) = {}
        BY <1>1, <1>2, <1>4
    <1>7. IsInjective(first \o under)
        BY <1>1, <1>2, <1>6, InjectiveJoin DEF IsInjective
    <1>8. \A x : x \in ToSet(first \o under) <=> IsBlockLine(x, diff, kind, i, parts)
        BY <1>1, <1>2, <1>5 DEF IsBlockLine
    <1>9. Len(first \o under) = 1 + CountUnder(diff, kind, i, parts)
        BY <1>1, <1>2, <1>5
    <1> QED
        BY <1>2, <1>3, <1>5, <1>7, <1>8, <1>9

\* How many lines of parts a section has.
CountParts(diff, kind, parts) == Sum([i \in DOMAIN diff[kind] |-> CountUnder(diff, kind, i, parts)])

LEMMA SectionFacts ==
    ASSUME NEW diff, Reportable(diff), NEW kind \in Kinds, NEW parts, GoesThrough(parts, PartNames)
    PROVE  /\ IsList(Section(diff, kind, parts)) /\ IsInjective(Section(diff, kind, parts))
           /\ CountParts(diff, kind, parts) \in Nat
           /\ Len(Section(diff, kind, parts)) = Len(diff[kind]) + CountParts(diff, kind, parts)
           /\ \A x : x \in ToSet(Section(diff, kind, parts)) <=>
                \E i \in DOMAIN diff[kind] : IsBlockLine(x, diff, kind, i, parts)
    <1> DEFINE n == Len(diff[kind])
               seqs == [i \in DOMAIN diff[kind] |-> Block(diff, kind, i, parts)]
               ones == [i \in 1..n |-> 1]
               unders == [i \in DOMAIN diff[kind] |-> CountUnder(diff, kind, i, parts)]
               lens == [i \in 1..n |-> 1 + CountUnder(diff, kind, i, parts)]
    <1>1. n \in Nat /\ DOMAIN diff[kind] = 1..n
        BY ListFacts DEF Reportable
    <1>2. Section(diff, kind, parts) = FlattenSeq(seqs)
        BY DEF Section, Block, EntryLine, UnderIt
    <1>3. CountParts(diff, kind, parts) = Sum(unders)
        BY DEF CountParts
    <1>4. DOMAIN seqs = 1..n /\ seqs = [i \in 1..n |-> seqs[i]]
          /\ \A i \in 1..n : seqs[i] = Block(diff, kind, i, parts)
        BY <1>1
    <1>5. \A i \in 1..n : CountUnder(diff, kind, i, parts) \in Nat
        BY <1>1, BlockFacts
    <1>6. ones \in [1..n -> Nat] /\ \A i \in 1..n : ones[i] = 1
        OBVIOUS
    <1>7. unders \in [1..n -> Nat] /\ \A i \in 1..n : unders[i] = CountUnder(diff, kind, i, parts)
        BY <1>1, <1>5
    <1>8. lens \in [1..n -> Nat] /\ \A i \in 1..n : lens[i] = 1 + CountUnder(diff, kind, i, parts)
        BY <1>5
    <1> HIDE DEF n, seqs, ones, unders, lens
    <1>9. IsList(seqs) /\ Len(seqs) = n
        BY <1>1, <1>4, NumberedIsList
    <1>10. ASSUME NEW i \in 1..n
           PROVE  /\ IsList(seqs[i]) /\ IsInjective(seqs[i]) /\ lens[i] = Len(seqs[i])
                  /\ \A x : x \in ToSet(seqs[i]) <=> IsBlockLine(x, diff, kind, i, parts)
        <2>1. i \in DOMAIN diff[kind] /\ seqs[i] = Block(diff, kind, i, parts)
              /\ lens[i] = 1 + CountUnder(diff, kind, i, parts)
            BY <1>1, <1>4, <1>8
        <2> QED
            BY <2>1, BlockFacts
    <1>11. \A i, j \in 1..n : i # j => ToSet(seqs[i]) \cap ToSet(seqs[j]) = {}
        BY <1>10, BlocksDiffer
    <1>12. /\ IsList(FlattenSeq(seqs)) /\ Len(FlattenSeq(seqs)) = Sum(lens)
           /\ \A x : x \in ToSet(FlattenSeq(seqs)) <=> \E i \in 1..n : x \in ToSet(seqs[i])
        <2>1. (\A i \in 1..n : IsList(seqs[i])) /\ \A i \in 1..n : lens[i] = Len(seqs[i])
            BY <1>10
        <2>2. n \in Nat /\ lens \in [1..n -> Nat]
            BY <1>1, <1>8
        <2> QED
            BY <1>9, <2>1, <2>2, FlattenFacts
    <1>13. IsInjective(FlattenSeq(seqs))
        <2>1. \A i \in 1..n : IsList(seqs[i]) /\ IsInjective(seqs[i])
            BY <1>10
        <2> QED
            BY <1>1, <1>9, <1>11, <2>1, FlattenInjective
    <1>14. Sum(unders) \in Nat /\ Sum(lens) = n + Sum(unders)
        <2>1. Sum(ones) = n
            BY <1>1, <1>6, SumOfOnes
        <2>2. \A i \in 1..n : lens[i] = ones[i] + unders[i]
            BY <1>6, <1>7, <1>8
        <2>3. Sum(unders) \in Nat /\ Sum(lens) = Sum(ones) + Sum(unders)
            <3>1. n \in Nat /\ ones \in [1..n -> Nat] /\ unders \in [1..n -> Nat] /\ lens \in [1..n -> Nat]
                BY <1>1, <1>6, <1>7, <1>8
            <3> QED
                BY <2>2, <3>1, SumOfSums
        <2> QED
            BY <2>1, <2>3
    <1>15. \A x : x \in ToSet(FlattenSeq(seqs)) <=>
                \E i \in DOMAIN diff[kind] : IsBlockLine(x, diff, kind, i, parts)
        BY <1>1, <1>10, <1>12
    <1> QED
        BY <1>2, <1>3, <1>12, <1>13, <1>14, <1>15 DEF n

\* A report of several kinds.
ReportOf(diff, kinds, parts) ==
    FlattenSeq([s \in DOMAIN kinds |-> Section(diff, kinds[s], parts)])

LEMMA ReportFacts ==
    ASSUME NEW diff, Reportable(diff), NEW kinds, GoesThrough(kinds, Kinds),
           NEW parts, GoesThrough(parts, PartNames)
    PROVE  /\ IsList(ReportOf(diff, kinds, parts)) /\ IsInjective(ReportOf(diff, kinds, parts))
           /\ Len(ReportOf(diff, kinds, parts)) =
                Sum([s \in DOMAIN kinds |-> Len(diff[kinds[s]])])
                + Sum([s \in DOMAIN kinds |-> CountParts(diff, kinds[s], parts)])
           /\ \A x : x \in ToSet(ReportOf(diff, kinds, parts)) <=>
                \E k \in ToSet(kinds) : \E i \in DOMAIN diff[k] : IsBlockLine(x, diff, k, i, parts)
    <1> DEFINE n == Len(kinds)
               seqs == [s \in DOMAIN kinds |-> Section(diff, kinds[s], parts)]
               entries == [s \in DOMAIN kinds |-> Len(diff[kinds[s]])]
               unders == [s \in DOMAIN kinds |-> CountParts(diff, kinds[s], parts)]
               lens == [s \in 1..n |-> Len(diff[kinds[s]]) + CountParts(diff, kinds[s], parts)]
    <1>1. n \in Nat /\ DOMAIN kinds = 1..n /\ (\A s \in 1..n : kinds[s] \in Kinds)
          /\ ToSet(kinds) = {kinds[s] : s \in 1..n}
        BY ListFacts DEF GoesThrough, ToSet
    <1>2. DOMAIN seqs = 1..n /\ seqs = [s \in 1..n |-> seqs[s]]
          /\ \A s \in 1..n : seqs[s] = Section(diff, kinds[s], parts)
        BY <1>1
    <1>3. \A s \in 1..n : Len(diff[kinds[s]]) \in Nat /\ CountParts(diff, kinds[s], parts) \in Nat
        <2>1. \A s \in 1..n : Len(diff[kinds[s]]) \in Nat
            BY <1>1, ListFacts DEF Reportable
        <2>2. \A s \in 1..n : CountParts(diff, kinds[s], parts) \in Nat
            BY <1>1, SectionFacts
        <2> QED
            BY <2>1, <2>2
    <1>4. entries \in [1..n -> Nat] /\ \A s \in 1..n : entries[s] = Len(diff[kinds[s]])
        BY <1>1, <1>3
    <1>5. unders \in [1..n -> Nat] /\ \A s \in 1..n : unders[s] = CountParts(diff, kinds[s], parts)
        BY <1>1, <1>3
    <1>6. lens \in [1..n -> Nat] /\ \A s \in 1..n : lens[s] = entries[s] + unders[s]
        BY <1>3, <1>4, <1>5
    <1> HIDE DEF n, seqs, entries, unders, lens
    <1>7. IsList(seqs) /\ Len(seqs) = n
        BY <1>1, <1>2, NumberedIsList
    <1>8. ASSUME NEW s \in 1..n
          PROVE  /\ IsList(seqs[s]) /\ IsInjective(seqs[s]) /\ lens[s] = Len(seqs[s])
                 /\ \A x : x \in ToSet(seqs[s]) <=>
                        \E i \in DOMAIN diff[kinds[s]] : IsBlockLine(x, diff, kinds[s], i, parts)
        <2>1. kinds[s] \in Kinds /\ seqs[s] = Section(diff, kinds[s], parts)
              /\ lens[s] = Len(diff[kinds[s]]) + CountParts(diff, kinds[s], parts)
            BY <1>1, <1>2, <1>4, <1>5, <1>6
        <2> QED
            BY <2>1, SectionFacts
    <1>9. \A s, t \in 1..n : s # t => ToSet(seqs[s]) \cap ToSet(seqs[t]) = {}
        <2> SUFFICES ASSUME NEW s \in 1..n, NEW t \in 1..n, s # t, NEW x \in ToSet(seqs[s]), x \in ToSet(seqs[t])
                     PROVE  FALSE
            OBVIOUS
        <2>1. PICK i : IsBlockLine(x, diff, kinds[s], i, parts)
            BY <1>8
        <2>2. PICK j : IsBlockLine(x, diff, kinds[t], j, parts)
            BY <1>8
        <2>3. kinds[s] = kinds[t]
            BY <2>1, <2>2, BlocksDiffer
        <2> QED
            BY <1>1, <2>3 DEF GoesThrough, IsInjective
    <1>10. /\ IsList(FlattenSeq(seqs)) /\ Len(FlattenSeq(seqs)) = Sum(lens)
           /\ \A x : x \in ToSet(FlattenSeq(seqs)) <=> \E s \in 1..n : x \in ToSet(seqs[s])
        <2>1. (\A s \in 1..n : IsList(seqs[s])) /\ \A s \in 1..n : lens[s] = Len(seqs[s])
            BY <1>8
        <2>2. n \in Nat /\ lens \in [1..n -> Nat]
            BY <1>1, <1>6
        <2> QED
            BY <1>7, <2>1, <2>2, FlattenFacts
    <1>11. IsInjective(FlattenSeq(seqs))
        <2>1. \A s \in 1..n : IsList(seqs[s]) /\ IsInjective(seqs[s])
            BY <1>8
        <2> QED
            BY <1>1, <1>7, <1>9, <2>1, FlattenInjective
    <1>12. Sum(lens) = Sum(entries) + Sum(unders)
        <2>1. n \in Nat /\ entries \in [1..n -> Nat] /\ unders \in [1..n -> Nat] /\ lens \in [1..n -> Nat]
              /\ \A s \in 1..n : lens[s] = entries[s] + unders[s]
            BY <1>1, <1>4, <1>5, <1>6
        <2> QED
            BY <2>1, SumOfSums
    <1>13. \A x : x \in ToSet(FlattenSeq(seqs)) <=>
                \E k \in ToSet(kinds) : \E i \in DOMAIN diff[k] : IsBlockLine(x, diff, k, i, parts)
        <2> TAKE x
        <2>1. x \in ToSet(FlattenSeq(seqs)) <=>
                \E s \in 1..n : \E i \in DOMAIN diff[kinds[s]] : IsBlockLine(x, diff, kinds[s], i, parts)
            BY <1>8, <1>10
        <2> QED
            BY <1>1, <2>1
    <1> QED
        BY <1>10, <1>11, <1>12, <1>13 DEF ReportOf, seqs, entries, unders

LEMMA SumOfZeros ==
    ASSUME NEW n \in Nat, NEW a \in [1..n -> Nat], \A i \in 1..n : a[i] = 0
    PROVE  Sum(a) = 0
    <1>1. \A i \in 1..n : a[i] = a[i] + a[i]
        OBVIOUS
    <1>2. Sum(a) \in Nat /\ Sum(a) = Sum(a) + Sum(a)
        BY <1>1, SumOfSums
    <1> QED
        BY <1>2

LEMMA SumOfJoined ==
    ASSUME NEW n \in Nat, NEW m \in Nat, NEW a \in [1..n -> Nat], NEW b \in [1..m -> Nat],
           NEW c \in [1..(n + m) -> Nat],
           \A i \in 1..n : c[i] = a[i], \A j \in 1..m : c[n + j] = b[j]
    PROVE  Sum(c) = Sum(a) + Sum(b)
    <1>b. n + m \in Nat
        OBVIOUS
    <1>c. Len(a) = n /\ Len(b) = m
        BY SumSteps
    <1>0. Len(c) = n + m
        <2> DEFINE k == n + m
        <2> HIDE DEF k
        <2>1. k \in Nat /\ c \in [1..k -> Nat]
            BY <1>b DEF k
        <2>2. Len(c) = k
            BY <2>1, SumSteps
        <2> QED
            BY <2>2 DEF k
    <1>1. PICK f, g : Sums(f, a) /\ Sums(g, b)
        BY SumSteps
    <1>2. PICK h : Sums(h, c)
        BY <1>b, SumSteps
    <1>3. /\ f[0] = 0 /\ (\A i \in 1..n : f[i] = f[i - 1] + a[i]) /\ Sum(a) = f[n] /\ f[n] \in Nat
          /\ g[0] = 0 /\ (\A i \in 1..m : g[i] = g[i - 1] + b[i]) /\ Sum(b) = g[m]
          /\ \A i \in 0..m : g[i] \in Nat
        <2>1. n \in 0..n
            OBVIOUS
        <2> QED
            BY <1>c, <1>1, <2>1 DEF Sums
    <1>4. h[0] = 0 /\ (\A i \in 1..(n + m) : h[i] = h[i - 1] + c[i]) /\ Sum(c) = h[n + m]
        BY <1>0, <1>2 DEF Sums
    <1>a. \A i \in 1..(n + m) : h[i] = h[i - 1] + c[i]
        BY <1>4
    <1> DEFINE first == {i \in 0..n : h[i] = f[i]}
               second == {j \in 0..m : h[n + j] = f[n] + g[j]}
    <1>5. 0..n \subseteq first
        <2>1. 0 \in first
            BY <1>3, <1>4
        <2>2. ASSUME NEW i \in 1..n, i - 1 \in first
              PROVE  i \in first
            <3>1. i \in 1..(n + m) /\ i \in 0..n /\ h[i - 1] = f[i - 1]
                BY <2>2
            <3>2. h[i] = h[i - 1] + c[i]
                BY <1>4, <3>1
            <3> QED
                BY <1>3, <3>1, <3>2
        <2> HIDE DEF first
        <2> QED
            BY <2>1, <2>2, EveryPosition
    <1>6. 0..m \subseteq second
        <2>1. 0 \in second
            <3>1. n \in first
                <4> HIDE DEF first
                <4> QED
                    BY <1>5
            <3>2. h[n] = f[n] /\ n + 0 = n /\ f[n] + 0 = f[n]
                BY <1>3, <3>1
            <3> QED
                BY <1>3, <3>2
        <2>2. ASSUME NEW j \in 1..m, j - 1 \in second
              PROVE  j \in second
            <3>1. h[n + (j - 1)] = f[n] + g[j - 1] /\ j - 1 \in 0..m /\ j \in 0..m
                BY <2>2
            <3> DEFINE k == n + j
            <3>2. k \in 1..(n + m) /\ k - 1 = n + (j - 1) /\ c[k] = b[j]
                OBVIOUS
            <3> HIDE DEF k
            <3>3. h[k] = h[k - 1] + c[k]
                BY <1>a, <3>2
            <3>4. g[j] = g[j - 1] + b[j] /\ g[j - 1] \in Nat /\ b[j] \in Nat /\ f[n] \in Nat
                BY <1>3, <3>1
            <3>5. h[k] = f[n] + g[j]
                BY <3>1, <3>2, <3>3, <3>4
            <3> QED
                BY <3>1, <3>5 DEF k
        <2> HIDE DEF second
        <2> QED
            BY <2>1, <2>2, EveryPosition
    <1>7. m \in second
        <2> HIDE DEF second
        <2> QED
            BY <1>6
    <1> QED
        BY <1>3, <1>4, <1>7

\* The parts of a table are counted one list after another.
LEMMA PartCountFacts ==
    ASSUME NEW c, \A p \in PartNames : IsList(c.parts[p]),
           NEW parts, IsList(parts), ToSet(parts) \subseteq PartNames
    PROVE  /\ [q \in DOMAIN parts |-> Len(c.parts[parts[q]])] \in [1..Len(parts) -> Nat]
           /\ PartCount(c, parts) = Sum([q \in DOMAIN parts |-> Len(c.parts[parts[q]])])
           /\ PartCount(c, parts) \in Nat
    <1> DEFINE n == Len(parts)
               lens == [q \in DOMAIN parts |-> Len(c.parts[parts[q]])]
    <1>1. n \in Nat /\ DOMAIN parts = 1..n /\ \A q \in 1..n : parts[q] \in PartNames
        BY ListFacts
    <1>2. \A q \in 1..n : Len(c.parts[parts[q]]) \in Nat
        BY <1>1, ListFacts
    <1>3. lens \in [1..n -> Nat]
        BY <1>1, <1>2
    <1> HIDE DEF n, lens
    <1>4. PICK f : Sums(f, lens) /\ Len(lens) = n
        BY <1>1, <1>3, SumSteps
    <1>5. Sum(lens) \in Nat
        BY <1>1, <1>4 DEF Sums
    <1> QED
        BY <1>3, <1>5 DEF PartCount, n, lens

LEMMA PartCountJoined ==
    ASSUME NEW c, \A p \in PartNames : IsList(c.parts[p]),
           NEW s, IsList(s), ToSet(s) \subseteq PartNames,
           NEW t, IsList(t), ToSet(t) \subseteq PartNames
    PROVE  PartCount(c, s \o t) = PartCount(c, s) + PartCount(c, t)
    <1> DEFINE n == Len(s)
               m == Len(t)
               joined == s \o t
               Lens(parts) == [q \in DOMAIN parts |-> Len(c.parts[parts[q]])]
               a == Lens(s)
               b == Lens(t)
               d == Lens(joined)
    <1>1. n \in Nat /\ m \in Nat /\ DOMAIN s = 1..n /\ DOMAIN t = 1..m
        BY ListFacts
    <1>2. /\ IsList(joined) /\ ToSet(joined) \subseteq PartNames /\ Len(joined) = n + m
          /\ (\A i \in 1..n : joined[i] = s[i]) /\ \A j \in 1..m : joined[n + j] = t[j]
        BY JoinedLists
    <1>3. DOMAIN joined = 1..(n + m)
        BY <1>2, ListFacts
    <1> HIDE DEF joined
    <1>4. a \in [1..n -> Nat] /\ PartCount(c, s) = Sum(a)
        BY PartCountFacts
    <1>5. b \in [1..m -> Nat] /\ PartCount(c, t) = Sum(b)
        BY PartCountFacts
    <1>6. d \in [1..(n + m) -> Nat] /\ PartCount(c, joined) = Sum(d)
        BY <1>2, PartCountFacts
    <1>7. \A i \in 1..n : d[i] = a[i]
        BY <1>1, <1>2, <1>3
    <1>8. ASSUME NEW j \in 1..m PROVE d[n + j] = b[j]
        <2>1. n + j \in 1..(n + m) /\ joined[n + j] = t[j]
            BY <1>1, <1>2
        <2> QED
            BY <1>1, <1>3, <2>1
    <1> HIDE DEF a, b, d, n, m
    <1>9. Sum(d) = Sum(a) + Sum(b)
        BY <1>1, <1>4, <1>5, <1>6, <1>7, <1>8, SumOfJoined
    <1> QED
        BY <1>4, <1>5, <1>6, <1>9 DEF joined

\* The kinds and parts of the reports.
LEMMA TextGoesThrough ==
    /\ GoesThrough(TextSections, Kinds) /\ ToSet(TextSections) = Kinds
    /\ DOMAIN TextSections = 1..10 /\ Len(TextSections) = 10
    /\ TextSections[2] = "table" /\ \A s \in 1..10 : s # 2 => TextSections[s] # "table"
    <1> DEFINE t == TextSections
    <1>1. /\ t[1] = "schema" /\ t[2] = "table" /\ t[3] = "view" /\ t[4] = "mview" /\ t[5] = "function"
          /\ t[6] = "procedure" /\ t[7] = "sequence" /\ t[8] = "enum" /\ t[9] = "event"
          /\ t[10] = "extension"
        BY DEF TextSections
    <1>2. Len(t) = 10 /\ DOMAIN t = 1..10 /\ t = [s \in 1..10 |-> t[s]]
        BY DEF TextSections
    <1>3. \A s \in 1..10 : s = 1 \/ s = 2 \/ s = 3 \/ s = 4 \/ s = 5 \/ s = 6 \/ s = 7
                            \/ s = 8 \/ s = 9 \/ s = 10
        OBVIOUS
    <1> HIDE DEF t
    <1>4. IsList(t)
        BY <1>2, NumberedIsList
    <1>5. IsInjective(t)
        BY <1>1, <1>2, <1>3 DEF IsInjective
    <1>6. ToSet(t) = {"schema", "table", "view", "mview", "function", "procedure", "sequence",
                      "enum", "event", "extension"}
        <2>1. ToSet(t) = {t[s] : s \in 1..10}
            BY <1>2 DEF ToSet
        <2> QED
            BY <1>1, <1>3, <2>1
    <1>7. ToSet(t) = Kinds
        BY <1>6, KindFacts
    <1> QED
        BY <1>1, <1>2, <1>3, <1>4, <1>5, <1>7 DEF GoesThrough, t

LEMMA MarkdownGoesThrough ==
    /\ GoesThrough(MarkdownSections, Kinds)
    /\ ToSet(MarkdownSections) = {"schema", "table", "view", "function", "procedure"}
    <1> DEFINE t == MarkdownSections
    <1>1. t[1] = "schema" /\ t[2] = "table" /\ t[3] = "view" /\ t[4] = "function" /\ t[5] = "procedure"
        BY DEF MarkdownSections
    <1>2. Len(t) = 5 /\ DOMAIN t = 1..5 /\ t = [s \in 1..5 |-> t[s]]
        BY DEF MarkdownSections
    <1>3. \A s \in 1..5 : s = 1 \/ s = 2 \/ s = 3 \/ s = 4 \/ s = 5
        OBVIOUS
    <1> HIDE DEF t
    <1>4. IsList(t)
        BY <1>2, NumberedIsList
    <1>5. IsInjective(t)
        BY <1>1, <1>2, <1>3 DEF IsInjective
    <1>6. ToSet(t) = {"schema", "table", "view", "function", "procedure"}
        <2>1. ToSet(t) = {t[s] : s \in 1..5}
            BY <1>2 DEF ToSet
        <2> QED
            BY <1>1, <1>3, <2>1
    <1> QED
        BY <1>4, <1>5, <1>6, KindFacts DEF GoesThrough, t

LEMMA PartsGoThrough ==
    /\ GoesThrough(TextParts, PartNames) /\ ToSet(TextParts) = {"col", "idx", "fk", "chk"}
    /\ GoesThrough(MarkdownParts, PartNames) /\ ToSet(MarkdownParts) = {"col", "idx", "fk"}
    <1> DEFINE t == TextParts
               m == MarkdownParts
    <1>1. t[1] = "col" /\ t[2] = "idx" /\ t[3] = "fk" /\ t[4] = "chk"
        BY DEF TextParts
    <1>2. Len(t) = 4 /\ DOMAIN t = 1..4 /\ t = [s \in 1..4 |-> t[s]]
        BY DEF TextParts
    <1>3. m[1] = "col" /\ m[2] = "idx" /\ m[3] = "fk"
        BY DEF MarkdownParts
    <1>4. Len(m) = 3 /\ DOMAIN m = 1..3 /\ m = [s \in 1..3 |-> m[s]]
        BY DEF MarkdownParts
    <1>5. (\A s \in 1..4 : s = 1 \/ s = 2 \/ s = 3 \/ s = 4) /\ \A s \in 1..3 : s = 1 \/ s = 2 \/ s = 3
        OBVIOUS
    <1> HIDE DEF t, m
    <1>6. IsList(t) /\ IsList(m)
        BY <1>2, <1>4, NumberedIsList
    <1>7. IsInjective(t)
        BY <1>1, <1>2, <1>5 DEF IsInjective
    <1>8. IsInjective(m)
        BY <1>3, <1>4, <1>5 DEF IsInjective
    <1>9. ToSet(t) = {"col", "idx", "fk", "chk"}
        BY <1>1, <1>2, <1>5 DEF ToSet
    <1>10. ToSet(m) = {"col", "idx", "fk"}
        BY <1>3, <1>4, <1>5 DEF ToSet
    <1> QED
        BY <1>6, <1>7, <1>8, <1>9, <1>10 DEF GoesThrough, PartNames, t, m

\* The parts that are counted, those that are not planned set apart.
KeyParts == <<"pk", "unique">>
OtherParts == <<"partition", "trigger", "rule">>

LEMMA CountedPartsAre ==
    /\ IsList(KeyParts) /\ ToSet(KeyParts) \subseteq PartNames
    /\ IsList(OtherParts) /\ ToSet(OtherParts) \subseteq PartNames
    /\ IsList(CountedParts) /\ ToSet(CountedParts) \subseteq PartNames
    /\ CountedParts = TextParts \o KeyParts
    /\ AllParts = CountedParts \o OtherParts
    <1> DEFINE t == TextParts
               c == CountedParts
               k == KeyParts
               o == OtherParts
               j == t \o k
    <1>1. /\ t \in Seq(PartNames) /\ k \in Seq(PartNames) /\ c \in Seq(PartNames) /\ o \in Seq(PartNames)
          /\ Len(t) = 4 /\ Len(k) = 2 /\ Len(c) = 6 /\ Len(o) = 3
        BY DEF TextParts, CountedParts, KeyParts, OtherParts, PartNames
    <1>2. /\ t[1] = "col" /\ t[2] = "idx" /\ t[3] = "fk" /\ t[4] = "chk"
          /\ k[1] = "pk" /\ k[2] = "unique"
          /\ c[1] = "col" /\ c[2] = "idx" /\ c[3] = "fk" /\ c[4] = "chk" /\ c[5] = "pk" /\ c[6] = "unique"
        BY DEF TextParts, CountedParts, KeyParts
    <1>3. \A s \in Seq(PartNames) : IsList(s) /\ ToSet(s) \subseteq PartNames
        <2> SUFFICES ASSUME NEW s \in Seq(PartNames) PROVE IsList(s) /\ ToSet(s) \subseteq PartNames
            OBVIOUS
        <2>1. Len(s) \in Nat /\ DOMAIN s = 1..Len(s) /\ s = [i \in 1..Len(s) |-> s[i]]
              /\ \A i \in 1..Len(s) : s[i] \in PartNames
            OBVIOUS
        <2> QED
            BY <2>1, NumberedIsList DEF ToSet
    <1> HIDE DEF t, c, k, o
    <1>4. /\ j \in Seq(PartNames) /\ Len(j) = Len(t) + Len(k)
          /\ \A i \in 1..(Len(t) + Len(k)) : j[i] = IF i <= Len(t) THEN t[i] ELSE k[i - Len(t)]
        BY <1>1, ConcatProperties
    <1> HIDE DEF j
    <1>5. Len(t) + Len(k) = 6 /\ 5 - Len(t) = 1 /\ 6 - Len(t) = 2
        BY <1>1
    <1>6. /\ j[1] = t[1] /\ j[2] = t[2] /\ j[3] = t[3] /\ j[4] = t[4]
          /\ j[5] = k[5 - Len(t)] /\ j[6] = k[6 - Len(t)]
        BY <1>1, <1>4, <1>5
    <1>7. \A i \in 1..6 : j[i] = c[i]
        <2>1. \A i \in 1..6 : i = 1 \/ i = 2 \/ i = 3 \/ i = 4 \/ i = 5 \/ i = 6
            OBVIOUS
        <2> QED
            BY <1>2, <1>5, <1>6, <2>1
    <1>8. j = c
        <2>1. Len(j) = 6
            BY <1>4, <1>5
        <2> QED
            BY <1>1, <1>4, <1>7, <2>1, SeqEqual
    <1>9. AllParts = CountedParts \o OtherParts
        BY DEF AllParts, OtherParts
    <1> QED
        BY <1>1, <1>3, <1>8, <1>9 DEF t, c, k, o, j

\* A list of members of a set.
LEMMA ListIn ==
    ASSUME NEW S, NEW list
    PROVE  list \in Seq(S) <=> IsList(list) /\ ToSet(list) \subseteq S
    <1>1. ASSUME list \in Seq(S) PROVE IsList(list) /\ ToSet(list) \subseteq S
        <2>1. Len(list) \in Nat /\ DOMAIN list = 1..Len(list) /\ list = [i \in 1..Len(list) |-> list[i]]
              /\ \A i \in 1..Len(list) : list[i] \in S
            BY <1>1
        <2> QED
            BY <2>1, NumberedIsList DEF ToSet
    <1>2. ASSUME IsList(list), ToSet(list) \subseteq S PROVE list \in Seq(S)
        <2>1. list \in Seq(ToSet(list))
            BY <1>2 DEF IsList
        <2> QED
            BY <1>2, <2>1
    <1> QED
        BY <1>1, <1>2

\* How many changes the given lists of the tables hold.
TablesCount(diff, parts) ==
    Sum([i \in DOMAIN diff["table"] |-> PartCount(diff["table"][i], parts)])

LEMMA PartsOfKinds ==
    ASSUME NEW diff, Reportable(diff), NEW parts
    PROVE  /\ CountParts(diff, "table", parts) = TablesCount(diff, parts)
           /\ \A k \in Kinds : k # "table" => CountParts(diff, k, parts) = 0
    <1>1. CountParts(diff, "table", parts) = TablesCount(diff, parts)
        BY DEF CountParts, TablesCount, CountUnder
    <1>2. ASSUME NEW k \in Kinds, k # "table" PROVE CountParts(diff, k, parts) = 0
        <2> DEFINE zeros == [i \in DOMAIN diff[k] |-> CountUnder(diff, k, i, parts)]
        <2>1. IsList(diff[k])
            BY DEF Reportable
        <2>2. DOMAIN diff[k] = 1..Len(diff[k]) /\ Len(diff[k]) \in Nat
            BY <2>1, ListFacts
        <2>3. zeros = [i \in 1..Len(diff[k]) |-> 0]
            BY <1>2, <2>2 DEF CountUnder
        <2>4. zeros \in [1..Len(diff[k]) -> Nat] /\ \A i \in 1..Len(diff[k]) : zeros[i] = 0
            BY <2>3
        <2> HIDE DEF zeros
        <2>5. Sum(zeros) = 0
            BY <2>2, <2>4, SumOfZeros
        <2> QED
            BY <2>5 DEF CountParts, zeros
    <1> QED
        BY <1>1, <1>2

\* The lists of the tables counted together are the one counted after the other.
LEMMA TablesCountJoined ==
    ASSUME NEW diff, Reportable(diff),
           NEW s, IsList(s), ToSet(s) \subseteq PartNames,
           NEW t, IsList(t), ToSet(t) \subseteq PartNames
    PROVE  /\ TablesCount(diff, s \o t) = TablesCount(diff, s) + TablesCount(diff, t)
           /\ TablesCount(diff, s) \in Nat /\ TablesCount(diff, t) \in Nat
    <1> DEFINE n == Len(diff["table"])
               a == [i \in 1..n |-> PartCount(diff["table"][i], s)]
               b == [i \in 1..n |-> PartCount(diff["table"][i], t)]
               c == [i \in 1..n |-> PartCount(diff["table"][i], s \o t)]
    <1>1. IsList(diff["table"])
        BY KindFacts DEF Reportable
    <1>2. DOMAIN diff["table"] = 1..n /\ n \in Nat
        BY <1>1, ListFacts
    <1>3. ASSUME NEW i \in 1..n
          PROVE  a[i] \in Nat /\ b[i] \in Nat /\ c[i] \in Nat /\ c[i] = a[i] + b[i]
        <2> DEFINE x == diff["table"][i]
        <2>1. \A p \in PartNames : IsList(x.parts[p])
            BY <1>2, <1>3 DEF Reportable
        <2>2. a[i] = PartCount(x, s) /\ b[i] = PartCount(x, t) /\ c[i] = PartCount(x, s \o t)
            BY <1>3
        <2> HIDE DEF x, a, b, c
        <2>3. PartCount(x, s) \in Nat /\ PartCount(x, t) \in Nat
            BY <2>1, PartCountFacts
        <2>4. PartCount(x, s \o t) = PartCount(x, s) + PartCount(x, t)
            BY <2>1, PartCountJoined
        <2> QED
            BY <2>2, <2>3, <2>4
    <1>4. /\ TablesCount(diff, s) = Sum(a) /\ TablesCount(diff, t) = Sum(b)
          /\ TablesCount(diff, s \o t) = Sum(c)
        BY <1>2 DEF TablesCount
    <1>5. a \in [1..n -> Nat] /\ b \in [1..n -> Nat] /\ c \in [1..n -> Nat]
        <2>1. \A i \in 1..n : a[i] \in Nat /\ b[i] \in Nat /\ c[i] \in Nat
            BY <1>3
        <2> QED
            BY <2>1
    <1>6. \A i \in 1..n : c[i] = a[i] + b[i]
        BY <1>3
    <1>7. n \in Nat
        BY <1>2
    <1> HIDE DEF a, b, c, n
    <1>8. Sum(a) \in Nat /\ Sum(b) \in Nat /\ Sum(c) = Sum(a) + Sum(b)
        BY <1>5, <1>6, <1>7, SumOfSums
    <1> QED
        BY <1>4, <1>8

\* The lines of the text report are the entries and the listed parts.
LEMMA TextLength ==
    ASSUME NEW diff, Reportable(diff)
    PROVE  /\ Len(FormatDiffAsText(diff)) = EntryCount(diff) + TablesCount(diff, TextParts)
           /\ EntryCount(diff) \in Nat
    <1> DEFINE kinds == TextSections
               parts == TextParts
               a == [s \in DOMAIN kinds |-> CountParts(diff, kinds[s], parts)]
               e == [s \in DOMAIN kinds |-> Len(diff[kinds[s]])]
    <1>1. FormatDiffAsText(diff) = ReportOf(diff, kinds, parts)
        BY DEF FormatDiffAsText, ReportOf
    <1>2. EntryCount(diff) = Sum(e)
        BY DEF EntryCount
    <1>3. GoesThrough(kinds, Kinds) /\ GoesThrough(parts, PartNames)
        BY TextGoesThrough, PartsGoThrough
    <1>4. /\ DOMAIN kinds = 1..10 /\ kinds[2] = "table" /\ \A s \in 1..10 : s # 2 => kinds[s] # "table"
          /\ \A s \in 1..10 : kinds[s] \in Kinds
        <2>1. DOMAIN kinds = 1..10 /\ kinds[2] = "table" /\ \A s \in 1..10 : s # 2 => kinds[s] # "table"
            BY TextGoesThrough
        <2>2. ToSet(kinds) = Kinds
            BY TextGoesThrough
        <2> HIDE DEF kinds
        <2> QED
            BY <2>1, <2>2 DEF ToSet
    <1> HIDE DEF kinds, parts
    <1>5. Len(ReportOf(diff, kinds, parts)) = Sum(e) + Sum(a)
        BY <1>3, ReportFacts
    <1>6. \A s \in 1..10 : a[s] = CountParts(diff, kinds[s], parts) /\ a[s] \in Nat /\ e[s] \in Nat
        <2>1. \A k \in Kinds : CountParts(diff, k, parts) \in Nat
            BY <1>3, SectionFacts
        <2>2. \A k \in Kinds : Len(diff[k]) \in Nat
            BY ListFacts DEF Reportable
        <2>3. \A s \in 1..10 : a[s] = CountParts(diff, kinds[s], parts) /\ a[s] \in Nat
            BY <1>4, <2>1
        <2>4. \A s \in 1..10 : e[s] \in Nat
            BY <1>4, <2>2
        <2> QED
            BY <2>3, <2>4
    <1>7. a \in [1..10 -> Nat] /\ e \in [1..10 -> Nat]
        BY <1>4, <1>6
    <1>8. a[2] = TablesCount(diff, parts) /\ \A s \in 1..10 : s # 2 => a[s] = 0
        <2>1. /\ CountParts(diff, "table", parts) = TablesCount(diff, parts)
              /\ \A k \in Kinds : k # "table" => CountParts(diff, k, parts) = 0
            BY PartsOfKinds
        <2>2. \A s \in 1..10 : a[s] = CountParts(diff, kinds[s], parts)
            BY <1>6
        <2> HIDE DEF a, e
        <2>3. a[2] = CountParts(diff, kinds[2], parts)
            BY <2>2
        <2> QED
            BY <1>4, <2>1, <2>2, <2>3
    <1> HIDE DEF a, e
    <1>9. Sum(a) = a[2]
        <2>1. 10 \in Nat /\ 2 \in 1..10 /\ a \in [1..10 -> Nat] /\ \A i \in 1..10 : i # 2 => a[i] = 0
            BY <1>7, <1>8
        <2> QED
            BY ONLY <2>1, SumOfOne
    <1>10. Sum(e) \in Nat
        <2>1. 10 \in Nat /\ \A i \in 1..10 : e[i] = e[i] + 0
            BY <1>7
        <2> DEFINE z == [i \in 1..10 |-> 0]
        <2>2. z \in [1..10 -> Nat] /\ \A i \in 1..10 : e[i] = e[i] + z[i]
            BY <2>1
        <2> HIDE DEF z
        <2> QED
            BY <1>7, <2>1, <2>2, SumOfSums
    <1> QED
        BY <1>1, <1>2, <1>5, <1>8, <1>9, <1>10 DEF parts

\* The totals.
LEMMA TotalCounts ==
    ASSUME NEW diff, Reportable(diff),
           \A i \in DOMAIN diff["table"] : diff["table"][i].action # "ALTER" =>
                \A p \in PartNames : Len(diff["table"][i].parts[p]) = 0
    PROVE  /\ CountTotalChanges(diff) =
                Len(FormatDiffAsText(diff)) + TablesCount(diff, KeyParts)
           /\ CountChanges(diff) = CountTotalChanges(diff) + TablesCount(diff, OtherParts)
    <1> DEFINE x(i) == diff["table"][i]
    <1>1. CountTotalChanges(diff) = EntryCount(diff) + TablesCount(diff, CountedParts)
        BY DEF CountTotalChanges, TablesCount
    <1>2. ASSUME NEW i \in DOMAIN diff["table"], x(i).action # "ALTER"
          PROVE  PartCount(x(i), AllParts) = 0
        <2> DEFINE parts == AllParts
                   y == x(i)
                   lens == [q \in DOMAIN parts |-> Len(y.parts[parts[q]])]
        <2>1. \A p \in PartNames : IsList(y.parts[p]) /\ Len(y.parts[p]) = 0
            BY <1>2 DEF Reportable
        <2>2. IsList(parts) /\ ToSet(parts) \subseteq PartNames
            <3> DEFINE s == CountedParts
                       t == OtherParts
            <3>1. parts = s \o t /\ IsList(s) /\ IsList(t) /\ ToSet(s) \subseteq PartNames
                  /\ ToSet(t) \subseteq PartNames
                BY CountedPartsAre
            <3> HIDE DEF parts, s, t
            <3>2. s \in Seq(PartNames) /\ t \in Seq(PartNames)
                BY <3>1, ListIn
            <3>3. s \o t \in Seq(PartNames)
                BY <3>2
            <3> QED
                BY <3>1, <3>3, ListIn
        <2> HIDE DEF parts, y
        <2>3. lens \in [1..Len(parts) -> Nat] /\ PartCount(y, parts) = Sum(lens)
            BY <2>1, <2>2, PartCountFacts
        <2>4. DOMAIN parts = 1..Len(parts) /\ Len(parts) \in Nat /\ \A q \in 1..Len(parts) : parts[q] \in PartNames
            BY <2>2, ListFacts DEF ToSet
        <2>5. \A q \in 1..Len(parts) : lens[q] = 0
            BY <2>1, <2>4
        <2> HIDE DEF lens
        <2>6. Sum(lens) = 0
            BY <2>3, <2>4, <2>5, SumOfZeros
        <2> QED
            BY <2>3, <2>6 DEF y, parts
    <1>3. CountChanges(diff) = EntryCount(diff) + TablesCount(diff, AllParts)
        <2>1. \A i \in DOMAIN diff["table"] :
                (IF x(i).action = "ALTER" THEN PartCount(x(i), AllParts) ELSE 0)
                    = PartCount(x(i), AllParts)
            BY <1>2
        <2>2. [i \in DOMAIN diff["table"] |->
                    IF x(i).action = "ALTER" THEN PartCount(x(i), AllParts) ELSE 0]
                = [i \in DOMAIN diff["table"] |-> PartCount(x(i), AllParts)]
            BY <2>1
        <2> QED
            BY <2>2 DEF CountChanges, TablesCount
    <1> DEFINE t == TextParts
               c == CountedParts
               k == KeyParts
               o == OtherParts
    <1>4. /\ IsList(t) /\ ToSet(t) \subseteq PartNames
          /\ IsList(c) /\ ToSet(c) \subseteq PartNames
          /\ IsList(k) /\ ToSet(k) \subseteq PartNames
          /\ IsList(o) /\ ToSet(o) \subseteq PartNames
          /\ c = t \o k /\ AllParts = c \o o
        BY CountedPartsAre, PartsGoThrough DEF GoesThrough
    <1>5. /\ Len(FormatDiffAsText(diff)) = EntryCount(diff) + TablesCount(diff, t)
          /\ EntryCount(diff) \in Nat
        BY TextLength
    <1> HIDE DEF t, c, k, o
    <1>6. /\ TablesCount(diff, t \o k) = TablesCount(diff, t) + TablesCount(diff, k)
          /\ TablesCount(diff, t) \in Nat /\ TablesCount(diff, k) \in Nat
        BY <1>4, TablesCountJoined
    <1>7. /\ TablesCount(diff, c \o o) = TablesCount(diff, c) + TablesCount(diff, o)
          /\ TablesCount(diff, c) \in Nat /\ TablesCount(diff, o) \in Nat
        BY <1>4, TablesCountJoined
    <1>8. CountTotalChanges(diff) = EntryCount(diff) + TablesCount(diff, c)
        BY <1>1 DEF c
    <1>9. CountTotalChanges(diff) = Len(FormatDiffAsText(diff)) + TablesCount(diff, k)
        BY <1>4, <1>5, <1>6, <1>8
    <1>10. CountChanges(diff) = CountTotalChanges(diff) + TablesCount(diff, o)
        BY <1>3, <1>4, <1>5, <1>7, <1>8
    <1> QED
        BY <1>9, <1>10 DEF k, o

\* The headings of altered tables.
IsHeading(l) == l.id[1] = "table" /\ Len(l.id) = 2 /\ l.action = "ALTER"

LEMMA HeadingsAre ==
    /\ \A diff, k, i : IsHeading(EntryLine(diff, k, i)) <=> k = "table" /\ diff[k][i].action = "ALTER"
    /\ \A diff, k, i : EntryLine(diff, k, i).id[1] = k
    /\ \A x, i, p, items : IsItemLine(x, i, p, items) =>
            ~IsHeading(x) /\ Len(x.id) = 4 /\ x.id[3] = p
    <1>1. \A id, action : Line(id, action).id = id /\ Line(id, action).action = action
        BY DEF Line
    <1>2. ASSUME NEW diff, NEW k, NEW i
          PROVE  /\ IsHeading(EntryLine(diff, k, i)) <=> k = "table" /\ diff[k][i].action = "ALTER"
                 /\ EntryLine(diff, k, i).id[1] = k
        <2> DEFINE l == EntryLine(diff, k, i)
        <2>1. l.id = <<k, i>> /\ l.action = diff[k][i].action
            BY <1>1 DEF EntryLine
        <2>2. <<k, i>>[1] = k /\ Len(<<k, i>>) = 2
            OBVIOUS
        <2>3. l.id[1] = k /\ Len(l.id) = 2
            BY <2>1, <2>2
        <2> HIDE DEF l
        <2>4. IsHeading(l) <=> k = "table" /\ diff[k][i].action = "ALTER"
            BY <2>1, <2>3 DEF IsHeading
        <2> QED
            BY <2>3, <2>4 DEF l
    <1>3. ASSUME NEW x, NEW i, NEW p, NEW items, IsItemLine(x, i, p, items)
          PROVE  ~IsHeading(x) /\ Len(x.id) = 4 /\ x.id[3] = p
        <2>1. PICK j \in DOMAIN items : x = Line(<<"table", i, p, j>>, items[j].action)
            BY <1>3 DEF IsItemLine
        <2>2. x.id = <<"table", i, p, j>>
            BY <1>1, <2>1
        <2>3. Len(<<"table", i, p, j>>) = 4 /\ <<"table", i, p, j>>[3] = p
            OBVIOUS
        <2>4. Len(x.id) = 4 /\ x.id[3] = p
            BY <2>2, <2>3
        <2> QED
            BY <2>4 DEF IsHeading
    <1> QED
        BY <1>2, <1>3

\* The text report has the lines of the operations and the headings of altered tables.
-----------------------------------------------------------------------------
(***************************************************************************)
(* The counts by risk.                                                     *)
(***************************************************************************)
\* A finite set as a list: its members, each once.
LEMMA SetListed ==
    ASSUME NEW S, IsFiniteSet(S)
    PROVE  /\ Cardinality(S) \in Nat
           /\ SetToSeq(S) \in [1..Cardinality(S) -> S]
           /\ IsInjective(SetToSeq(S))
           /\ \A x \in S : \E i \in 1..Cardinality(S) : SetToSeq(S)[i] = x
    <1> DEFINE c == Cardinality(S)
    <1>1. c \in Nat /\ ExistsBijection(1..c, S)
        BY FS_CardinalityType
    <1>2. \E f \in [1..c -> S] : IsInjective(f)
        BY <1>1 DEF ExistsBijection, Bijection, Injection
    <1>3. SetToSeq(S) = CHOOSE f \in [1..c -> S] : IsInjective(f)
        BY DEF SetToSeq
    <1> HIDE DEF c
    <1>4. SetToSeq(S) \in [1..c -> S] /\ IsInjective(SetToSeq(S))
        BY <1>2, <1>3
    <1>5. SetToSeq(S) \in Injection(1..c, S)
        BY <1>4 DEF Injection
    <1>6. Cardinality(1..c) = c
        BY <1>1, FS_Interval
    <1>7. SetToSeq(S) \in Surjection(1..c, S)
        <2>1. Cardinality(1..c) = Cardinality(S)
            BY <1>6 DEF c
        <2> QED
            BY <1>5, <2>1, FS_Injection
    <1>8. \A x \in S : \E i \in 1..c : SetToSeq(S)[i] = x
        BY <1>7 DEF Surjection
    <1> QED
        BY <1>1, <1>4, <1>8 DEF c

\* For any operations: the counts by risk add up to their number.
LEMMA RisksAddUp ==
    ASSUME NEW ops, IsList(ops)
    PROVE  LET byRisk == RiskDistribution(ops)
           IN  Sum([i \in 1..Cardinality(DOMAIN byRisk) |->
                            byRisk[SetToSeq(DOMAIN byRisk)[i]]]) = Len(ops)
    <1> DEFINE n == Len(ops)
               risk == [m \in 1..n |-> ops[m].risk]
               Risks == {ops[m].risk : m \in DOMAIN ops}
               byRisk == RiskDistribution(ops)
               c == Cardinality(Risks)
               s == SetToSeq(Risks)
               Of(r) == {m \in 1..n : risk[m] = r}
               a == [i \in 1..c |-> Cardinality(Of(s[i]))]
               Upto(k) == {m \in 1..n : \E i \in 1..k : risk[m] = s[i]}
    <1>1. n \in Nat /\ DOMAIN ops = 1..n
        BY ListFacts
    <1>2. IsFiniteSet(Risks)
        <2>1. risk \in Surjection(1..n, Risks)
            BY <1>1 DEF Surjection
        <2>2. IsFiniteSet(1..n)
            BY <1>1, FS_Interval
        <2> HIDE DEF risk, Risks
        <2> QED
            BY <2>1, <2>2, FS_Surjection
    <1>3. /\ DOMAIN byRisk = Risks
          /\ \A r \in Risks : byRisk[r] = Cardinality(Of(r))
        <2>1. byRisk = [r \in Risks |-> Cardinality({m \in DOMAIN ops : ops[m].risk = r})]
            BY DEF RiskDistribution
        <2>2. \A r : {m \in DOMAIN ops : ops[m].risk = r} = Of(r)
            BY <1>1
        <2> HIDE DEF byRisk, Risks, Of
        <2> QED
            BY <2>1, <2>2
    <1>4. \A m \in 1..n : risk[m] \in Risks
        BY <1>1
    <1> HIDE DEF Risks
    <1>5. /\ c \in Nat /\ s \in [1..c -> Risks] /\ IsInjective(s)
          /\ \A r \in Risks : \E i \in 1..c : s[i] = r
        BY <1>2, SetListed
    <1> HIDE DEF s, c, risk
    <1>6. \A i \in 1..c : byRisk[s[i]] = Cardinality(Of(s[i]))
        BY <1>3, <1>5
    <1>7. [i \in 1..c |-> byRisk[s[i]]] = a
        BY <1>6
    <1>8. \A S \in SUBSET (1..n) : IsFiniteSet(S) /\ Cardinality(S) \in Nat
        <2>1. IsFiniteSet(1..n)
            BY <1>1, FS_Interval
        <2> QED
            BY <2>1, FS_Subset, FS_CardinalityType
    <1>9. a \in [1..c -> Nat]
        BY <1>8
    <1>10. PICK f : Sums(f, a)
        BY <1>5, <1>9, SumSteps
    <1>11. Len(a) = c
        BY <1>5, <1>9, SumSteps
    <1>12. f[0] = 0 /\ (\A i \in 1..c : f[i] = f[i - 1] + a[i]) /\ Sum(a) = f[c]
        BY <1>10, <1>11 DEF Sums
    <1> DEFINE good == {k \in 0..c : f[k] = Cardinality(Upto(k))}
    <1>13. 0 \in good
        <2>1. Upto(0) = {}
            OBVIOUS
        <2> HIDE DEF Upto
        <2>2. Cardinality(Upto(0)) = 0
            BY <2>1, FS_EmptySet
        <2>3. 0 \in 0..c /\ f[0] = 0
            BY <1>5, <1>12
        <2> QED
            BY <2>2, <2>3
    <1>14. ASSUME NEW k \in 1..c, k - 1 \in good PROVE k \in good
        <2> DEFINE j == k - 1
        <2>1. k \in Nat /\ j \in Nat /\ k = j + 1 /\ 1..k = 1..j \cup {k} /\ k \notin 1..j /\ 1..k \subseteq 1..c
            BY <1>5, <1>14
        <2>2. f[j] = Cardinality(Upto(j))
            BY <1>14
        <2>3. f[k] = f[j] + a[k] /\ a[k] = Cardinality(Of(s[k]))
            BY <1>12, <1>14
        <2> HIDE DEF j, good, a
        <2>4. Upto(k) = Upto(j) \cup Of(s[k])
            BY <2>1
        <2>5. Upto(j) \cap Of(s[k]) = {}
            <3>1. \A i \in 1..j : s[i] # s[k]
                BY <1>5, <2>1 DEF IsInjective
            <3> QED
                BY <3>1
        <2>6. Upto(j) \in SUBSET (1..n) /\ Of(s[k]) \in SUBSET (1..n)
            OBVIOUS
        <2> HIDE DEF Upto, Of
        <2>7. Cardinality(Upto(k)) = Cardinality(Upto(j)) + Cardinality(Of(s[k]))
            <3>1. /\ IsFiniteSet(Upto(j)) /\ Cardinality(Upto(j)) \in Nat
                  /\ IsFiniteSet(Of(s[k])) /\ Cardinality(Of(s[k])) \in Nat
                BY <1>8, <2>6
            <3>2. Cardinality(Upto(j) \cup Of(s[k]))
                    = Cardinality(Upto(j)) + Cardinality(Of(s[k])) - Cardinality(Upto(j) \cap Of(s[k]))
                BY <3>1, FS_Union
            <3>3. Cardinality(Upto(j) \cap Of(s[k])) = 0
                BY <2>5, FS_EmptySet
            <3> QED
                BY <2>4, <3>1, <3>2, <3>3
        <2>8. k \in 0..c /\ f[k] = Cardinality(Upto(k))
            BY <1>5, <1>14, <2>2, <2>3, <2>7
        <2> QED
            BY <2>8 DEF good
    <1> HIDE DEF good, Upto, Of, a
    <1>15. 0..c \subseteq good
        BY <1>5, <1>13, <1>14, EveryPosition
    <1>16. c \in good
        BY <1>5, <1>15
    <1>17. f[c] = Cardinality(Upto(c))
        BY <1>16 DEF good
    <1>18. Upto(c) = 1..n
        BY <1>4, <1>5 DEF Upto
    <1>19. Cardinality(1..n) = n
        <2> HIDE DEF n
        <2> QED
            BY <1>1, FS_Interval
    <1>20. Sum(a) = n
        BY <1>12, <1>17, <1>18, <1>19
    <1>21. Sum([i \in 1..c |-> byRisk[s[i]]]) = n
        BY <1>7, <1>20
    <1> QED
        BY <1>3, <1>21 DEF c, s
=============================================================================

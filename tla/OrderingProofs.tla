--------------------------- MODULE OrderingProofs ---------------------------
(***************************************************************************)
(* Proofs about planner.orderOperations for every list of operations and   *)
(* every dependency graph: the invariant of the depth-first search, the    *)
(* order it emits, and each of its steps as a step of DependencyOrder.     *)
(***************************************************************************)
EXTENDS Ordering, SequenceTheorems, FiniteSetTheorems, WellFoundedInduction, TLAPS

\* Appending adds one element, at the end.
LEMMA AppendFacts ==
    ASSUME NEW S, NEW s \in Seq(S), NEW e \in S
    PROVE  /\ Append(s, e) \in Seq(S)
           /\ Len(Append(s, e)) = Len(s) + 1
           /\ Len(s) \in Nat
           /\ DOMAIN Append(s, e) = 1..Len(s) + 1
           /\ DOMAIN s = 1..Len(s)
           /\ \A i \in 1..Len(s) : Append(s, e)[i] = s[i]
           /\ Append(s, e)[Len(s) + 1] = e
           /\ ToSet(Append(s, e)) = ToSet(s) \cup {e}
    <1>1. /\ Append(s, e) \in Seq(S)
          /\ Len(Append(s, e)) = Len(s) + 1
          /\ DOMAIN Append(s, e) = 1..Len(s) + 1
          /\ DOMAIN s = 1..Len(s)
          /\ \A i \in 1..Len(s) : Append(s, e)[i] = s[i]
          /\ Append(s, e)[Len(s) + 1] = e
          /\ Len(s) \in Nat
        OBVIOUS
    <1>2. QED
        BY <1>1 DEF ToSet

\* Appending a new element to a sequence without repetitions leaves none.
LEMMA AppendInjectiveFact ==
    ASSUME NEW S, NEW s \in Seq(S), NEW e \in S, IsInjective(s), e \notin ToSet(s)
    PROVE  IsInjective(Append(s, e))
    BY AppendFacts DEF IsInjective, ToSet

\* All but the last of distinct elements.
LEMMA FrontFacts ==
    ASSUME NEW S, NEW s \in Seq(S), Len(s) \in Nat \ {0}, IsInjective(s),
           NEW t \in Seq(S), Len(t) = Len(s) - 1, \A i \in 1..Len(s) - 1 : t[i] = s[i]
    PROVE  IsInjective(t) /\ ToSet(t) = ToSet(s) \ {s[Len(s)]}
    <1>1. DOMAIN s = 1..Len(s) /\ DOMAIN t = 1..Len(s) - 1
        BY LenProperties
    <1>2. IsInjective(t)
        BY <1>1 DEF IsInjective
    <1>3. \A i \in 1..Len(s) - 1 : s[i] # s[Len(s)]
        BY <1>1 DEF IsInjective
    <1>4. ToSet(t) \subseteq ToSet(s) \ {s[Len(s)]}
        BY <1>1, <1>3 DEF ToSet
    <1>5. ToSet(s) \ {s[Len(s)]} \subseteq ToSet(t)
        BY <1>1 DEF ToSet
    <1>6. QED
        BY <1>2, <1>4, <1>5

\* Popping a non-empty stack of distinct identifiers removes exactly its top.
LEMMA PopFacts ==
    ASSUME NEW S, NEW s \in Seq(S), s # <<>>
    PROVE  /\ SubSeq(s, 1, Len(s) - 1) \in Seq(S)
           /\ Len(s) \in Nat \ {0}
           /\ Len(SubSeq(s, 1, Len(s) - 1)) = Len(s) - 1
           /\ DOMAIN s = 1..Len(s)
           /\ DOMAIN SubSeq(s, 1, Len(s) - 1) = 1..Len(s) - 1
           /\ \A i \in 1..Len(s) - 1 : SubSeq(s, 1, Len(s) - 1)[i] = s[i]
           /\ IsInjective(s) => /\ IsInjective(SubSeq(s, 1, Len(s) - 1))
                               /\ ToSet(SubSeq(s, 1, Len(s) - 1)) = ToSet(s) \ {s[Len(s)]}
    <1> DEFINE t == SubSeq(s, 1, Len(s) - 1)
    <1>1. Len(s) \in Nat \ {0} /\ DOMAIN s = 1..Len(s)
        BY EmptySeq, LenProperties
    <1>2. \A i \in 1..Len(s) - 1 : s[i] \in S
        BY <1>1, ElementOfSeq
    <1>3. /\ t \in Seq(S)
          /\ Len(t) = Len(s) - 1
          /\ \A i \in 1..Len(s) - 1 : t[i] = s[i]
        BY <1>1, <1>2, SubSeqProperties
    <1> HIDE DEF t
    <1>4. DOMAIN t = 1..Len(s) - 1
        BY <1>3, LenProperties
    <1>5. IsInjective(s) => IsInjective(t) /\ ToSet(t) = ToSet(s) \ {s[Len(s)]}
        BY <1>1, <1>3, FrontFacts
    <1>6. QED
        BY <1>1, <1>3, <1>4, <1>5 DEF t

\* The elements of a sequence, by position.
LEMMA ToSetFacts ==
    ASSUME NEW S, NEW s \in Seq(S)
    PROVE  /\ Len(s) \in Nat
           /\ DOMAIN s = 1..Len(s)
           /\ \A i \in 1..Len(s) : s[i] \in S /\ s[i] \in ToSet(s)
           /\ \A x \in ToSet(s) : \E i \in 1..Len(s) : s[i] = x
           /\ ToSet(s) \subseteq S
    BY DEF ToSet

-----------------------------------------------------------------------------
IInv == TypeOK /\ SearchInv

\* What a frame iterates over is a sequence of identifiers.
LEMMA IteratedType ==
    ASSUME TypeOK, NEW id
    PROVE  Iterated(id) \in Seq(Id)
    BY DEF TypeOK, Iterated

\* A step changes neither the operations nor their dependencies, so what is
\* defined from them alone keeps its value.
LEMMA InputUnchanged ==
    ASSUME UNCHANGED input
    PROVE  /\ Ops' = Ops
           /\ \A id : Iterated(id)' = Iterated(id)
           /\ \A id : OpDeps(id)' = OpDeps(id)
           /\ Promise!HasCycle' = Promise!HasCycle
           /\ IsInjective(operations)' = IsInjective(operations)
    BY DEF input, Ops, Iterated, OpDeps, Promise!HasCycle, Promise!Ops, Promise!OpDeps

LEMMA InitIInv == Init => IInv
    <1> SUFFICES ASSUME Init PROVE IInv
        OBVIOUS
    <1>1. operations \in Seq(Id) /\ IsInjective(operations)
        BY InputsAssumption DEF Init, IsInjective
    <1>2. deps \in [Ops -> Seq(Id)]
        BY InputsAssumption DEF Init
    <1>3. TypeOK
        BY <1>1, <1>2, LenProperties DEF Init, TypeOK
    <1>4. ToSet(<<>>) = {} /\ DOMAIN <<>> = {} /\ Len(<<>>) = 0
        BY DEF ToSet
    <1>5. StackIsPath /\ LookedAtIsDone /\ VisitedIsClosed /\ LoopIsDone
        BY <1>4 DEF Init, StackIsPath, LookedAtIsDone, VisitedIsClosed, LoopIsDone, IsInjective
    <1>6. ResultIsJustified /\ DependenciesFirst
        BY <1>4 DEF Init, ResultIsJustified, DependenciesFirst
    <1>7. QED
        BY <1>1, <1>3, <1>5, <1>6 DEF IInv, SearchInv

-----------------------------------------------------------------------------
\* The outer loop, skipping.
LEMMA SkipOperationIInv == IInv /\ SkipOperation => IInv'
    <1> SUFFICES ASSUME IInv, SkipOperation PROVE IInv'
        OBVIOUS
    <1> USE DEF IInv
    <1>1. UNCHANGED input
        BY DEF SkipOperation, input
    <1>2. TypeOK'
        BY <1>1, InputUnchanged, LenProperties DEF TypeOK, SkipOperation, input
    <1>3. LoopIsDone'
        BY <1>1 DEF SearchInv, LoopIsDone, SkipOperation, TypeOK, input
    <1>4. StackIsPath' /\ LookedAtIsDone' /\ VisitedIsClosed' /\ DependenciesFirst'
        BY <1>1, InputUnchanged
        DEF SkipOperation, SearchInv, StackIsPath, LookedAtIsDone, VisitedIsClosed, DependenciesFirst
    <1>5. ResultIsJustified'
        BY <1>1, InputUnchanged DEF SkipOperation, SearchInv, ResultIsJustified
    <1>6. QED
        BY <1>1, <1>2, <1>3, <1>4, <1>5, InputUnchanged DEF SearchInv

\* The outer loop, starting a search.
LEMMA VisitOperationIInv == IInv /\ VisitOperation => IInv'
    <1> SUFFICES ASSUME IInv, VisitOperation PROVE IInv'
        OBVIOUS
    <1> DEFINE o == operations[pos]
    <1> USE DEF IInv
    <1>1. UNCHANGED input
        BY DEF VisitOperation, input
    <1>2. o \in Id /\ o \in Ops /\ pos \in 1..Len(operations)
        BY ToSetFacts DEF TypeOK, VisitOperation, Ops
    <1>3. stack' = <<o>> /\ Len(stack') = 1 /\ DOMAIN stack' = {1} /\ stack'[1] = o
        BY DEF VisitOperation
    <1>4. ToSet(stack') = {o}
        BY <1>3 DEF ToSet
    <1>5. tempMark = {}
        BY DEF VisitOperation, SearchInv, StackIsPath, ToSet
    <1>6. cursor' \in [Id -> Nat \ {0}] /\ cursor'[o] = 1
        BY <1>2 DEF VisitOperation, TypeOK
    <1>7. TypeOK'
        <2>1. stack' \in Seq(Id)
            BY <1>2, <1>3
        <2>2. QED
            BY <1>1, <1>2, <1>6, <2>1, InputUnchanged, LenProperties DEF TypeOK, VisitOperation, input
    <1>8. StackIsPath'
        <2>1. cursor'[o] <= Len(Iterated(o)) + 1
            BY <1>6, IteratedType, LenProperties
        <2>2. QED
            BY <1>1, <1>3, <1>4, <1>5, <2>1, InputUnchanged DEF VisitOperation, StackIsPath, IsInjective
    <1>9. LookedAtIsDone'
        BY <1>3, <1>6 DEF LookedAtIsDone
    <1>10. VisitedIsClosed' /\ DependenciesFirst'
        BY <1>1, InputUnchanged DEF VisitOperation, SearchInv, VisitedIsClosed, DependenciesFirst
    <1>11. LoopIsDone'
        BY <1>1, <1>2, <1>3 DEF SearchInv, LoopIsDone, VisitOperation, input
    <1>12. ResultIsJustified'
        BY <1>1, InputUnchanged DEF VisitOperation, ResultIsJustified
    <1>13. QED
        BY <1>1, <1>7, <1>8, <1>9, <1>10, <1>11, <1>12, InputUnchanged DEF SearchInv

-----------------------------------------------------------------------------
\* The frame that looks at a dependency, and the dependency.
LEMMA LookingFacts ==
    ASSUME IInv, Looking
    PROVE  /\ Len(stack) \in Nat \ {0}
           /\ DOMAIN stack = 1..Len(stack)
           /\ \A k \in 1..Len(stack) : stack[k] \in Id /\ stack[k] \in tempMark
           /\ \A x \in tempMark : \E k \in 1..Len(stack) : stack[k] = x
           /\ Top \in Id /\ Top \in Ops
           /\ cursor[Top] \in 1..Len(deps[Top])
           /\ Iterated(Top) = deps[Top]
           /\ NextDep \in Id /\ NextDep = deps[Top][cursor[Top]]
           /\ NextDep \in ToSet(deps[Top])
    <1>1. /\ Len(stack) \in Nat \ {0}
          /\ DOMAIN stack = 1..Len(stack)
        BY EmptySeq, LenProperties DEF IInv, TypeOK, Looking
    <1>2. /\ \A k \in 1..Len(stack) : stack[k] \in Id /\ stack[k] \in tempMark
          /\ \A x \in tempMark : \E k \in 1..Len(stack) : stack[k] = x
        BY ToSetFacts DEF IInv, TypeOK, SearchInv, StackIsPath
    <1>3. Top \in Id
        BY <1>1, <1>2 DEF Top
    <1>4. cursor[Top] \in Nat \ {0}
        BY <1>3 DEF IInv, TypeOK
    <1>5. Top \in Ops
        BY <1>4 DEF Looking, Iterated
    <1>6. Iterated(Top) = deps[Top] /\ deps[Top] \in Seq(Id)
        BY <1>5 DEF Iterated, IInv, TypeOK
    <1>7. cursor[Top] \in 1..Len(deps[Top])
        BY <1>4, <1>6, LenProperties DEF Looking
    <1>8. QED
        BY <1>1, <1>2, <1>3, <1>5, <1>6, <1>7, ToSetFacts DEF NextDep

\* A dependency on the stack closes a circle: each identifier from its position
\* on depends on the next one, and the top depends on it.
LEMMA CircularHasCycle == IInv /\ Circular => Promise!HasCycle
    <1> SUFFICES ASSUME IInv, Circular PROVE Promise!HasCycle
        OBVIOUS
    <1>1. Looking /\ NextDep \in tempMark
        BY DEF Circular
    <1>2. PICK j \in 1..Len(stack) : stack[j] = NextDep
        BY <1>1, LookingFacts
    <1>3. Len(stack) \in Nat \ {0} /\ DOMAIN stack = 1..Len(stack)
        BY <1>1, LookingFacts
    <1> DEFINE S == {stack[k] : k \in j..Len(stack)}
    <1>4. \A k \in j..Len(stack) : stack[k] \in Ops /\ \E d \in S : d \in ToSet(deps[stack[k]])
        <2> SUFFICES ASSUME NEW k \in j..Len(stack)
                     PROVE  stack[k] \in Ops /\ \E d \in S : d \in ToSet(deps[stack[k]])
            OBVIOUS
        <2>1. CASE k = Len(stack)
            <3>1. stack[k] = Top
                BY <2>1 DEF Top
            <3>2. stack[j] \in S
                BY <1>2, <1>3
            <3>3. QED
                BY <1>1, <1>2, <3>1, <3>2, LookingFacts
        <2>2. CASE k < Len(stack)
            <3>1. k \in 1..Len(stack) - 1 /\ k \in DOMAIN stack /\ k + 1 \in j..Len(stack)
                BY <1>2, <1>3, <2>2
            <3>2. /\ cursor[stack[k]] > 1
                  /\ Iterated(stack[k])[cursor[stack[k]] - 1] = stack[k + 1]
                  /\ cursor[stack[k]] <= Len(Iterated(stack[k])) + 1
                BY <3>1 DEF IInv, SearchInv, StackIsPath
            <3>3. stack[k] \in Id /\ cursor[stack[k]] \in Nat
                BY <1>1, <3>1, LookingFacts DEF IInv, TypeOK
            <3>4. stack[k] \in Ops
                BY <3>2, <3>3 DEF Iterated
            <3>5. Iterated(stack[k]) = deps[stack[k]] /\ deps[stack[k]] \in Seq(Id)
                BY <3>4 DEF Iterated, IInv, TypeOK
            <3>6. cursor[stack[k]] - 1 \in 1..Len(deps[stack[k]])
                BY <3>2, <3>3, <3>5, LenProperties
            <3>7. stack[k + 1] \in ToSet(deps[stack[k]])
                BY <3>2, <3>5, <3>6, ToSetFacts
            <3>8. QED
                BY <3>1, <3>4, <3>7
        <2>3. k = Len(stack) \/ k < Len(stack)
            <3>1. Len(stack) \in Int
                BY <1>3
            <3>2. QED
                BY <3>1
        <2> HIDE DEF S
        <2>4. QED
            BY <2>1, <2>2, <2>3
    <1>5. stack[j] \in S
        BY <1>2, <1>3
    <1>6. ASSUME NEW x \in S
          PROVE  x \in Ops /\ (ToSet(deps[x]) \cap Ops) \cap S # {}
        <2>1. PICK k \in j..Len(stack) : x = stack[k]
            OBVIOUS
        <2>2. PICK d \in S : d \in ToSet(deps[x])
            BY <1>4, <2>1
        <2>3. x \in Ops /\ d \in Ops
            BY <1>4, <2>1
        <2>4. QED
            BY <2>2, <2>3
    <1> HIDE DEF S
    <1>7. QED
        BY <1>5, <1>6
        DEF Promise!HasCycle, Promise!OpDeps, Promise!Ops, Promise!ToSet, Ops, ToSet

\* An error return leaves everything else as it was.
LEMMA CircularIInv == IInv /\ Circular => IInv'
    <1> SUFFICES ASSUME IInv, Circular PROVE IInv'
        OBVIOUS
    <1> USE DEF IInv
    <1>1. UNCHANGED <<input, search, ordered>> /\ result' = "circular"
        BY DEF Circular
    <1>2. TypeOK'
        BY <1>1, InputUnchanged DEF TypeOK, input, search
    <1>3. StackIsPath' /\ LookedAtIsDone' /\ VisitedIsClosed' /\ DependenciesFirst'
        BY <1>1, InputUnchanged
        DEF SearchInv, StackIsPath, LookedAtIsDone, VisitedIsClosed, DependenciesFirst, search
    <1>4. LoopIsDone'
        BY <1>1 DEF SearchInv, LoopIsDone, search, input
    <1>5. ResultIsJustified'
        BY <1>1, CircularHasCycle, InputUnchanged DEF ResultIsJustified
    <1>6. QED
        BY <1>1, <1>2, <1>3, <1>4, <1>5, InputUnchanged DEF SearchInv

\* A dependency already done moves the top frame on by one.
LEMMA SkipDependencyIInv == IInv /\ SkipDependency => IInv'
    <1> SUFFICES ASSUME IInv, SkipDependency PROVE IInv'
        OBVIOUS
    <1> USE DEF IInv
    <1>1. UNCHANGED input /\ Looking
        BY DEF SkipDependency, input
    <1>2. /\ cursor' \in [Id -> Nat \ {0}]
          /\ cursor'[Top] = cursor[Top] + 1
          /\ \A id \in Id : id # Top => cursor'[id] = cursor[id]
        <2>1. /\ cursor' = [cursor EXCEPT ![Top] = @ + 1]
              /\ cursor \in [Id -> Nat \ {0}]
            BY DEF SkipDependency, TypeOK
        <2>2. Top \in Id
            BY <1>1, LookingFacts
        <2>3. QED
            BY <2>1, <2>2
    <1>3. TypeOK'
        BY <1>1, <1>2, InputUnchanged DEF TypeOK, SkipDependency, input
    <1>4. \A k \in 1..Len(stack) - 1 : stack[k] # Top
        <2>1. IsInjective(stack)
            BY DEF SearchInv, StackIsPath
        <2>2. /\ Len(stack) \in Nat \ {0} /\ DOMAIN stack = 1..Len(stack)
              /\ Top = stack[Len(stack)]
            BY <1>1, LookingFacts DEF Top
        <2>3. QED
            BY <2>1, <2>2 DEF IsInjective
    <1>5. StackIsPath'
        <2>1. \A k \in DOMAIN stack : cursor'[stack[k]] <= Len(Iterated(stack[k])) + 1
            <3> SUFFICES ASSUME NEW k \in DOMAIN stack
                         PROVE  cursor'[stack[k]] <= Len(Iterated(stack[k])) + 1
                OBVIOUS
            <3>1. CASE stack[k] = Top
                <4>1. cursor[Top] \in 1..Len(deps[Top]) /\ Iterated(Top) = deps[Top]
                    BY <1>1, LookingFacts
                <4>2. QED
                    BY <1>2, <3>1, <4>1
            <3>2. CASE stack[k] # Top
                <4>1. stack[k] \in Id
                    BY <1>1, LookingFacts
                <4>2. QED
                    BY <1>2, <3>2, <4>1 DEF SearchInv, StackIsPath
            <3>3. QED
                BY <3>1, <3>2
        <2>2. \A k \in 1..Len(stack) - 1 : cursor'[stack[k]] = cursor[stack[k]]
            BY <1>1, <1>2, <1>4, LookingFacts
        <2>3. UNCHANGED <<tempMark, stack, visited>>
            BY DEF SkipDependency
        <2>4. \A id : Iterated(id)' = Iterated(id)
            BY <1>1, InputUnchanged
        <2>5. StackIsPath
            BY DEF SearchInv
        <2>6. QED
            BY <2>1, <2>2, <2>3, <2>4, <2>5 DEF StackIsPath
    <1>6. LookedAtIsDone'
        <2> SUFFICES ASSUME NEW k \in DOMAIN stack, NEW m \in 1..cursor'[stack[k]] - 1
                     PROVE  \/ Iterated(stack[k])[m] \in visited
                            \/ k < Len(stack) /\ m = cursor'[stack[k]] - 1
            BY <1>1, InputUnchanged DEF SkipDependency, LookedAtIsDone
        <2>1. CASE k < Len(stack)
            BY <1>1, <1>2, <1>4, <2>1, LookingFacts DEF SearchInv, LookedAtIsDone
        <2>2. CASE k = Len(stack)
            <3>1. stack[k] = Top
                BY <2>2 DEF Top
            <3>2. CASE m = cursor[Top]
                BY <1>1, <3>1, <3>2, LookingFacts DEF SkipDependency, NextDep
            <3>3. CASE m # cursor[Top]
                <4>1. m \in 1..cursor[stack[k]] - 1
                    BY <1>1, <1>2, <3>1, <3>3, LookingFacts
                <4>2. QED
                    BY <2>2, <4>1 DEF SearchInv, LookedAtIsDone
            <3>4. QED
                BY <3>2, <3>3
        <2>3. QED
            BY <1>1, <2>1, <2>2, LookingFacts
    <1>7. VisitedIsClosed' /\ DependenciesFirst' /\ LoopIsDone' /\ ResultIsJustified'
        BY <1>1, InputUnchanged
        DEF SkipDependency, SearchInv, VisitedIsClosed, DependenciesFirst, LoopIsDone, ResultIsJustified, input
    <1>8. QED
        BY <1>1, <1>3, <1>5, <1>6, <1>7, InputUnchanged DEF SearchInv

\* A new dependency is pushed above the frame that looks at it.
LEMMA VisitDependencyIInv == IInv /\ VisitDependency => IInv'
    <1> SUFFICES ASSUME IInv, VisitDependency PROVE IInv'
        OBVIOUS
    <1> DEFINE d == NextDep
               n == Len(stack)
    <1> USE DEF IInv
    <1>1. UNCHANGED input /\ Looking /\ d \notin tempMark /\ d \notin visited
        BY DEF VisitDependency, input
    <1>2. /\ n \in Nat \ {0} /\ DOMAIN stack = 1..n
          /\ \A k \in 1..n : stack[k] \in Id /\ stack[k] # d
          /\ Top \in Id /\ Top = stack[n] /\ Top # d /\ d \in Id
          /\ cursor[Top] \in 1..Len(deps[Top]) /\ Iterated(Top) = deps[Top]
          /\ d = Iterated(Top)[cursor[Top]]
        BY <1>1, LookingFacts DEF Top
    <1>3. /\ stack' = Append(stack, d)
          /\ stack' \in Seq(Id)
          /\ Len(stack') = n + 1
          /\ DOMAIN stack' = 1..n + 1
          /\ \A k \in 1..n : stack'[k] = stack[k]
          /\ stack'[n + 1] = d
          /\ ToSet(stack') = ToSet(stack) \cup {d}
        <2>1. stack \in Seq(Id) /\ stack' = Append(stack, d) /\ d \in Id
            BY <1>2 DEF VisitDependency, TypeOK
        <2> HIDE DEF d
        <2>2. QED
            BY <2>1, AppendFacts
    <1>4. /\ cursor' \in [Id -> Nat \ {0}]
          /\ cursor'[d] = 1
          /\ cursor'[Top] = cursor[Top] + 1
          /\ \A id \in Id : id # Top /\ id # d => cursor'[id] = cursor[id]
        <2>1. /\ cursor' = [cursor EXCEPT ![Top] = @ + 1, ![d] = 1]
              /\ cursor \in [Id -> Nat \ {0}]
            BY DEF VisitDependency, TypeOK
        <2>2. Top \in Id /\ d \in Id /\ Top # d
            BY <1>2
        <2> HIDE DEF d
        <2>3. QED
            BY <2>1, <2>2
    <1>5. \A k \in 1..n - 1 : stack[k] # Top
        <2>1. IsInjective(stack)
            BY DEF SearchInv, StackIsPath
        <2>2. /\ n \in Nat \ {0} /\ DOMAIN stack = 1..n
              /\ Top = stack[n]
            BY <1>2 DEF Top
        <2> HIDE DEF d, n
        <2>3. QED
            BY <2>1, <2>2 DEF IsInjective
    <1> HIDE DEF d, n
    <1>6. \A k \in 1..n - 1 : cursor'[stack[k]] = cursor[stack[k]]
        <2> SUFFICES ASSUME NEW k \in 1..n - 1
                     PROVE  cursor'[stack[k]] = cursor[stack[k]]
            OBVIOUS
        <2>1. k \in 1..n
            BY <1>2
        <2>2. QED
            BY <1>2, <1>4, <1>5, <2>1
    <1>7. TypeOK'
        <2>1. /\ UNCHANGED <<operations, deps, pos, visited, ordered, result>>
              /\ tempMark' = tempMark \cup {d}
            BY DEF VisitDependency, input, d
        <2>2. Ops' = Ops
            BY <1>1, InputUnchanged
        <2>3. tempMark' \subseteq Id
            BY <1>2, <2>1 DEF TypeOK
        <2>4. QED
            BY <1>3, <1>4, <2>1, <2>2, <2>3 DEF TypeOK
    <1>8. StackIsPath'
        <2>1. tempMark' = ToSet(stack')
            BY <1>3 DEF VisitDependency, SearchInv, StackIsPath, d
        <2>2. IsInjective(stack')
            BY <1>2, <1>3 DEF SearchInv, StackIsPath, IsInjective
        <2>3. tempMark' \cap visited' = {}
            BY <1>1 DEF VisitDependency, SearchInv, StackIsPath, d
        <2>4. \A k \in 1..n + 1 : cursor'[stack'[k]] <= Len(Iterated(stack'[k])) + 1
            <3> SUFFICES ASSUME NEW k \in 1..n + 1
                         PROVE  cursor'[stack'[k]] <= Len(Iterated(stack'[k])) + 1
                OBVIOUS
            <3>1. CASE k = n + 1
                BY <1>3, <1>4, <3>1, IteratedType, LenProperties
            <3>2. CASE k = n
                BY <1>2, <1>3, <1>4, <3>2
            <3>3. CASE k \in 1..n - 1
                BY <1>2, <1>3, <1>6, <3>3 DEF SearchInv, StackIsPath
            <3>4. QED
                BY <1>2, <3>1, <3>2, <3>3
        <2>5. \A k \in 1..n : /\ cursor'[stack'[k]] > 1
                              /\ Iterated(stack'[k])[cursor'[stack'[k]] - 1] = stack'[k + 1]
            <3> SUFFICES ASSUME NEW k \in 1..n
                         PROVE  /\ cursor'[stack'[k]] > 1
                                /\ Iterated(stack'[k])[cursor'[stack'[k]] - 1] = stack'[k + 1]
                OBVIOUS
            <3>1. CASE k = n
                <4>1. stack'[k] = Top /\ stack'[k + 1] = d
                    BY <1>2, <1>3, <3>1
                <4>2. cursor'[Top] = cursor[Top] + 1 /\ cursor[Top] \in Nat \ {0}
                    BY <1>2, <1>4
                <4>3. QED
                    BY <1>2, <4>1, <4>2
            <3>2. CASE k \in 1..n - 1
                <4>1. k \in 1..Len(stack) - 1 /\ k + 1 \in 1..n
                    BY <1>2, <3>2 DEF n
                <4>2. /\ cursor[stack[k]] > 1
                      /\ Iterated(stack[k])[cursor[stack[k]] - 1] = stack[k + 1]
                    BY <4>1 DEF SearchInv, StackIsPath
                <4>3. stack'[k] = stack[k] /\ stack'[k + 1] = stack[k + 1]
                    BY <1>2, <1>3, <3>2, <4>1
                <4>4. cursor'[stack[k]] = cursor[stack[k]]
                    BY <1>6, <3>2
                <4>5. QED
                    BY <4>2, <4>3, <4>4
            <3>3. QED
                BY <1>2, <3>1, <3>2
        <2>6. DOMAIN stack' = 1..n + 1 /\ Len(stack') - 1 = n
            BY <1>2, <1>3
        <2>7. \A id : Iterated(id)' = Iterated(id)
            BY <1>1, InputUnchanged
        <2>8. QED
            BY <2>1, <2>2, <2>3, <2>4, <2>5, <2>6, <2>7 DEF StackIsPath
    <1>9. LookedAtIsDone'
        <2> SUFFICES ASSUME NEW k \in 1..n + 1, NEW m \in 1..cursor'[stack'[k]] - 1
                     PROVE  \/ Iterated(stack'[k])[m] \in visited
                            \/ k < n + 1 /\ m = cursor'[stack'[k]] - 1
            BY <1>1, <1>3, InputUnchanged DEF VisitDependency, LookedAtIsDone
        <2>1. CASE k = n + 1
            BY <1>3, <1>4, <2>1
        <2>2. CASE k = n
            <3>1. stack'[k] = Top /\ k \in DOMAIN stack /\ ~(k < Len(stack))
                BY <1>2, <1>3, <2>2 DEF n
            <3>2. CASE m = cursor[Top]
                BY <1>2, <1>4, <2>2, <3>1, <3>2
            <3>3. CASE m \in 1..cursor[Top] - 1
                BY <1>2, <2>2, <3>1, <3>3 DEF SearchInv, LookedAtIsDone
            <3>4. QED
                BY <1>2, <1>4, <3>1, <3>2, <3>3
        <2>3. CASE k \in 1..n - 1
            <3>0. k \in 1..n
                BY <1>2, <2>3
            <3>1. stack'[k] = stack[k] /\ k \in DOMAIN stack /\ cursor'[stack'[k]] = cursor[stack[k]]
                BY <1>2, <1>3, <1>6, <2>3, <3>0
            <3>2. QED
                BY <1>2, <2>3, <3>1 DEF SearchInv, LookedAtIsDone, n
        <2>4. QED
            BY <1>2, <2>1, <2>2, <2>3
    <1>10. VisitedIsClosed' /\ DependenciesFirst' /\ ResultIsJustified'
        BY <1>1, InputUnchanged
        DEF VisitDependency, Looking, SearchInv, VisitedIsClosed, DependenciesFirst, ResultIsJustified
    <1>11. LoopIsDone'
        <2>1. stack'[1] = stack[1] /\ stack' # <<>>
            BY <1>2, <1>3, EmptySeq
        <2>2. QED
            BY <1>1, <2>1 DEF VisitDependency, SearchInv, LoopIsDone, input
    <1>12. QED
        BY <1>1, <1>7, <1>8, <1>9, <1>10, <1>11, InputUnchanged DEF SearchInv

-----------------------------------------------------------------------------
\* A call of visit returns with all the dependencies of its identifier done.
LEMMA FinishVisitFacts ==
    ASSUME IInv, FinishVisit
    PROVE  /\ Len(stack) \in Nat \ {0} /\ DOMAIN stack = 1..Len(stack)
           /\ \A k \in 1..Len(stack) : stack[k] \in Id /\ stack[k] \in tempMark
           /\ Top \in Id /\ Top = stack[Len(stack)] /\ Top \notin visited
           /\ ToSet(Iterated(Top)) \subseteq visited
           /\ stack' \in Seq(Id) /\ Len(stack') = Len(stack) - 1
           /\ DOMAIN stack' = 1..Len(stack) - 1
           /\ \A k \in 1..Len(stack) - 1 : stack'[k] = stack[k]
           /\ IsInjective(stack') /\ ToSet(stack') = ToSet(stack) \ {Top}
    <1> USE DEF IInv
    <1>1. stack \in Seq(Id) /\ stack # <<>> /\ stack' = SubSeq(stack, 1, Len(stack) - 1)
        BY DEF FinishVisit, TypeOK
    <1>2. IsInjective(stack) /\ tempMark = ToSet(stack) /\ tempMark \cap visited = {}
        BY DEF SearchInv, StackIsPath
    <1>3. /\ Len(stack) \in Nat \ {0} /\ DOMAIN stack = 1..Len(stack)
          /\ stack' \in Seq(Id) /\ Len(stack') = Len(stack) - 1
          /\ DOMAIN stack' = 1..Len(stack) - 1
          /\ \A k \in 1..Len(stack) - 1 : stack'[k] = stack[k]
          /\ IsInjective(stack') /\ ToSet(stack') = ToSet(stack) \ {stack[Len(stack)]}
        <2>1. stack \in Seq(Id) /\ stack # <<>>
            BY <1>1
        <2> DEFINE t == SubSeq(stack, 1, Len(stack) - 1)
        <2>2. /\ Len(stack) \in Nat \ {0} /\ DOMAIN stack = 1..Len(stack)
              /\ t \in Seq(Id) /\ Len(t) = Len(stack) - 1
              /\ DOMAIN t = 1..Len(stack) - 1
              /\ \A k \in 1..Len(stack) - 1 : t[k] = stack[k]
              /\ IsInjective(stack) =>
                    IsInjective(t) /\ ToSet(t) = ToSet(stack) \ {stack[Len(stack)]}
            BY ONLY <2>1, PopFacts
        <2>3. stack' = t
            BY <1>1
        <2> HIDE DEF t
        <2>4. QED
            BY <1>2, <2>2, <2>3
    <1>4. \A k \in 1..Len(stack) : stack[k] \in Id /\ stack[k] \in tempMark
        BY <1>1, <1>2, ToSetFacts
    <1>5. Top \in Id /\ Top = stack[Len(stack)] /\ Top \notin visited
        BY <1>2, <1>3, <1>4 DEF Top
    <1>6. Iterated(Top) \in Seq(Id)
        BY IteratedType
    <1>7. \A m \in 1..Len(Iterated(Top)) : Iterated(Top)[m] \in visited
        <2>1. Len(Iterated(Top)) \in Nat /\ cursor[Top] \in Nat
            BY <1>5, <1>6, LenProperties DEF TypeOK
        <2>2. cursor[Top] > Len(Iterated(Top))
            BY DEF FinishVisit
        <2>3. \A m \in 1..cursor[Top] - 1 :
                Iterated(Top)[m] \in visited \/ Len(stack) < Len(stack)
            BY <1>3, <1>5 DEF SearchInv, LookedAtIsDone
        <2>4. QED
            BY <1>3, <2>1, <2>2, <2>3
    <1>8. ToSet(Iterated(Top)) \subseteq visited
        BY <1>6, <1>7, ToSetFacts
    <1>9. QED
        BY <1>3, <1>4, <1>5, <1>8

\* The finished identifier leaves the stack and its operation is emitted.
LEMMA FinishVisitIInv == IInv /\ FinishVisit => IInv'
    <1> SUFFICES ASSUME IInv, FinishVisit PROVE IInv'
        OBVIOUS
    <1> USE DEF IInv
    <1>1. /\ UNCHANGED <<input, pos, cursor, result>> /\ UNCHANGED input
          /\ result = "running" /\ stack # <<>>
          /\ tempMark' = tempMark \ {Top}
          /\ visited' = visited \cup {Top}
        BY DEF FinishVisit, input
    <1>2. /\ Len(stack) \in Nat \ {0} /\ DOMAIN stack = 1..Len(stack)
          /\ \A k \in 1..Len(stack) : stack[k] \in Id /\ stack[k] \in tempMark
          /\ Top \in Id /\ Top = stack[Len(stack)] /\ Top \notin visited
          /\ ToSet(Iterated(Top)) \subseteq visited
          /\ stack' \in Seq(Id) /\ Len(stack') = Len(stack) - 1
          /\ DOMAIN stack' = 1..Len(stack) - 1
          /\ \A k \in 1..Len(stack) - 1 : stack'[k] = stack[k]
          /\ IsInjective(stack') /\ ToSet(stack') = ToSet(stack) \ {Top}
        BY FinishVisitFacts
    <1>3. ordered \in Seq(Id) /\ IsInjective(ordered) /\ ToSet(ordered) = visited \cap Ops
        BY DEF TypeOK, SearchInv, VisitedIsClosed
    <1>4. /\ ordered' \in Seq(Id) /\ IsInjective(ordered')
          /\ ToSet(ordered') = visited' \cap Ops
        <2>1. CASE Top \in Ops
            BY <1>1, <1>2, <1>3, <2>1, AppendFacts, AppendInjectiveFact DEF FinishVisit
        <2>2. CASE Top \notin Ops
            BY <1>1, <1>3, <2>2 DEF FinishVisit
        <2>3. QED
            BY <2>1, <2>2
    <1>5. TypeOK'
        BY <1>1, <1>2, <1>4, InputUnchanged DEF TypeOK, input
    <1>6. StackIsPath'
        <2>1. \A k \in 1..Len(stack) - 2 :
                /\ cursor[stack'[k]] > 1
                /\ Iterated(stack'[k])[cursor[stack'[k]] - 1] = stack'[k + 1]
            <3> SUFFICES ASSUME NEW k \in 1..Len(stack) - 2
                         PROVE  /\ cursor[stack'[k]] > 1
                                /\ Iterated(stack'[k])[cursor[stack'[k]] - 1] = stack'[k + 1]
                OBVIOUS
            <3>1. k \in 1..Len(stack) - 1 /\ k + 1 \in 1..Len(stack) - 1
                BY <1>2
            <3>2. QED
                BY <1>2, <3>1 DEF SearchInv, StackIsPath
        <2>2. \A k \in 1..Len(stack) - 1 : cursor[stack'[k]] <= Len(Iterated(stack'[k])) + 1
            <3>1. \A k \in 1..Len(stack) - 1 : k \in DOMAIN stack /\ stack'[k] = stack[k]
                BY <1>2
            <3>2. \A k \in DOMAIN stack : cursor[stack[k]] <= Len(Iterated(stack[k])) + 1
                BY DEF SearchInv, StackIsPath
            <3>3. QED
                BY <3>1, <3>2
        <2>3. tempMark' = ToSet(stack') /\ tempMark' \cap visited' = {}
            BY <1>1, <1>2 DEF SearchInv, StackIsPath
        <2>4. Len(stack') - 1 = Len(stack) - 2
            BY <1>2
        <2>5. QED
            <3>1. \A id : Iterated(id)' = Iterated(id)
                BY <1>1, InputUnchanged
            <3>2. UNCHANGED cursor
                BY <1>1
            <3>3. (\A k \in DOMAIN stack : cursor[stack[k]] <= Len(Iterated(stack[k])) + 1)'
                BY <1>2, <2>2, <3>1, <3>2
            <3>4. (\A k \in 1..Len(stack) - 1 :
                    /\ cursor[stack[k]] > 1
                    /\ Iterated(stack[k])[cursor[stack[k]] - 1] = stack[k + 1])'
                BY <2>1, <2>4, <3>1, <3>2
            <3>5. IsInjective(stack')
                BY <1>2
            <3>6. QED
                BY <2>3, <3>3, <3>4, <3>5 DEF StackIsPath
    <1>7. LookedAtIsDone'
        <2> SUFFICES ASSUME NEW k \in 1..Len(stack) - 1, NEW m \in 1..cursor[stack[k]] - 1
                     PROVE  \/ Iterated(stack[k])[m] \in visited \cup {Top}
                            \/ k < Len(stack) - 1 /\ m = cursor[stack[k]] - 1
            BY <1>1, <1>2, InputUnchanged DEF LookedAtIsDone
        <2>1. CASE Iterated(stack[k])[m] \in visited
            BY <2>1
        <2>2. CASE m = cursor[stack[k]] - 1 /\ k = Len(stack) - 1
            <3>1. Iterated(stack[k])[m] = stack[k + 1]
                BY <1>2, <2>2 DEF SearchInv, StackIsPath
            <3>2. QED
                BY <1>2, <2>2, <3>1
        <2>3. CASE m = cursor[stack[k]] - 1 /\ k < Len(stack) - 1
            BY <2>3
        <2>4. QED
            <3>1. k \in DOMAIN stack
                BY <1>2
            <3>2. Iterated(stack[k])[m] \in visited \/ m = cursor[stack[k]] - 1
                BY <3>1 DEF SearchInv, LookedAtIsDone
            <3>3. k = Len(stack) - 1 \/ k < Len(stack) - 1
                <4>1. Len(stack) \in Int
                    BY <1>2
                <4>2. QED
                    BY <4>1
            <3>4. QED
                BY <2>1, <2>2, <2>3, <3>2, <3>3
    <1>8. VisitedIsClosed'
        <2>1. \A v \in visited' : ToSet(Iterated(v)) \subseteq visited'
            BY <1>1, <1>2 DEF SearchInv, VisitedIsClosed
        <2>2. QED
            BY <1>1, <1>4, <2>1, InputUnchanged DEF VisitedIsClosed
    <1>9. LoopIsDone'
        <2>1. stack[1] = Top \/ (stack' # <<>> /\ stack'[1] = stack[1])
            <3>1. CASE Len(stack) = 1
                BY <1>2, <3>1
            <3>2. CASE Len(stack) > 1
                <4>1. 1 \in 1..Len(stack) - 1 /\ Len(stack') # 0
                    BY <1>2, <3>2
                <4>2. QED
                    BY <1>2, <4>1, EmptySeq
            <3>3. QED
                BY <1>2, <3>1, <3>2
        <2>2. QED
            BY <1>1, <2>1 DEF SearchInv, LoopIsDone, input
    <1>10. DependenciesFirst'
        <2>1. CASE Top \notin Ops
            BY <1>1, <2>1, InputUnchanged DEF FinishVisit, SearchInv, DependenciesFirst
        <2>2. CASE Top \in Ops
            <3>1. ordered' = Append(ordered, Top)
                BY <2>2 DEF FinishVisit
            <3>2. /\ Len(ordered) \in Nat
                  /\ DOMAIN ordered' = 1..Len(ordered) + 1 /\ DOMAIN ordered = 1..Len(ordered)
                  /\ \A i \in 1..Len(ordered) : ordered'[i] = ordered[i]
                  /\ ordered'[Len(ordered) + 1] = Top
                BY <1>2, <1>3, <3>1, AppendFacts
            <3>3. \A x \in OpDeps(Top) : \E j \in 1..Len(ordered) : ordered[j] = x
                <4>1. OpDeps(Top) \subseteq ToSet(ordered)
                    BY <1>2, <1>3, <2>2 DEF OpDeps, Iterated
                <4>2. QED
                    BY <1>3, <4>1, ToSetFacts
            <3> SUFFICES ASSUME NEW i \in 1..Len(ordered) + 1, NEW x \in OpDeps(ordered'[i])
                         PROVE  \E j \in 1..i - 1 : ordered'[j] = x
                BY <1>1, <3>2, InputUnchanged DEF DependenciesFirst
            <3>4. CASE i = Len(ordered) + 1
                <4>1. PICK j \in 1..Len(ordered) : ordered[j] = x
                    BY <3>2, <3>3, <3>4
                <4>2. j \in 1..i - 1 /\ ordered'[j] = x
                    BY <3>2, <3>4, <4>1
                <4>3. QED
                    BY <4>2
            <3>5. CASE i \in 1..Len(ordered)
                <4>1. PICK j \in 1..i - 1 : ordered[j] = x
                    BY <3>2, <3>5 DEF SearchInv, DependenciesFirst
                <4>2. j \in 1..Len(ordered)
                    BY <3>2, <3>5, <4>1
                <4>3. QED
                    BY <3>2, <4>1, <4>2
            <3>6. QED
                BY <3>2, <3>4, <3>5
        <2>3. QED
            BY <2>1, <2>2
    <1>11. ResultIsJustified'
        BY <1>1, InputUnchanged DEF ResultIsJustified
    <1>12. QED
        BY <1>1, <1>5, <1>6, <1>7, <1>8, <1>9, <1>10, <1>11, InputUnchanged DEF SearchInv

\* The outer loop ends with an empty stack.
LEMMA ReturnIInv == IInv /\ Return => IInv'
    <1> SUFFICES ASSUME IInv, Return PROVE IInv'
        OBVIOUS
    <1> USE DEF IInv
    <1>1. UNCHANGED <<input, search, ordered>> /\ result' = "ordered" /\ stack = <<>> /\ pos > Len(operations)
        BY DEF Return
    <1>2. TypeOK'
        BY <1>1, InputUnchanged DEF TypeOK, input, search
    <1>3. StackIsPath' /\ LookedAtIsDone' /\ VisitedIsClosed' /\ DependenciesFirst'
        BY <1>1, InputUnchanged
        DEF SearchInv, StackIsPath, LookedAtIsDone, VisitedIsClosed, DependenciesFirst, search
    <1>4. LoopIsDone' /\ ResultIsJustified'
        BY <1>1 DEF SearchInv, LoopIsDone, ResultIsJustified, search, input
    <1>5. QED
        BY <1>1, <1>2, <1>3, <1>4, InputUnchanged DEF SearchInv

\* Steps that change nothing.
LEMMA StutterIInv == IInv /\ UNCHANGED vars => IInv'
    <1> SUFFICES ASSUME IInv, UNCHANGED vars PROVE IInv'
        OBVIOUS
    <1> USE DEF IInv
    <1>1. UNCHANGED input
        BY DEF vars, input
    <1>2. TypeOK'
        BY <1>1, InputUnchanged DEF TypeOK, vars
    <1>3. StackIsPath' /\ LookedAtIsDone' /\ VisitedIsClosed' /\ DependenciesFirst'
        BY <1>1, InputUnchanged
        DEF SearchInv, StackIsPath, LookedAtIsDone, VisitedIsClosed, DependenciesFirst, vars
    <1>4. LoopIsDone' /\ ResultIsJustified'
        BY <1>1, InputUnchanged DEF SearchInv, LoopIsDone, ResultIsJustified, vars
    <1>5. QED
        BY <1>1, <1>2, <1>3, <1>4, InputUnchanged DEF SearchInv

\* Every state of the search satisfies the inductive invariant, whatever the
\* operations and their dependencies (strategy.go 633-669).
THEOREM SearchIsSound == Spec => [](TypeOK /\ SearchInv)
    <1>1. IInv /\ [Next]_vars => IInv'
        BY SkipOperationIInv, VisitOperationIInv, CircularIInv, SkipDependencyIInv,
           VisitDependencyIInv, FinishVisitIInv, ReturnIInv, StutterIInv DEF Next
    <1>2. QED
        BY <1>1, InitIInv, PTL DEF Spec, IInv

-----------------------------------------------------------------------------
\* The length of a list without repetitions is the number of its elements.
LEMMA DistinctLength ==
    ASSUME NEW S, NEW s \in Seq(S), IsInjective(s)
    PROVE  Cardinality(ToSet(s)) = Len(s)
    <1>1. Len(s) \in Nat /\ DOMAIN s = 1..Len(s) /\ s \in [1..Len(s) -> S]
        BY LenProperties
    <1>2. s \in [1..Len(s) -> ToSet(s)] /\ \A x \in ToSet(s) : \E i \in 1..Len(s) : s[i] = x
        BY <1>1 DEF ToSet
    <1>3. \A i, j \in 1..Len(s) : s[i] = s[j] => i = j
        BY <1>1 DEF IsInjective
    <1>4. s \in Bijection(1..Len(s), ToSet(s))
        BY <1>2, <1>3 DEF Bijection, Injection, Surjection, IsInjective
    <1>5. ExistsBijection(1..Len(s), ToSet(s))
        BY <1>4 DEF ExistsBijection
    <1>6. QED
        BY <1>1, <1>5, FS_CountingElements

\* A finished search has emitted every operation.
LEMMA AllEmitted == IInv /\ result = "ordered" => ToSet(ordered) = Ops
    <1> SUFFICES ASSUME IInv, result = "ordered" PROVE ToSet(ordered) = Ops
        OBVIOUS
    <1>1. stack = <<>> /\ pos > Len(operations)
        BY DEF IInv, SearchInv, ResultIsJustified
    <1>2. operations \in Seq(Id) /\ pos \in 1..Len(operations) + 1 /\ Len(operations) \in Nat
        BY LenProperties DEF IInv, TypeOK
    <1>3. \A p \in 1..Len(operations) : operations[p] \in visited
        BY <1>1, <1>2 DEF IInv, SearchInv, LoopIsDone
    <1>4. Ops \subseteq visited
        BY <1>2, <1>3, ToSetFacts DEF Ops
    <1>5. QED
        BY <1>4 DEF IInv, SearchInv, VisitedIsClosed

\* A finished search leaves no room for a circle: the operation of the circle
\* that was emitted first would need one emitted before it.
LEMMA OrderedHasNoCycle == IInv /\ result = "ordered" => ~Promise!HasCycle
    <1> SUFFICES ASSUME IInv, result = "ordered", Promise!HasCycle PROVE FALSE
        OBVIOUS
    <1>1. PICK S \in SUBSET Ops : S # {} /\ \A o \in S : OpDeps(o) \cap S # {}
        BY DEF Promise!HasCycle, Promise!Ops, Promise!OpDeps, Promise!ToSet, Ops, OpDeps, ToSet
    <1>2. ordered \in Seq(Id) /\ DOMAIN ordered = 1..Len(ordered) /\ Len(ordered) \in Nat
        BY LenProperties DEF IInv, TypeOK
    <1> DEFINE T == {i \in 1..Len(ordered) : ordered[i] \in S}
    <1>3. T # {} /\ T \subseteq Nat
        BY <1>1, <1>2, AllEmitted, ToSetFacts
    <1>4. PICK i \in T : \A j \in T : <<j, i>> \notin OpToRel(<, Nat)
        BY <1>3, NatLessThanWellFounded, WFMin
    <1>5. \A j \in T : ~(j < i)
        BY <1>3, <1>4 DEF OpToRel
    <1>6. PICK d \in OpDeps(ordered[i]) : d \in S
        BY <1>1
    <1>7. PICK j \in 1..i - 1 : ordered[j] = d
        BY <1>2, <1>6 DEF IInv, SearchInv, DependenciesFirst
    <1>8. j \in T /\ j < i
        BY <1>2, <1>6, <1>7
    <1>9. QED
        BY <1>5, <1>8

\* No operation of the emitted order comes before one it depends on, for every
\* dependency graph, dangling dependencies and shared ones included
\* (strategy.go 646-661).
THEOREM DependenciesComeFirst == Spec => []DependenciesFirst
    BY SearchIsSound, PTL DEF SearchInv

\* A successful call returns every operation exactly once (strategy.go 642-669).
THEOREM NoOperationLost == Spec => []EachOperationOnce
    <1>1. IInv => EachOperationOnce
        <2> SUFFICES ASSUME IInv, result = "ordered"
                     PROVE  Len(ordered) = Len(operations) /\ ToSet(ordered) = Ops
            BY DEF EachOperationOnce
        <2>1. ToSet(ordered) = Ops
            BY AllEmitted
        <2>2. Cardinality(ToSet(ordered)) = Len(ordered)
            BY DistinctLength DEF IInv, TypeOK, SearchInv, VisitedIsClosed
        <2>3. Cardinality(Ops) = Len(operations)
            BY DistinctLength DEF IInv, TypeOK, SearchInv, Ops
        <2>4. QED
            BY <2>1, <2>2, <2>3
    <1>2. QED
        BY <1>1, SearchIsSound, PTL DEF IInv

\* The call fails exactly on a circular dependency (strategy.go 639-641).
THEOREM FailsExactlyOnCycles == Spec => []CircularIffCycle
    <1>1. IInv => CircularIffCycle
        <2> SUFFICES ASSUME IInv, result # "running"
                     PROVE  result = "circular" <=> Promise!HasCycle
            BY DEF CircularIffCycle
        <2>1. result = "circular" => Promise!HasCycle
            BY DEF IInv, SearchInv, ResultIsJustified
        <2>2. result = "ordered" => ~Promise!HasCycle
            BY OrderedHasNoCycle
        <2>3. QED
            BY <2>1, <2>2 DEF IInv, TypeOK
    <1>2. QED
        BY <1>1, SearchIsSound, PTL DEF IInv

-----------------------------------------------------------------------------
\* The depth-first search takes only steps the abstract ordering allows: the
\* return of visit emits an operation whose dependencies are out, every other
\* step of the search is invisible (strategy.go 626-673).
THEOREM SearchImplementsOrder ==
    Spec => Promise!Start /\ [][Promise!Step]_(Promise!specVars)
    <1>1. Init => Promise!Start
        BY DEF Init, Promise!Start, Promise!Ops, Promise!ToSet, Ops, ToSet
    <1>2. IInv /\ [Next]_vars => [Promise!Step]_(Promise!specVars)
        <2> SUFFICES ASSUME IInv, [Next]_vars
                     PROVE  Promise!Step \/ UNCHANGED Promise!specVars
            BY Zenon
        <2>1. CASE SkipOperation \/ VisitOperation \/ SkipDependency \/ VisitDependency
            BY <2>1 DEF SkipOperation, VisitOperation, SkipDependency, VisitDependency,
                        Promise!specVars, input
        <2>2. CASE Circular
            BY <2>2, CircularHasCycle
            DEF Circular, Looking, Promise!Step, Promise!Fail, Promise!input, input
        <2>3. CASE FinishVisit
            <3>1. CASE Top \notin Ops
                BY <2>3, <3>1 DEF FinishVisit, Promise!specVars, input
            <3>2. CASE Top \in Ops
                <4>1. Top \notin ToSet(ordered) /\ OpDeps(Top) \subseteq ToSet(ordered)
                    BY <2>3, <3>2, FinishVisitFacts
                    DEF IInv, SearchInv, VisitedIsClosed, OpDeps, Iterated
                <4>2. Promise!Emit(Top)
                    BY <2>3, <3>2, <4>1
                    DEF FinishVisit, Promise!Emit, Promise!OpDeps, Promise!Ops, Promise!ToSet,
                        Promise!input, OpDeps, Ops, ToSet, input
                <4>3. QED
                    BY <3>2, <4>2 DEF Promise!Step, Promise!Ops, Promise!ToSet, Ops, ToSet
            <3>3. QED
                BY <3>1, <3>2
        <2>4. CASE Return
            <3>1. Ops \subseteq visited /\ ToSet(ordered) = visited \cap Ops
                <4>1. stack = <<>> /\ pos > Len(operations)
                    BY <2>4 DEF Return
                <4>2. /\ operations \in Seq(Id) /\ Len(operations) \in Nat
                      /\ pos \in 1..Len(operations) + 1
                    BY LenProperties DEF IInv, TypeOK
                <4>3. \A p \in 1..Len(operations) : operations[p] \in visited
                    BY <4>1, <4>2 DEF IInv, SearchInv, LoopIsDone
                <4>4. QED
                    BY <4>2, <4>3, ToSetFacts DEF Ops, IInv, SearchInv, VisitedIsClosed
            <3>2. Promise!Succeed
                BY <2>4, <3>1
                DEF Return, Promise!Succeed, Promise!Ops, Promise!ToSet, Promise!input,
                    Ops, ToSet, input
            <3>3. QED
                BY <3>2 DEF Promise!Step
        <2>5. CASE UNCHANGED vars
            BY <2>5 DEF vars, Promise!specVars
        <2>6. QED
            BY <2>1, <2>2, <2>3, <2>4, <2>5 DEF Next
    <1>3. QED
        BY <1>1, <1>2, SearchIsSound, PTL DEF Spec, IInv
=============================================================================

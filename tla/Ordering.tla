------------------------------ MODULE Ordering ------------------------------
(***************************************************************************)
(* planner.orderOperations: the depth-first topological sort that turns    *)
(* strategy.Operations into strategy.OrderedOperations.  One action per    *)
(* branch of the recursive closure visit; its call stack is `stack', and   *)
(* cursor[id] is the range position of the frame that visits id (an        *)
(* identifier has at most one frame, because visit marks it temporarily).  *)
(***************************************************************************)
EXTENDS Naturals, Sequences, SequencesExt

CONSTANTS
    Id,        \* operation identifiers, those of missing operations included
    Lists,     \* the operation lists the call may be given
    DepLists   \* the Dependencies slices an operation may have

(***************************************************************************)
(* An operation list names each operation once: the planner numbers them.  *)
(***************************************************************************)
ASSUME InputsAssumption ==
    /\ \A s \in Lists : /\ s \in Seq(Id)
                        /\ \A i, j \in DOMAIN s : s[i] = s[j] => i = j
    /\ DepLists \subseteq Seq(Id)

VARIABLES
    operations,   \* strategy.Operations, by identifier
    deps,         \* op.Dependencies
    pos,          \* next position of the loop over strategy.Operations
    visited,      \* visited[id]
    tempMark,     \* tempMark[id]
    stack,        \* the identifiers of the active calls of visit
    cursor,       \* next dependency each active call looks at
    ordered,      \* the local variable `ordered'
    result        \* "running", "ordered" (nil returned) or "circular" (error)

input == <<operations, deps>>
search == <<pos, visited, tempMark, stack, cursor>>
vars == <<operations, deps, pos, visited, tempMark, stack, cursor, ordered, result>>

Promise == INSTANCE DependencyOrder

Ops == ToSet(operations)
OpDeps(o) == ToSet(deps[o]) \cap Ops

TypeOK ==
    /\ operations \in Seq(Id)
    /\ deps \in [Ops -> Seq(Id)]
    /\ pos \in 1..Len(operations) + 1
    /\ visited \subseteq Id
    /\ tempMark \subseteq Id
    /\ stack \in Seq(Id)
    /\ cursor \in [Id -> Nat \ {0}]
    /\ ordered \in Seq(Id)
    /\ result \in {"running", "ordered", "circular"}

Init ==
    /\ operations \in Lists
    /\ deps \in [Ops -> DepLists]
    /\ pos = 1
    /\ visited = {}
    /\ tempMark = {}
    /\ stack = <<>>
    /\ cursor = [id \in Id |-> 1]
    /\ ordered = <<>>
    /\ result = "running"

-----------------------------------------------------------------------------
\* Faulty variant: the range over the dependencies stops one short.
IteratedShort(id) ==
    IF id \in Ops /\ deps[id] # <<>> THEN SubSeq(deps[id], 1, Len(deps[id]) - 1) ELSE <<>>

\* The dependencies a frame iterates over: none when opMap has no operation.
Iterated(id) == IF id \in Ops THEN deps[id] ELSE <<>>

Top == stack[Len(stack)]

\* The dependency the innermost active call looks at next, if there is one.
Looking == result = "running" /\ stack # <<>> /\ cursor[Top] <= Len(Iterated(Top))
NextDep == Iterated(Top)[cursor[Top]]

\* Faulty variants of the steps below, one bug each.
SkipOperationTwice ==   \* the loop variable advances twice
    /\ result = "running" /\ stack = <<>> /\ pos <= Len(operations)
    /\ operations[pos] \in visited
    /\ pos' = pos + 2
    /\ UNCHANGED <<input, visited, tempMark, stack, cursor, ordered, result>>

SkipDependencyForever ==   \* the range never advances past a visited dependency
    /\ Looking
    /\ NextDep \notin tempMark
    /\ NextDep \in visited
    /\ UNCHANGED vars

FinishVisitAs(marked, done, emitted) ==
    /\ result = "running" /\ stack # <<>>
    /\ cursor[Top] > Len(Iterated(Top))
    /\ tempMark' = marked
    /\ visited' = done
    /\ ordered' = emitted
    /\ stack' = SubSeq(stack, 1, Len(stack) - 1)
    /\ UNCHANGED <<input, pos, cursor, result>>

FinishVisitMarked ==   \* tempMark[id] is not reset
    FinishVisitAs(tempMark, visited \cup {Top},
                  IF Top \in Ops THEN Append(ordered, Top) ELSE ordered)
FinishVisitForgotten ==   \* visited[id] is not set
    FinishVisitAs(tempMark \ {Top}, visited,
                  IF Top \in Ops THEN Append(ordered, Top) ELSE ordered)
FinishVisitUnchecked ==   \* op is appended without the test for nil
    FinishVisitAs(tempMark \ {Top}, visited \cup {Top}, Append(ordered, Top))

\* The outer loop skips an operation a previous call already visited.
SkipOperation ==
    /\ result = "running" /\ stack = <<>> /\ pos <= Len(operations)
    /\ operations[pos] \in visited
    /\ pos' = pos + 1
    /\ UNCHANGED <<input, visited, tempMark, stack, cursor, ordered, result>>

\* The outer loop calls visit on the next operation.
VisitOperation ==
    /\ result = "running" /\ stack = <<>> /\ pos <= Len(operations)
    /\ operations[pos] \notin visited
    /\ pos' = pos + 1
    /\ tempMark' = tempMark \cup {operations[pos]}
    /\ stack' = <<operations[pos]>>
    /\ cursor' = [cursor EXCEPT ![operations[pos]] = 1]
    /\ UNCHANGED <<input, visited, ordered, result>>

\* visit of a dependency still on the stack: every active call returns the error.
Circular ==
    /\ Looking
    /\ NextDep \in tempMark
    /\ result' = "circular"
    /\ UNCHANGED <<input, search, ordered>>

\* visit of a dependency already done returns nil at once.
SkipDependency ==
    /\ Looking
    /\ NextDep \notin tempMark
    /\ NextDep \in visited
    /\ cursor' = [cursor EXCEPT ![Top] = @ + 1]
    /\ UNCHANGED <<input, pos, visited, tempMark, stack, ordered, result>>

\* visit of a new dependency.
VisitDependency ==
    /\ Looking
    /\ NextDep \notin tempMark
    /\ NextDep \notin visited
    /\ tempMark' = tempMark \cup {NextDep}
    /\ stack' = Append(stack, NextDep)
    /\ cursor' = [cursor EXCEPT ![Top] = @ + 1, ![NextDep] = 1]
    /\ UNCHANGED <<input, pos, visited, ordered, result>>

\* The innermost call has seen all its dependencies: it unmarks its identifier,
\* records it and appends its operation, if it has one.
FinishVisit ==
    /\ result = "running" /\ stack # <<>>
    /\ cursor[Top] > Len(Iterated(Top))
    /\ tempMark' = tempMark \ {Top}
    /\ visited' = visited \cup {Top}
    /\ ordered' = IF Top \in Ops THEN Append(ordered, Top) ELSE ordered
    /\ stack' = SubSeq(stack, 1, Len(stack) - 1)
    /\ UNCHANGED <<input, pos, cursor, result>>

\* The outer loop is over: OrderedOperations is assigned.
Return ==
    /\ result = "running" /\ stack = <<>> /\ pos > Len(operations)
    /\ result' = "ordered"
    /\ UNCHANGED <<input, search, ordered>>

Next ==
    \/ SkipOperation \/ VisitOperation
    \/ Circular \/ SkipDependency \/ VisitDependency
    \/ FinishVisit \/ Return

\* The call runs on one goroutine and never blocks, so it keeps stepping.
Spec == Init /\ [][Next]_vars /\ WF_vars(Next)

-----------------------------------------------------------------------------
\* No operation is emitted before an operation it depends on (strategy.go 646-661).
DependenciesFirst ==
    \A i \in DOMAIN ordered : \A d \in OpDeps(ordered[i]) :
        \E j \in 1..i - 1 : ordered[j] = d

\* A successful call returns every operation exactly once: none is lost with a
\* dangling or shared dependency and none is emitted twice (strategy.go 642-669).
EachOperationOnce ==
    result = "ordered" =>
        /\ Len(ordered) = Len(operations)
        /\ ToSet(ordered) = Ops

\* The call fails exactly when some operations depend on each other in a circle,
\* whatever operation the search enters the circle from (strategy.go 639-641).
CircularIffCycle ==
    result # "running" => (result = "circular" <=> Promise!HasCycle)

\* The recursion ends on every dependency graph, cyclic ones included.
Terminates == <>(result # "running")

-----------------------------------------------------------------------------
(***************************************************************************)
(* The state of the search between two steps, inductive with TypeOK:       *)
(* the stack is a dependency path of the marked identifiers, what a frame  *)
(* has already looked at is done, and what is done is closed under         *)
(* dependencies and, operations only, is what `ordered' holds.             *)
(***************************************************************************)
StackIsPath ==
    /\ tempMark = ToSet(stack)
    /\ IsInjective(stack)
    /\ tempMark \cap visited = {}
    /\ \A k \in DOMAIN stack : cursor[stack[k]] <= Len(Iterated(stack[k])) + 1
    /\ \A k \in 1..Len(stack) - 1 :
        /\ cursor[stack[k]] > 1
        /\ Iterated(stack[k])[cursor[stack[k]] - 1] = stack[k + 1]

LookedAtIsDone ==
    \A k \in DOMAIN stack : \A m \in 1..cursor[stack[k]] - 1 :
        \/ Iterated(stack[k])[m] \in visited
        \/ k < Len(stack) /\ m = cursor[stack[k]] - 1

VisitedIsClosed ==
    /\ \A v \in visited : ToSet(Iterated(v)) \subseteq visited
    /\ ToSet(ordered) = visited \cap Ops
    /\ IsInjective(ordered)

LoopIsDone ==
    \A p \in 1..pos - 1 :
        operations[p] \in visited \/ (p = pos - 1 /\ stack # <<>> /\ operations[p] = stack[1])

ResultIsJustified ==
    /\ result = "ordered" => stack = <<>> /\ pos > Len(operations)
    /\ result = "circular" => Promise!HasCycle

\* What the search relies on while it runs (strategy.go 633-669): the marks are
\* the active calls, and a finished call leaves no dependency behind.
SearchInv ==
    /\ IsInjective(operations)
    /\ StackIsPath /\ LookedAtIsDone /\ VisitedIsClosed
    /\ LoopIsDone /\ ResultIsJustified
    /\ DependenciesFirst

-----------------------------------------------------------------------------
\* The search implements the abstract ordering.
ImplementsPromise == Promise!OrderSpec
=============================================================================

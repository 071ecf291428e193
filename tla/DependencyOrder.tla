-------------------------- MODULE DependencyOrder --------------------------
(***************************************************************************)
(* What planner.orderOperations promises, without the depth-first search:  *)
(* the operations come out one at a time, none before the operations it    *)
(* depends on, and the call fails only when some operations depend on each *)
(* other in a circle.  A dependency naming no operation is ignored.        *)
(***************************************************************************)
EXTENDS Naturals, Sequences, SequencesExt

CONSTANTS
    Id,        \* operation identifiers, those of missing operations included
    Lists,     \* the operation lists the call may be given
    DepLists   \* the Dependencies slices an operation may have

VARIABLES
    operations,   \* strategy.Operations, by identifier
    deps,         \* op.Dependencies
    ordered,      \* the operations emitted so far
    result        \* "running", "ordered" or "circular"

input == <<operations, deps>>
specVars == <<operations, deps, ordered, result>>

\* opMap: the identifiers that name an operation.
Ops == ToSet(operations)

\* The dependencies of o that name an operation.
OpDeps(o) == ToSet(deps[o]) \cap Ops

\* Some operations S all wait for an operation of S.
HasCycle ==
    \E S \in SUBSET Ops : S # {} /\ \A o \in S : OpDeps(o) \cap S # {}

-----------------------------------------------------------------------------
Start ==
    /\ operations \in Lists
    /\ deps \in [Ops -> DepLists]
    /\ ordered = <<>>
    /\ result = "running"

Emit(o) ==
    /\ result = "running"
    /\ o \notin ToSet(ordered)
    /\ OpDeps(o) \subseteq ToSet(ordered)
    /\ ordered' = Append(ordered, o)
    /\ UNCHANGED <<input, result>>

Succeed ==
    /\ result = "running"
    /\ Ops \subseteq ToSet(ordered)
    /\ result' = "ordered"
    /\ UNCHANGED <<input, ordered>>

Fail ==
    /\ result = "running"
    /\ HasCycle
    /\ result' = "circular"
    /\ UNCHANGED <<input, ordered>>

Step == (\E o \in Ops : Emit(o)) \/ Succeed \/ Fail

OrderSpec == Start /\ [][Step]_specVars /\ WF_specVars(Step)
=============================================================================

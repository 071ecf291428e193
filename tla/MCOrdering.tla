----------------------------- MODULE MCOrdering -----------------------------
(***************************************************************************)
(* Every dependency graph over three operations and one missing one, two   *)
(* dependencies each, and every list of up to three operations.            *)
(***************************************************************************)
EXTENDS Ordering

CONSTANTS a, b, c, missing

MCId == {a, b, c, missing}
MaxDeps == 2
MCLists == {<<>>, <<b>>, <<c, a>>, <<a, b, c>>}
MCDepLists == UNION {[1..n -> MCId] : n \in 0..MaxDeps}
=============================================================================

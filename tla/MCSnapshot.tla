----------------------------- MODULE MCSnapshot -----------------------------
(***************************************************************************)
(* Files under three extensions, two processes, databases with two tables, *)
(* one of which may have no columns.                                       *)
(***************************************************************************)
EXTENDS Snapshot

CONSTANTS p1, p2, json, yaml, plain, t1, t2

MCTables == {t1, t2}
MCExtOf == [f \in {json, yaml, plain} |->
    CASE f = json -> "json" [] f = yaml -> "yaml" [] OTHER -> "other"]
Database(a, b) == [t \in MCTables |-> IF t = t1 THEN a ELSE b]
MCDatabases == {Database("one", "two"), Database("two", "nil"), Database("one", "absent")}
=============================================================================

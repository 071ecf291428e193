--------------------------- MODULE MCMySqlExtract ---------------------------
(***************************************************************************)
(* A database with a partitioned table, a check of which has a namesake in *)
(* another database, a view, an event and a procedure, the event created   *)
(* during the extraction if at all.                                        *)
(***************************************************************************)
EXTENDS MySqlExtract, TLC

CONSTANTS p1, p2, c1, c2, c3, t, v, e, r

MCObjects == {t, v, e, r}
MCKindOf == [o \in MCObjects |->
    CASE o = t -> "table" [] o = v -> "view" [] o = e -> "event" [] OTHER -> "procedure"]
MCPartitioned == {t}
MCHomonyms == {t}
MCCatalogs == {[o \in MCObjects |-> IF o = e THEN 0 ELSE 1]}
=============================================================================

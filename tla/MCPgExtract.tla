---------------------------- MODULE MCPgExtract ----------------------------
(***************************************************************************)
(* A database with one schema, a table, a table with a foreign key that    *)
(* cannot be parsed, a view, an extension's function, a user function that *)
(* overloads it and one that does not.                                     *)
(***************************************************************************)
EXTENDS PgExtract

CONSTANTS p1, p2, c1, s, t, q, v, extf, userf, otherf

MCObjects == {s, t, q, v, extf, userf, otherf}
MCKindOf == [o \in MCObjects |->
    CASE o = s -> "schema" [] o \in {t, q} -> "table" [] o = v -> "view" [] OTHER -> "function"]
MCSchemaOf == [o \in MCObjects |-> s]
MCNameOf == [o \in MCObjects |-> IF o = userf THEN extf ELSE o]
MCOwned == {extf}
MCUnparsed == {q}

FullCatalog == [o \in MCObjects |-> 1]
Empty == [o \in MCObjects |-> 0]

AnyCatalog == {FullCatalog, Empty}
=============================================================================

---------------------------- MODULE MCMigration ----------------------------
(***************************************************************************)
(* Pairs of databases: one schema whose list of one kind takes every two   *)
(* values, of up to two objects with two definitions (enums: up to two     *)
(* values in any order); one table whose lists and properties take every   *)
(* two values; two tables that come, go or change; one table that changes in   *)
(* every list at once while objects of other kinds come and go; and up to  *)
(* three schemas that come, go or stay, each with a table and a view.      *)
(***************************************************************************)
EXTENDS Migration

NoLists == [table |-> <<>>, view |-> <<>>, mview |-> <<>>, function |-> <<>>,
            procedure |-> <<>>, sequence |-> <<>>, enum |-> <<>>, event |-> <<>>,
            extension |-> <<>>]
NoParts == [columns |-> <<>>, indexes |-> <<>>, fks |-> <<>>, checks |-> <<>>,
            triggers |-> <<>>, partitions |-> <<>>, rules |-> <<>>]
NoProps == [Comment |-> 1, Collation |-> 1, Charset |-> 1, Engine |-> 1]

Schema(name, lists) == [name |-> name, lists |-> lists]
Object(name, arg, def) == [name |-> name, arg |-> arg, def |-> def]
Table(name, parts, props) == [name |-> name, parts |-> parts, props |-> props]
Part(name, def, role) == [name |-> name, def |-> def, role |-> role]

\* The lists of up to two objects made by Make from a name and a definition.
ListsOf(Make(_, _), defs) ==
    {<<>>} \cup {<<Make(1, d)>> : d \in defs} \cup {<<Make(2, d)>> : d \in defs}
        \cup {<<Make(1, d), Make(2, e)>> : d \in defs, e \in defs}

EnumValues == {<<1>>, <<2>>, <<1, 2>>, <<2, 1>>}

ObjectLists(kind) ==
    CASE kind = "enum" -> {<<>>} \cup {<<Object(n, 0, v)>> : n \in 1..2, v \in EnumValues}
      [] kind = "function" -> ListsOf(LAMBDA arg, d : Object(1, arg, d), 1..2)
      [] kind = "table" -> ListsOf(LAMBDA n, d :
                Table(n, [NoParts EXCEPT !.columns = <<Part(1, d, "")>>], NoProps), 1..2)
      [] OTHER -> ListsOf(LAMBDA n, d : Object(n, 0, d), 1..2)

PartLists(part) ==
    IF part = "indexes"
    THEN ListsOf(LAMBDA n, d : Part(n, 1, d), {"", "unique", "primary"})
    ELSE ListsOf(LAMBDA n, d : Part(n, d, ""), 1..2)

OneTable(parts, props) == <<Schema(1, [NoLists EXCEPT !.table = <<Table(1, parts, props)>>])>>

Pair(o, n, ig) == [old |-> o, new |-> n, ignored |-> ig]

SchemaWith(kind, list) == <<Schema(1, [NoLists EXCEPT ![kind] = list])>>
ByKind ==
    UNION {{Pair(SchemaWith(k, o), SchemaWith(k, n), {}) :
                o \in ObjectLists(k), n \in ObjectLists(k)} : k \in ToSet(ObjectKinds)}
ByPart ==
    UNION {{Pair(OneTable([NoParts EXCEPT ![p] = o], NoProps),
                 OneTable([NoParts EXCEPT ![p] = n], NoProps), {}) :
                o \in PartLists(p), n \in PartLists(p)} : p \in DOMAIN NoParts}
ByProps ==
    {Pair(OneTable(NoParts, NoProps), OneTable(NoParts, [NoProps EXCEPT ![p] = 2]), ig) :
        p \in DOMAIN NoProps, ig \in SUBSET {"Comment", "Charset"}}

Full(name, tables) ==
    Schema(name, [NoLists EXCEPT
        !.table = [i \in 1..tables |-> Table(i, NoParts, NoProps)],
        !.view = <<Object(1, 0, 1)>>])
SchemaSets == {<<>>, <<Full(1, 1)>>, <<Full(2, 2)>>, <<Full(2, 1), Full(1, 1)>>,
               <<Full(1, 0), Full(3, 2)>>, <<Full(3, 1), Full(2, 1), Full(1, 2)>>}
BySchema == {Pair(o, n, {}) : o \in SchemaSets, n \in SchemaSets}

\* Two overloads of a procedure, each alone and in either order, and another procedure.
Overloads ==
    LET one == Object(1, 1, 1)
        two == Object(1, 2, 2)
    IN  {<<>>, <<one>>, <<two>>, <<one, two>>, <<two, one>>, <<one, Object(2, 1, 1), two>>}
Overloaded ==
    {Pair(SchemaWith("procedure", o), SchemaWith("procedure", n), {}) : o \in Overloads, n \in Overloads}

\* Everything of a table changes, beside other kinds.
Version(v) ==
    Table(1, [NoParts EXCEPT
        !.columns = <<Part(v, 1, ""), Part(3, v, "")>>, !.fks = <<Part(1, v, "")>>,
        !.indexes = <<Part(v, 1, ""), Part(3, v, "unique"), Part(4, 1, IF v = 1 THEN "" ELSE "primary")>>,
        !.checks = <<Part(v, 1, "")>>, !.triggers = <<Part(1, v, "")>>,
        !.partitions = <<Part(v, 1, "")>>, !.rules = <<Part(v, 1, "")>>],
        [NoProps EXCEPT !.Comment = v])
Mixed ==
    {Pair(<<Schema(1, [NoLists EXCEPT !.table = <<Version(v), Table(2, NoParts, NoProps)>>,
                                      !.view = <<Object(v, 0, 1)>>, !.enum = <<Object(1, 0, <<v>>)>>])>>,
          <<Schema(1, [NoLists EXCEPT !.table = <<Version(3 - v)>>, !.mview = <<Object(1, 0, 1)>>,
                                      !.view = <<Object(3 - v, 0, 1)>>,
                                      ![k] = <<Object(1, 0, IF k = "enum" THEN <<3 - v>> ELSE v)>>])>>, {}) :
        v \in 1..2, k \in {"enum", "sequence", "event"}}

MCInputs == ByKind \cup ByPart \cup ByProps \cup BySchema \cup Overloaded \cup Mixed

MCIds == (Kinds \X (1..7)) \cup ({"table"} \X (1..2) \X {"col", "idx", "fk", "chk"} \X (1..3))
MCNotNullDefs == {2}
=============================================================================

------------------------------- MODULE MCDump -------------------------------
EXTENDS Dump

T(parts) == [kind |-> "table", parts |-> parts]
Obj(name, needs) == [name |-> name, needs |-> needs]
\* A routine with its argument types, a rule with its table.
Def(name, signature, needs) == [name |-> name, signature |-> signature, needs |-> needs]
Lists == [k \in Kinds |-> <<>>]
S(name, lists) == [name |-> name, lists |-> lists @@ Lists]
Column(name, comment) == [name |-> name, comment |-> comment, generated |-> FALSE, default |-> "value"]
Table(name, size) ==
    [name |-> name, size |-> size, needs |-> {}, columns |-> <<Column("id", FALSE)>>, checks |-> <<>>,
     fks |-> <<>>, indexes |-> <<[name |-> "pk", primary |-> TRUE, needs |-> {}]>>,
     triggers |-> <<>>, comment |-> FALSE]
Trigger(name, whole, needs) == [name |-> name, statement |-> whole, needs |-> needs]

\* PostgreSQL: kinds that build on earlier ones, a function overloaded; no foreign keys.
PgPlain ==
    <<S("public",
        "extension" :> <<[name |-> "x", schema |-> "public"]>> @@
        "enum" :> <<Obj("a", {})>> @@
        "table" :> <<[Table("a", 5) EXCEPT
                        !.needs = {[kind |-> "enum", parts |-> <<"public", "a">>]},
                        !.columns = <<Column("id", TRUE), Column("n", FALSE)>>, !.checks = <<"c", "c2">>, !.comment = TRUE,
                        !.indexes = Append(@, [name |-> "i", primary |-> FALSE, needs |-> {}])],
                     Table("b", 20)>> @@
        "view" :> <<Obj("a", {T(<<"public", "a">>)}), Obj("b", {[kind |-> "view", parts |-> <<"public", "a">>]})>> @@
        "mview" :> <<Obj("b", {[kind |-> "view", parts |-> <<"public", "b">>]})>> @@
        "function" :> <<Def("f", "int", {}), Def("f", "text", {})>> @@
        "rule" :> <<Def("r", "a", {T(<<"public", "a">>)}), Def("r", "b", {T(<<"public", "b">>)})>>)>>

\* PostgreSQL: two schemas, with a generated column, a foreign key the extractor has
\* qualified, a trigger on a function, a view on a later view, a rule.
PgTwo ==
    <<S("app",
        "sequence" :> <<Obj("s", {})>> @@
        "table" :> <<[Table("a", 5) EXCEPT !.needs = {[kind |-> "sequence", parts |-> <<"app", "s">>]}],
                     [Table("b", 20) EXCEPT
                        !.triggers = <<Trigger("g", TRUE, {[kind |-> "function", parts |-> <<"app", "a", "int">>]})>>],
                     [Table("c", 20) EXCEPT !.columns = Append(@, [Column("n", FALSE) EXCEPT !.generated = TRUE])]>> @@
        "function" :> <<Def("a", "int", {})>> @@
        "rule" :> <<Def("r", "a", {T(<<"app", "a">>)})>>),
      S("public",
        "table" :> <<[Table("b", 5) EXCEPT !.fks = <<[name |-> "f", to |-> <<"app", "a">>]>>]>> @@
        "view" :> <<Obj("a", {[kind |-> "view", parts |-> <<"public", "b">>]}), Obj("b", {T(<<"app", "b">>)})>> @@
        "procedure" :> <<Def("a", "", {})>>)>>

\* MySQL: foreign keys to an earlier table, to itself and to a later table, a trigger, a
\* table that counts its rows, a function, a procedure, an event.
MySql ==
    <<S("",
        "table" :> <<[Table("a", 5) EXCEPT !.columns = <<Column("id", FALSE), Column("n", TRUE)>>, !.fks = <<[name |-> "f", to |-> <<"b">>]>>],
                     [Table("b", 20) EXCEPT !.checks = <<"c">>, !.fks = <<[name |-> "f", to |-> <<"a">>], [name |-> "g", to |-> <<"b">>]>>,
                        !.triggers = <<Trigger("g", FALSE, {T(<<"", "a">>)})>>],
                     [Table("c", 20) EXCEPT !.columns = <<[Column("id", FALSE) EXCEPT !.default = "AUTO_INCREMENT"]>>]>> @@
        "view" :> <<Obj("b", {T(<<"", "b">>)})>> @@
        "function" :> <<Def("a", "int", {})>> @@
        "procedure" :> <<Def("b", "", {})>> @@
        "event" :> <<Obj("e", {})>>)>>

\* MySQL: a foreign key to an earlier table only, so that the whole script runs.
MySqlPlain ==
    <<S("",
        "table" :> <<[Table("b", 20) EXCEPT !.comment = TRUE],
                     [Table("a", 5) EXCEPT !.fks = <<[name |-> "f", to |-> <<"b">>]>>]>> @@
        "view" :> <<Obj("a", {T(<<"", "a">>)})>> @@
        "procedure" :> <<Def("b", "", {})>>)>>

MCDatabases == {PgPlain, PgTwo, MySql, MySqlPlain}
MCMySqlDatabases == {MySql, MySqlPlain}
MCSchemaLists == {{"app"}, {"public", ""}}
MCPatterns == {{"a"}, {"a", "b"}}
MCSizes == {0, 10}
MCSystemSchemas == {"information_schema"}
MCTestPatterns == {{"b"}}
=============================================================================

----------------------------- MODULE MCEngines -----------------------------
EXTENDS Engines

Fields == [f \in {"Nullable", "Default", "Comment", "OnUpdate", "Generation", "Identity",
                  "IdentityLimits", "Collation", "CharacterSet"} |-> "x"]
Column(base, args, rest, means, unlisted) ==
    [type |-> [base |-> base, args |-> args, rest |-> rest], fields |-> Fields,
     means |-> [base |-> means[1], precision |-> means[2], length |-> means[3],
                suffix |-> means[4], attributes |-> means[5]],
     unlisted |-> unlisted]
Both == {"mysql", "postgres"}

PgColumns ==
    {Column("INTEGER", "", <<>>, <<"int", "", "", "", "">>, {}),
     Column("INT4", "", <<>>, <<"int", "", "", "", "">>, {}),
     Column("BIGINT", "", <<>>, <<"bigint", "", "", "", "">>, {}),
     Column("INTEGER", "", <<"[]">>, <<"int", "", "", "[]", "">>, {}),
     Column("INT4", "", <<"[]">>, <<"int", "", "", "[]", "">>, {"postgres"}),
     Column("NUMERIC", "10,2", <<>>, <<"numeric", "10,2", "", "", "">>, {}),
     Column("NUMERIC", "12,2", <<>>, <<"numeric", "12,2", "", "", "">>, {}),
     Column("DECIMAL", "10,2", <<>>, <<"numeric", "10,2", "", "", "">>, {"postgres"}),
     Column("VARCHAR", "", <<>>, <<"varchar", "", "", "", "">>, {}),
     Column("CHARACTER VARYING", "10", <<>>, <<"varchar", "", "10", "", "">>, {}),
     Column("CHARACTER VARYING", "20", <<>>, <<"varchar", "", "20", "", "">>, {}),
     Column("CHARACTER VARYING", "10", <<"[]">>, <<"varchar", "", "10", "[]", "">>, {}),
     Column("TIMESTAMPTZ", "", <<>>, <<"timestamp", "", "", "zone", "">>, {}),
     Column("TIMESTAMP", "", <<"WITH TIME ZONE">>, <<"timestamp", "", "", "zone", "">>, {}),
     Column("TIMESTAMP", "", <<"WITHOUT TIME ZONE">>, <<"timestamp", "", "", "", "">>, {}),
     Column("TIMESTAMP", "3", <<"WITH TIME ZONE">>, <<"timestamp", "", "3", "zone", "">>, {}),
     Column("TIMESTAMP", "3", <<"WITHOUT TIME ZONE">>, <<"timestamp", "", "3", "", "">>, {})}
MyColumns ==
    {Column("INT", "", <<>>, <<"int", "", "", "", "">>, {}),
     Column("INTEGER", "", <<>>, <<"int", "", "", "", "">>, {}),
     Column("INT", "", <<"UNSIGNED">>, <<"int", "", "", "", "u">>, {}),
     Column("INT", "11", <<>>, <<"int", "", "11", "", "">>, {}),
     Column("INT", "11", <<"UNSIGNED", "ZEROFILL">>, <<"int", "", "11", "", "uz">>, {}),
     Column("TINYINT", "1", <<>>, <<"tinyint", "", "1", "", "">>, {}),
     Column("TINYINT", "4", <<>>, <<"tinyint", "", "4", "", "">>, {}),
     Column("BOOLEAN", "", <<>>, <<"tinyint", "", "1", "", "">>, {"postgres"}),
     Column("VARCHAR", "10", <<>>, <<"varchar", "", "10", "", "">>, {}),
     Column("VARCHAR", "20", <<>>, <<"varchar", "", "20", "", "">>, {}),
     Column("ENUM", "a", <<>>, <<"enum", "", "a", "", "">>, {}),
     Column("ENUM", "a,b", <<>>, <<"enum", "", "ab", "", "">>, {}),
     Column("DECIMAL", "10,2", <<>>, <<"numeric", "10,2", "", "", "">>, {}),
     Column("DECIMAL", "12,2", <<>>, <<"numeric", "12,2", "", "", "">>, {})}
Changed(c) == {[c EXCEPT !.fields[f] = "y"] : f \in DOMAIN Fields}

Text(tokens, core, marks, casts, grouping, spaces, unlisted) ==
    [text |-> tokens, comment |-> "", unlisted |-> unlisted,
     means |-> [core |-> core, marks |-> marks, casts |-> casts, grouping |-> grouping,
                spaces |-> spaces]]
Plain(tokens, core) == Text(tokens, core, "", "", "", "", {})
Shared ==
    {Text(<<"a", "%", "b">>, "ab", "%", "", "", "", {}),
     Text(<<"a", "||", "b">>, "ab", "||", "", "", "", {}),
     Plain(<<"a", "=", "b">>, "eq"),
     Plain(<<"a", "!=", "b">>, "ne"), Plain(<<"a", "<>", "b">>, "ne"),
     Plain(<<"a", "IN", "(", "b", ")">>, "in"),
     Text(<<"a", "in", "(", "b", ")">>, "in", "", "", "", "", {"postgres"}),
     Text(<<"lit x  y">>, "xy", "", "", "", "2", {}), Text(<<"lit x y">>, "xy", "", "", "", "1", {}),
     Plain(<<"SELECT", "a">>, "select"), Plain(<<"select", "a">>, "select"),
     Plain(<<"a">>, "a"), Text(<<"A">>, "a", "", "", "", "", Both)}
PgTexts == Shared \cup
    {Plain(<<"a", "=", "ANY", "(", "ARRAY", "[", "b", "]", ")">>, "in"),
     Text(<<"(", "(", "a", ")", "+", "(", "b", ")", ")", "*", "c">>, "sum", "", "", "1", "", {}),
     Text(<<"(", "a", ")", "+", "(", "b", ")", "*", "c">>, "sum", "", "", "2", "", {}),
     Text(<<"a", "::", "numeric", "(", "10", ")">>, "a", "", "numeric", "", "", {}),
     Text(<<"a", "::", "text">>, "a", "", "text", "", "", {}),
     Text(<<"a", "::", "double", "precision">>, "a", "", "double", "", "", {}),
     Text(<<"lit 1 day">>, "day", "", "", "", "", {}),
     Text(<<"lit 1 day", "::", "interval">>, "day", "", "interval", "", "", {"postgres"}),
     Text(<<"INTERVAL", "lit 1 day">>, "day", "", "interval", "", "", {}),
     Text(<<"interval", "lit 1 day">>, "day", "", "interval", "", "", {}),
     Plain(<<"now", "(", ")">>, "now"), Text(<<"NOW", "(", ")">>, "now", "", "", "", "", {"postgres"})}
\* INTERVAL is a keyword of PostgreSQL's list, NOW one of MySQL's.
MyTexts == Shared \cup
    {Plain(<<"quoted a">>, "a"), Plain(<<"quoted a", "=", "b">>, "eq"),
     Text(<<"NOW", "(", ")">>, "now", "", "", "", "", {"postgres"}),
     Plain(<<"now", "(", ")">>, "now"),
     Text(<<"INTERVAL", "lit 1 day">>, "day", "", "interval", "", "", {}),
     Text(<<"interval", "lit 1 day">>, "day", "", "interval", "", "", {"mysql"})}

Function(parameters, calls, body) ==
    [name |-> "f", text |-> <<"FUNCTION", "f", "(">> \o parameters \o <<")", "AS">> \o body.text,
     settings |-> "", calls |-> calls, unlisted |-> body.unlisted,
     means |-> [body.means EXCEPT !.core = parameters \o <<@>>]]
Body == Plain(<<"a">>, "a")
F1 == Function(<<"a", "int">>, FALSE, Body)
F2 == Function(<<"a", "text">>, FALSE, Body)
F3 == Function(<<"a", "int", "DEFAULT", "now", "(", ")", ",", "b", "int">>, TRUE, Body)
F4 == Function(<<"a", "int", "DEFAULT", "now", "(", ")", ",", "b", "text">>, TRUE, Body)
PgLists == {<<>>, <<F1>>, <<F2>>, <<F1, F2>>, <<F3>>, <<F4>>, <<F3, F4>>, <<F1, F4>>}
MyLists == {<<>>, <<F1>>, <<F2>>, <<[F1 EXCEPT !.settings = "ansi"]>>}

\* The fields of the other objects, as the types declare them.
PlainFields ==
    [index |-> {"Type", "Primary", "Unique", "Expressions", "WhereClause", "Visible", "Comment",
                "KeyLength", "Descending", "Spatial"},
     fk |-> {"Columns", "ReferencedTable", "ReferencedColumns", "OnDelete", "OnUpdate", "MatchType"},
     check |-> {"Expression"},
     trigger |-> {"Event", "Timing", "Body", "Comment"} \cup MySqlModes,
     partition |-> {"Type", "Expression", "Value", "Subpartitions", "UseDefault"},
     rule |-> {"Event", "Timing", "Definition", "Comment"},
     procedure |-> {"Definition", "Comment", "DatabaseCollation"} \cup MySqlModes,
     sequence |-> {"DataType", "Start", "Increment", "Min", "Max", "Cache", "Cycle", "Comment"},
     event |-> {"Definition", "TimeZone", "Comment"} \cup MySqlModes,
     extension |-> {"Schema", "Version", "Comment"}]
PlainObjects == [k \in DOMAIN PlainFields |-> [f \in PlainFields[k] |-> "x"]]

Schema(column, text, functions) ==
    [column |-> column, view |-> text, mview |-> text, functions |-> functions,
     plain |-> PlainObjects]
PgColumn == CHOOSE c \in PgColumns : c.type.base = "BIGINT"
MyColumn == CHOOSE c \in MyColumns : c.type.base = "INTEGER"
PairsOf(engine, schemas) == {[engine |-> engine, old |-> s, new |-> t] : s, t \in schemas}

\* One field of one object changes; all fields of a sequence in twos.
ChangedPlain(s) ==
    UNION {{[s EXCEPT !.plain[k][f] = "y"] : f \in PlainFields[k]} : k \in DOMAIN PlainFields}
        \cup {[s EXCEPT !.plain["sequence"] =
                    [f \in PlainFields["sequence"] |-> IF f \in {g, h} THEN "y" ELSE "x"]] :
              g, h \in PlainFields["sequence"]}
PlainPairs(engine, column) ==
    LET s == Schema(column, Body, <<>>)
    IN  {[engine |-> engine, old |-> s, new |-> t] : t \in ChangedPlain(s)}

MCPairs ==
    PlainPairs("POSTGRES", PgColumn) \cup PlainPairs("MYSQL", MyColumn) \cup
    PairsOf("POSTGRES", {Schema(c, Body, <<>>) : c \in PgColumns \cup Changed(PgColumn)})
        \cup PairsOf("POSTGRES", {Schema(PgColumn, t, <<Function(<<"a", "int">>, FALSE, t)>>) : t \in PgTexts})
        \cup PairsOf("POSTGRES", {Schema(PgColumn, [Body EXCEPT !.comment = x], l) :
                                    x \in {"", "c"}, l \in PgLists})
        \cup UNION {
            PairsOf(e, {Schema(c, Body, <<>>) : c \in MyColumns \cup Changed(MyColumn)})
                \cup PairsOf(e, {Schema(MyColumn, t, <<Function(<<"a", "int">>, FALSE, t)>>) : t \in MyTexts})
                \cup PairsOf(e, {Schema(MyColumn, Body, l) : l \in MyLists}) :
            e \in {"MYSQL", "TIDB"}}

MCWords == {"a", "b", "c", "A", "f", "now", "NOW", "int", "text", "numeric", "double", "precision", "interval",
            "IN", "in", "ANY", "ARRAY", "INTERVAL", "SELECT", "select", "AS", "DEFAULT", "FUNCTION"}
MCCapitals ==
    [postgres |-> [select |-> "SELECT", in |-> "IN", interval |-> "INTERVAL"],
     mysql |-> [select |-> "SELECT", in |-> "IN", now |-> "NOW"]]
MCUnquoted == [q \in {"quoted a"} |-> "a"]
Literals == {"lit x  y", "lit x y", "lit 1 day"}
MCSqueezed == [l \in Literals |-> (IF l = "lit x  y" THEN "lit x y" ELSE l)]
=============================================================================

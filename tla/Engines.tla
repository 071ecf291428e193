------------------------------ MODULE Engines ------------------------------
(***************************************************************************)
(* The engine-specific half of a comparison: the registry of comparers,    *)
(* the choice of one by CompareSchemasDetailed and CompareSnapshots, and   *)
(* what the comparers of comparer/engine/postgres and .../mysql take for   *)
(* equal, with the field by field comparisons both share.  Compare has the *)
(* other half, the loops, with definitions as abstract values.             *)
(*                                                                         *)
(* A column type is [base, args, rest]: what stands before a parenthesis,  *)
(* in it, and the words after it, in upper case.  An expression is its     *)
(* sequence of tokens, a cast "::" one of them.  What an object means is a *)
(* record of aspects beside the text; the code never looks at it, the      *)
(* properties do.  White space counts only inside literals.                *)
(***************************************************************************)
EXTENDS Naturals, Sequences, FiniteSets, SequencesExt

CONSTANTS
    Pairs,       \* [engine, old, new]: an engine and two schemas of it
    Replaced,    \* the engines whose comparer other goroutines take out and put back
    Words,       \* the tokens that are names or keywords
    Capitals,    \* of each package: a keyword in small letters -> the keyword
    Unquoted,    \* a name in backquotes -> the name
    Squeezed     \* a literal -> the literal with its runs of spaces made one

MySqlLike == {"MYSQL", "MARIADB", "TIDB", "OCEANBASE"}
EngineNames == MySqlLike \cup {"POSTGRES"}

ASSUME PairsAssumption ==
    Replaced \subseteq EngineNames /\ \A p \in Pairs : p.engine \in EngineNames

VARIABLES
    registry,    \* defaultRegistry: the package whose comparer an engine has, or "none"
    input,       \* the engine and the schemas of the call
    pc,          \* "called", "chosen", then the lists compared, "done" or "failed"
    asked,       \* opts.Engine
    how,         \* the engine is chosen by the "engine" option, by "default" or for "snapshots"
    comparer,    \* the comparer Get returned
    diffs        \* the entries made, of each kind

vars == <<registry, input, pc, asked, how, comparer, diffs>>

-----------------------------------------------------------------------------
\* Column types.
Type(base) == [base |-> base, args |-> "", rest |-> <<>>]
Zoned(base) == [Type(base) EXCEPT !.rest = <<"WITH TIME ZONE">>]
Sized(base, args) == [Type(base) EXCEPT !.args = args]

\* Faulty variant: the precision of numbers is dropped too.
NormalizeTypeOfAll(c, t) ==
    IF c = "postgres"
        THEN IF t.args # "" THEN Type(t.base) ELSE t
        ELSE [t EXCEPT !.rest = SelectSeq(@, LAMBDA w : w \notin {"UNSIGNED", "ZEROFILL"})]

\* NormalizeType.  PostgreSQL: whatever begins at a parenthesis is cut off.
NormalizeType(c, t) ==
    IF c = "postgres"
        THEN IF t.args # "" /\ t.base \notin {"NUMERIC", "DECIMAL", "DEC"} THEN Type(t.base) ELSE t
        ELSE [t EXCEPT !.rest = SelectSeq(@, LAMBDA w : w \notin {"UNSIGNED", "ZEROFILL"})]

Aliases(c) ==
    IF c = "postgres"
        THEN {{Type("INTEGER"), Type("INT"), Type("INT4")}, {Type("BIGINT"), Type("INT8")},
              {Type("SMALLINT"), Type("INT2")}, {Type("REAL"), Type("FLOAT4")},
              {Type("DOUBLE PRECISION"), Type("FLOAT8")},
              {Type("CHARACTER VARYING"), Type("VARCHAR")}, {Type("CHARACTER"), Type("CHAR")},
              {Zoned("TIMESTAMP"), Type("TIMESTAMPTZ")}, {Zoned("TIME"), Type("TIMETZ")},
              {Type("BOOLEAN"), Type("BOOL")}}
        ELSE {{Type("INTEGER"), Type("INT")},
              {Type("BOOLEAN"), Type("BOOL"), Sized("TINYINT", "1")},
              {Type("BINARY"), Type("CHAR BYTE")}, {Type("VARBINARY"), Type("VARCHAR BYTE")}}

IsEquivalentType(c, s, t) ==
    LET norms == {NormalizeType(c, s), NormalizeType(c, t)}
    IN  Cardinality(norms) = 1 \/ \E group \in Aliases(c) : norms \subseteq group

\* The fields columnsEqual reads beside the type.
FieldsRead(c) ==
    {"Nullable", "Default", "Comment"}
        \cup (IF c = "postgres" THEN {"Identity"} ELSE {"OnUpdate", "Generation"})

ColumnsEqual(c, o, n) ==
    IsEquivalentType(c, o.type, n.type) /\ \A f \in FieldsRead(c) : o.fields[f] = n.fields[f]

-----------------------------------------------------------------------------
\* Expressions.
From(e, i, token) == {k \in i .. Len(e) : e[k] = token}
Closing(e, i) == Min(From(e, i, ")"))
Keep(e, positions) ==
    FlattenSeq([i \in DOMAIN e |-> IF i \in positions THEN <<e[i]>> ELSE <<>>])

\* removeTypeCasts: "::", one word, and a parenthesis after it up to the first ")".
CastAt(e, c) ==
    IF e[c] = "::" /\ c < Len(e) /\ e[c + 1] \in Words
        THEN IF c + 2 <= Len(e) /\ e[c + 2] = "(" /\ From(e, c + 2, ")") # {}
                THEN c .. Closing(e, c + 2) ELSE {c, c + 1}
        ELSE {}
RemoveTypeCasts(e) == Keep(e, DOMAIN e \ UNION {CastAt(e, c) : c \in DOMAIN e})

\* normalizeINToANY: x IN (...) up to the first ")"; no list inside another.  The
\* keyword must be in capitals.
InAt(e, i) ==
    /\ i > 1 /\ e[i] = "IN" /\ e[i - 1] \in Words
    /\ i < Len(e) /\ e[i + 1] = "(" /\ From(e, i + 1, ")") # {}
\* Faulty variant: a list is left as it is.
NormalizeINNever(e) == e
NormalizeINToANY(e) ==
    LET ins == {i \in DOMAIN e : InAt(e, i)}
    IN  FlattenSeq([i \in DOMAIN e |->
            IF i \in ins THEN <<"=", "ANY">>
            ELSE IF i - 1 \in ins THEN <<"(", "ARRAY", "[">>
            ELSE IF \E in \in ins : i = Closing(e, in) THEN <<"]", ")">>
            ELSE <<e[i]>>])

\* normalizeInterval, called after the casts are gone: 'x'::interval is INTERVAL 'x'.
NormalizeInterval(e) ==
    LET casts == {i \in 2 .. Len(e) - 1 :
                    e[i] = "::" /\ e[i - 1] \in DOMAIN Squeezed /\ e[i + 1] = "interval"}
    IN  FlattenSeq([i \in DOMAIN e |->
            IF i + 1 \in casts THEN <<"INTERVAL", e[i]>>
            ELSE IF i \in casts \/ i - 1 \in casts THEN <<>>
            ELSE <<e[i]>>])

\* removeExtraParentheses: the outer pair of "((" and the first "))" after it goes, until
\* there is none, whether or not the two belong together.
Doubled(e) ==
    {p \in (1 .. Len(e)) \X (1 .. Len(e)) :
        /\ p[1] + 2 <= p[2] /\ p[2] < Len(e)
        /\ e[p[1]] = "(" /\ e[p[1] + 1] = "(" /\ e[p[2]] = ")" /\ e[p[2] + 1] = ")"}
RECURSIVE RemoveExtraParentheses(_)
RemoveExtraParentheses(e) ==
    IF Doubled(e) = {} THEN e
    ELSE LET first == CHOOSE p \in Doubled(e) :
                        \A q \in Doubled(e) : p[1] < q[1] \/ (p[1] = q[1] /\ p[2] <= q[2])
         IN  RemoveExtraParentheses(Keep(e, DOMAIN e \ {first[1], first[2] + 1}))

\* NormalizeExpression, up to white space outside literals.
NormalizeExpression(c, e) ==
    LET plain == IF c = "postgres"
                    THEN RemoveExtraParentheses(NormalizeInterval(NormalizeINToANY(RemoveTypeCasts(e))))
                    ELSE [i \in DOMAIN e |-> IF e[i] \in DOMAIN Unquoted THEN Unquoted[e[i]] ELSE e[i]]
    IN  [i \in DOMAIN plain |->
            IF plain[i] \in DOMAIN Squeezed THEN Squeezed[plain[i]] ELSE plain[i]]

\* What no alternative of the tokenizer's regular expression matches is skipped.
Skipped(c) ==
    {"%", "|", "||", "&", "&&", "~", "^", ".", ":", "::", ";", "#", "@", "?", "$"}
        \cup (IF c = "postgres" THEN {} ELSE {"[", "]"})

\* tokenizeExpression, with what tokensEqual makes equal: keywords, of which each package
\* has its own list, and "not equal".  A backquote PostgreSQL's expression does not match
\* either; the name in it is left.
Tokens(c, e) ==
    LET kept == SelectSeq(NormalizeExpression(c, e), LAMBDA token : token \notin Skipped(c))
    IN  [i \in DOMAIN kept |->
            IF kept[i] \in DOMAIN Unquoted THEN Unquoted[kept[i]]
            ELSE IF kept[i] \in DOMAIN Capitals[c] THEN Capitals[c][kept[i]]
            ELSE IF kept[i] = "!=" THEN "<>" ELSE kept[i]]

CompareExpressionsSemantically(c, e, f) == e = f \/ Tokens(c, e) = Tokens(c, f)

\* CompareView; MySQL has the base comparer's, which compares text.  Materialized views
\* are compared by the base comparer in both.
ViewChanged(c, o, n) ==
    \/ o.comment # n.comment
    \/ IF c = "postgres" THEN ~CompareExpressionsSemantically(c, o.text, n.text) ELSE o.text # n.text
MaterializedViewChanged(o, n) == o.text # n.text \/ o.comment # n.comment

-----------------------------------------------------------------------------
\* Functions.  GetSignature of PostgreSQL: from FUNCTION to the first ")" after the first
\* "("; the name when there are none.  MySQL has the base comparer's, the name.
GetSignature(c, f) ==
    LET start == Min(From(f.text, 1, "FUNCTION"))
        open == Min(From(f.text, start, "("))
    IN  IF \/ c = "mysql"
           \/ From(f.text, 1, "FUNCTION") = {}
           \/ From(f.text, start, "(") = {}
           \/ From(f.text, open, ")") = {}
            THEN <<f.name>>
            ELSE SubSeq(f.text, start, Closing(f.text, open))

\* groupFunctionsBySignature: of the functions with one signature the last is kept.
Grouped(c, list) ==
    {list[i] : i \in {i \in DOMAIN list :
        \A j \in DOMAIN list : GetSignature(c, list[j]) = GetSignature(c, list[i]) => j <= i}}

FunctionsEqual(c, o, n) ==
    /\ o.name = n.name
    /\ c = "mysql" => o.settings = n.settings
    /\ CompareExpressionsSemantically(c, o.text, n.text)

FunctionEntry(was, is) == [was |-> was, is |-> is, body |-> FALSE, attributes |-> FALSE, alter |-> FALSE]
\* CompareDetailed, of two functions of one signature.
FunctionAlter(c, o, n) ==
    [was |-> {o}, is |-> {n}, body |-> ~CompareExpressionsSemantically(c, o.text, n.text),
     attributes |-> c = "mysql" /\ o.settings # n.settings, alter |-> c = "postgres"]

FunctionDiffs(c, olds, news) ==
    LET shared == {p \in Grouped(c, olds) \X Grouped(c, news) :
                    GetSignature(c, p[1]) = GetSignature(c, p[2])}
    IN  {FunctionEntry({f}, {}) : f \in Grouped(c, olds) \ {p[1] : p \in shared}}
            \cup {FunctionEntry({}, {f}) : f \in Grouped(c, news) \ {p[2] : p \in shared}}
            \cup {FunctionAlter(c, p[1], p[2]) :
                    p \in {p \in shared : ~FunctionsEqual(c, p[1], p[2])}}

-----------------------------------------------------------------------------
\* Objects that are the same for every engine: one of each kind, compared field by field.
PartFields ==
    [index |-> {"Type", "Primary", "Unique", "Expressions", "WhereClause"},
     fk |-> {"Columns", "ReferencedTable", "ReferencedColumns", "OnDelete", "OnUpdate"},
     check |-> {"Expression"}, trigger |-> {"Body"},
     partition |-> {"Type", "Expression", "Value"}, rule |-> {"Definition"}]
SequenceFields == {"Start", "Increment", "Min", "Max", "Cache", "Cycle"}
OtherFields ==
    [procedure |-> {"Definition"}, sequence |-> SequenceFields,
     event |-> {"Definition"}, extension |-> {"Version"}]

Unlike(o, n, fields) == {f \in fields : o[f] # n[f]}
\* The flags of a SequenceDiff are set by six tests of their own.
PopulateSequenceChanges(o, n) ==
    Unlike(o, n, {"Start", "Increment", "Min", "Max", "Cache", "Cycle"})

PartAlter(kind, o, n) ==
    IF Unlike(o, n, PartFields[kind]) = {} THEN {} ELSE {[was |-> {o}, is |-> {n}]}
OtherAlter(kind, o, n) ==
    IF Unlike(o, n, OtherFields[kind]) = {} THEN {}
    ELSE {[was |-> {o}, is |-> {n},
           changed |-> IF kind = "sequence" THEN PopulateSequenceChanges(o, n) ELSE {}]}

-----------------------------------------------------------------------------
\* The comparer each engine's package registers in its init function.
Registered == [e \in EngineNames |-> IF e \in MySqlLike THEN "mysql" ELSE "postgres"]

Init ==
    /\ registry = Registered
    /\ input \in Pairs
    /\ pc = "called"
    /\ asked = "" /\ how = "" /\ comparer = "none"
    /\ diffs = [k \in {"column", "view", "mview", "function"} \cup DOMAIN PartFields
                        \cup DOMAIN OtherFields |-> {}]

\* Other goroutines may replace entries of the registry.
Unregister(e) ==
    /\ registry' = [registry EXCEPT ![e] = "none"]
    /\ UNCHANGED <<input, pc, asked, how, comparer, diffs>>
Register(e) ==
    /\ registry' = [registry EXCEPT ![e] = Registered[e]]
    /\ UNCHANGED <<input, pc, asked, how, comparer, diffs>>

Choose(e, way) ==
    /\ pc = "called" /\ pc' = "chosen"
    /\ asked' = e /\ how' = way
    /\ UNCHANGED <<registry, input, comparer, diffs>>
\* CompareSchemasDetailed with the engine of the databases, and with no options.
CompareWithEngine == Choose(input.engine, "engine")
CompareWithDefault == Choose("POSTGRES", "default")
\* CompareSnapshots without options: TakeSnapshot has stored the engine in capitals.
CompareSnapshots == Choose(IF input.engine = "mysql" THEN "MYSQL" ELSE "POSTGRES", "snapshots")

GetComparer ==
    /\ pc = "chosen"
    /\ registry[asked] # "none"
    /\ comparer' = registry[asked]
    /\ pc' = "table"
    /\ UNCHANGED <<registry, input, asked, how, diffs>>
GetFails ==
    /\ pc = "chosen"
    /\ registry[asked] = "none"
    /\ pc' = "failed"
    /\ UNCHANGED <<registry, input, asked, how, comparer, diffs>>

Compared(kind, next, entries) ==
    /\ pc = kind /\ pc' = next
    /\ diffs' = [diffs EXCEPT ![kind] = entries]
    /\ UNCHANGED <<registry, input, asked, how, comparer>>

\* Of columns and views the loops are in Compare: here one of each, on both sides.
Alter(o, n) == {[was |-> {o}, is |-> {n}]}
\* compareTableDetails: a column and a part of each kind.
CompareTables ==
    /\ pc = "table" /\ pc' = "view"
    /\ diffs' = [k \in DOMAIN diffs |->
            IF k \in DOMAIN PartFields THEN PartAlter(k, input.old.plain[k], input.new.plain[k])
            ELSE IF k # "column" \/ ColumnsEqual(comparer, input.old.column, input.new.column) THEN {}
            ELSE Alter(input.old.column, input.new.column)]
    /\ UNCHANGED <<registry, input, asked, how, comparer>>
CompareViews ==
    Compared("view", "mview",
        IF ViewChanged(comparer, input.old.view, input.new.view)
            THEN Alter(input.old.view, input.new.view) ELSE {})
CompareMaterializedViews ==
    Compared("mview", "function",
        IF MaterializedViewChanged(input.old.mview, input.new.mview)
            THEN Alter(input.old.mview, input.new.mview) ELSE {})
CompareFunctions ==
    Compared("function", "procedure",
        FunctionDiffs(comparer, input.old.functions, input.new.functions))
CompareOther(kind, next) ==
    Compared(kind, next, OtherAlter(kind, input.old.plain[kind], input.new.plain[kind]))
CompareProcedures == CompareOther("procedure", "sequence")
CompareSequences == CompareOther("sequence", "event")
CompareEvents == CompareOther("event", "extension")
CompareExtensions == CompareOther("extension", "done")

Next ==
    \/ \E e \in Replaced : Unregister(e) \/ Register(e)
    \/ CompareWithEngine \/ CompareWithDefault \/ CompareSnapshots
    \/ GetComparer \/ GetFails
    \/ CompareTables \/ CompareViews \/ CompareMaterializedViews \/ CompareFunctions
    \/ CompareProcedures \/ CompareSequences \/ CompareEvents \/ CompareExtensions

Spec == Init /\ [][Next]_vars

-----------------------------------------------------------------------------
\* Whose comparer a call uses: that of the engine in its options and, without options,
\* PostgreSQL's.  So it is for two snapshots too, whatever engine TakeSnapshot stored in
\* capitals, where doc.go 41 has "mysql", which CompareSnapshots tests for.
Family ==
    IF \/ how = "engine" /\ input.engine \in MySqlLike
       \/ how = "snapshots" /\ input.engine = "mysql"
    THEN "mysql" ELSE "postgres"

\* In which aspects two objects mean different things.
Differ(o, n) == {a \in DOMAIN o.means : o.means[a] # n.means[a]}
FieldsDiffer(o, n) == {f \in DOMAIN o.fields : o.fields[f] # n.fields[f]}

\* What a comparison does not see.  PostgreSQL: a length that is not of a number, and with
\* a length on either side all that follows it, time zones and array brackets included.
UnreadOfTypes(o, n) ==
    IF Family = "mysql" THEN {"attributes"}
    ELSE {"length"} \cup (IF o.type.args = "" /\ n.type.args = "" THEN {} ELSE {"suffix", "attributes"})
UnreadFields ==
    {"IdentityLimits", "Collation", "CharacterSet"}
        \cup (IF Family = "mysql" THEN {"Identity"} ELSE {"OnUpdate", "Generation"})
\* Operators of marks the tokenizer skips, runs of spaces in literals; PostgreSQL: casts,
\* and a pair of parentheses that is doubled only in the text.
UnreadOfTexts ==
    IF Family = "mysql" THEN {"marks", "spaces"} ELSE {"marks", "spaces", "casts", "grouping"}

\* Of other objects: the order and the prefixes of an index's columns, when a trigger or
\* a rule fires unless its text says so, subpartitions, the modes a routine was made in.
MySqlModes == {"SQLMode", "CharacterSetClient", "CollationConnection"}
UnreadPlain ==
    [index |-> {"Visible", "Comment", "KeyLength", "Descending", "Spatial"},
     fk |-> {"MatchType"}, check |-> {},
     trigger |-> {"Event", "Timing", "Comment"} \cup MySqlModes,
     partition |-> {"Subpartitions", "UseDefault"}, rule |-> {"Event", "Timing", "Comment"},
     procedure |-> {"Comment", "DatabaseCollation"} \cup MySqlModes,
     sequence |-> {"DataType", "Comment"},
     event |-> {"TimeZone", "Comment"} \cup MySqlModes, extension |-> {"Schema", "Comment"}]
PlainDiffer(kind) ==
    Unlike(input.old.plain[kind], input.new.plain[kind], DOMAIN input.old.plain[kind])

\* An overload may be hidden by one whose parameters begin alike up to a call in a default.
Hidden(list, f) ==
    \E i \in DOMAIN list : list[i] # f /\ list[i].name = f.name /\ list[i].calls /\ f.calls

\* A function without an entry is one the other side has too, in all that is read of it.
FunctionSeen(f, list, others, reported) ==
    \/ f \in reported
    \/ Hidden(list, f)
    \/ \E i \in DOMAIN others :
            /\ others[i].name = f.name
            /\ Differ(f, others[i]) \subseteq UnreadOfTexts
            /\ Family = "mysql" => others[i].settings = f.settings

\* A change that a comparison does not report is one it does not read, and this is all
\* that each comparer does not read, whichever way it was chosen and whatever happens to
\* the registry meanwhile.  A snapshot of MySQL is compared with PostgreSQL's comparer.
UnreportedIsUnread ==
    pc = "done" =>
        /\ diffs.column = {} =>
            /\ Differ(input.old.column, input.new.column)
                    \subseteq UnreadOfTypes(input.old.column, input.new.column)
            /\ FieldsDiffer(input.old.column, input.new.column) \subseteq UnreadFields
        /\ diffs.view = {} =>
            /\ input.old.view.comment = input.new.view.comment
            /\ Differ(input.old.view, input.new.view)
                    \subseteq (IF Family = "mysql" THEN {} ELSE UnreadOfTexts)
        /\ diffs.mview = {} =>
            input.old.mview.text = input.new.mview.text /\ Differ(input.old.mview, input.new.mview) = {}
        /\ \A k \in DOMAIN UnreadPlain : diffs[k] = {} => PlainDiffer(k) \subseteq UnreadPlain[k]
        /\ \A i \in DOMAIN input.old.functions :
            FunctionSeen(input.old.functions[i], input.old.functions, input.new.functions,
                         UNION {e.was : e \in diffs.function})
        /\ \A i \in DOMAIN input.new.functions :
            FunctionSeen(input.new.functions[i], input.new.functions, input.old.functions,
                         UNION {e.is : e \in diffs.function})

\* Two spellings of one meaning that the comparer does not know to be one.
Spelled(o, n) == Family \in o.unlisted \cup n.unlisted

\* What is reported has changed, but for spellings the comparer does not know and, of
\* functions, overloads one of which hides the other; an altered function says what of it,
\* an altered sequence every change that is read.
ReportedHasChanged ==
    pc = "done" =>
        /\ diffs.column # {} =>
            \/ Differ(input.old.column, input.new.column) # {}
            \/ FieldsDiffer(input.old.column, input.new.column) # {}
            \/ Spelled(input.old.column, input.new.column)
        /\ diffs.view # {} =>
            \/ Differ(input.old.view, input.new.view) # {}
            \/ input.old.view.comment # input.new.view.comment
            \/ Spelled(input.old.view, input.new.view)
            \/ Family = "mysql"
        /\ \A k \in DOMAIN UnreadPlain : diffs[k] # {} => PlainDiffer(k) # {}
        /\ \A e \in diffs.sequence : e.changed = PlainDiffer("sequence") \ UnreadPlain.sequence
        /\ \A e \in diffs.function :
            /\ \A f \in e.was :
                \/ ~\E i \in DOMAIN input.new.functions :
                        /\ Differ(f, input.new.functions[i]) = {}
                        /\ f.settings = input.new.functions[i].settings
                        /\ ~Spelled(f, input.new.functions[i])
                \/ Hidden(input.old.functions, f) \/ Hidden(input.new.functions, f)
            /\ e.was # {} /\ e.is # {} => e.body \/ e.attributes
=============================================================================

----------------------------- MODULE MCPlanner -----------------------------
(***************************************************************************)
(* Diffs of the shapes the comparer produces: every kind alone with up to  *)
(* two entries, every two kinds with one entry each, a dropped table beside *)
(* an altered one, and altered tables with up to two changes in one list   *)
(* or one change in each of two lists.                                     *)
(***************************************************************************)
EXTENDS Planner, FiniteSets

NoParts == [col |-> <<>>, idx |-> <<>>, fk |-> <<>>, chk |-> <<>>, pk |-> <<>>,
            unique |-> <<>>, trigger |-> <<>>, partition |-> <<>>, rule |-> <<>>]
Entry(action, flags) == [action |-> action, flags |-> flags]
Plain(action) == [action |-> action, flags |-> {}, parts |-> NoParts]

UpTo(n, S) == UNION {[1..m -> S] : m \in 0..n}

\* The changes a list of a TableDiff holds.
PartEntries(p) ==
    CASE p = "col" -> {Entry("CREATE", {}), Entry("CREATE", {"required"}), Entry("DROP", {}),
                       Entry("ALTER", {}), Entry("ALTER", {"tightened"})}
      [] OTHER -> {Entry(a, {}) : a \in Actions}

AlteredBy(parts) == [action |-> "ALTER", flags |-> {}, parts |-> parts]

AlteredTables ==
    UNION {{AlteredBy([NoParts EXCEPT ![p] = <<e>>]) : e \in PartEntries(p)} : p \in DOMAIN NoParts}
TwiceAlteredTables ==
    {AlteredBy([NoParts EXCEPT !["col"] = s, !["fk"] = t]) :
        s \in UpTo(2, {Entry("CREATE", {}), Entry("DROP", {}), Entry("ALTER", {"tightened"})}),
        t \in UpTo(1, PartEntries("fk"))}
    \cup {AlteredBy([NoParts EXCEPT !["idx"] = s, !["chk"] = t]) :
        s \in UpTo(2, PartEntries("idx")), t \in UpTo(1, PartEntries("chk"))}

Entries(kind) ==
    CASE kind = "schema" -> {Plain("CREATE"), Plain("DROP")}
      [] kind = "enum" -> {Plain("CREATE"), Plain("DROP")} \cup
                {[Plain("ALTER") EXCEPT !.flags = f] :
                    f \in {{"added"}, {"removed"}, {"added", "removed"}, {"reordered"}}}
      [] kind = "table" -> {Plain("CREATE"), Plain("DROP")} \cup AlteredTables
      [] OTHER -> {Plain(a) : a \in Actions}

None == [schema |-> <<>>, extension |-> <<>>, enum |-> <<>>, sequence |-> <<>>,
         table |-> <<>>, view |-> <<>>, mview |-> <<>>, function |-> <<>>,
         procedure |-> <<>>, event |-> <<>>]

MCDiffs ==
    UNION {{[None EXCEPT ![k] = s] : s \in UpTo(2, IF k = "table" THEN {} ELSE Entries(k))} :
           k \in Kinds}
    \cup {[None EXCEPT !["table"] = <<t>>] : t \in TwiceAlteredTables \ {AlteredBy(NoParts)}}
    \cup {[None EXCEPT !["table"] = <<t, u>>] :
            t \in {Plain("CREATE"), Plain("DROP")}, u \in AlteredTables}
    \cup UNION {{[None EXCEPT ![k[1]] = <<e>>, ![k[2]] = <<f>>] :
                    e \in Entries(k[1]), f \in Entries(k[2])} :
                k \in {k \in Kinds \X Kinds : k[1] # k[2]}}

MCIds == (Kinds \X (1..2)) \cup ({"table"} \X (1..2) \X ToSet(Parts) \X (1..3))
=============================================================================

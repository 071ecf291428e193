------------------------------- MODULE Report -------------------------------
(***************************************************************************)
(* package formatter, and MetadataDiff.CountChanges: what the reports on a *)
(* diff and on a strategy list and count.  A line is the place of a change *)
(* in the diff and its action; titles, names and icons are left out.  The  *)
(* diff has the form Planner gives it.                                     *)
(***************************************************************************)
EXTENDS Naturals, Sequences, FiniteSets, SequencesExt

\* The sections of the text report, and those the Markdown report has of them.
TextSections == <<"schema", "table", "view", "mview", "function", "procedure",
                  "sequence", "enum", "event", "extension">>
MarkdownSections == <<"schema", "table", "view", "function", "procedure">>
TextParts == <<"col", "idx", "fk", "chk">>
MarkdownParts == <<"col", "idx", "fk">>
CountedParts == <<"col", "idx", "fk", "chk", "pk", "unique">>
AllParts == CountedParts \o <<"partition", "trigger", "rule">>

Line(id, action) == [id |-> id, action |-> action]

\* The lines under a table: one list after another.
PartLines(tableId, change, parts) ==
    FlattenSeq([p \in DOMAIN parts |->
        [j \in DOMAIN change.parts[parts[p]] |->
            Line(tableId \o <<parts[p], j>>, change.parts[parts[p]][j].action)]])

Section(diff, kind, parts) ==
    FlattenSeq([i \in DOMAIN diff[kind] |->
        <<Line(<<kind, i>>, diff[kind][i].action)>> \o
            (IF kind = "table" THEN PartLines(<<kind, i>>, diff[kind][i], parts) ELSE <<>>)])

\* Faulty variant: the checks of a table are forgotten.
FormatDiffAsTextNoChecks(diff) ==
    FlattenSeq([s \in DOMAIN TextSections |-> Section(diff, TextSections[s], MarkdownParts)])
FormatDiffAsText(diff) ==
    FlattenSeq([s \in DOMAIN TextSections |-> Section(diff, TextSections[s], TextParts)])
FormatDiffAsMarkdown(diff) ==
    FlattenSeq([s \in DOMAIN MarkdownSections |-> Section(diff, MarkdownSections[s], MarkdownParts)])

Sum(numbers) ==
    LET sum[i \in 0..Len(numbers)] == IF i = 0 THEN 0 ELSE sum[i - 1] + numbers[i]
    IN  sum[Len(numbers)]
\* How many entries the given lists of a table have.
PartCount(change, parts) == Sum([p \in DOMAIN parts |-> Len(change.parts[parts[p]])])
EntryCount(diff) == Sum([s \in DOMAIN TextSections |-> Len(diff[TextSections[s]])])

\* The total the reports print; those of partitions, triggers and rules are not in it.
CountTotalChanges(diff) ==
    EntryCount(diff) +
        Sum([i \in DOMAIN diff["table"] |-> PartCount(diff["table"][i], CountedParts)])

\* MetadataDiff.CountChanges.
CountChanges(diff) ==
    EntryCount(diff) +
        Sum([i \in DOMAIN diff["table"] |->
                IF diff["table"][i].action = "ALTER" THEN PartCount(diff["table"][i], AllParts) ELSE 0])

\* The counts of FormatStrategyAsSummaryJSON, by risk.
RiskDistribution(operations) ==
    [r \in {operations[n].risk : n \in DOMAIN operations} |->
        Cardinality({n \in DOMAIN operations : operations[n].risk = r})]
=============================================================================

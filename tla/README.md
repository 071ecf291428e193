# TLA+ models of sql-schema

sql-schema is a Go library that extracts the schema of a MySQL or PostgreSQL
database, stores it as a snapshot, compares two schemas and plans the migration
from one to the other.  This directory holds specifications of its parts, their
model-checking configurations and machine-checked proofs.  `PROJECT.json` maps
every definition to the lines it models; paths below are relative to `src/`.

## 1. The system

```
   sql.DB --> extractor/{mysql,postgres} --> DatabaseSchema --> filter
                                                  |                |
                     snapshot  <------------------+                |
                   (take, save, load, validate; exporter)          |
                        |                                          v
                        +--> comparer (+ comparer/engine) --> MetadataDiff
                                                                   |
                                              planner, formatter <-+
```

The library starts no goroutine.  Its concurrency comes from outside: callers that
share a `*sql.DB`, other sessions that change the database while it is being read,
processes that write and read the same directory of snapshots.  Calls between parts
are plain function calls; the one package-level state is the registry of engines.

| component | state | operations | what is hard | what makes it correct |
|---|---|---|---|---|
| planner (`planner/strategy.go`) | a `MigrationStrategy` under construction; two marks per node of the search | ten converters, `orderOperations`, `categorizeRisks`, `SortByRisk` | recursion on arbitrary graphs; identifiers made from list positions; risk and reversibility set by hand in thirteen places | every change is planned once, after what it depends on; the warning lists agree; the call ends |
| comparer (`comparer/compare.go`, `diff/types.go`) | a `MetadataDiff` under construction | `CompareSchemasDetailed`, one `compareX` per kind, `sortMetadataDiff`, `HasChanges`, `IsEmpty` | every list is built in the random iteration order of a map; two loops over schemas that overlap | applying the diff to the old schema gives the new one; no entry too many; deterministic output |
| comparer engines (`comparer/engine/...`) | none | equality and normalisation of types, expressions, definitions | rewritings of text in a fixed order, each of which can undo what another needs | what is not reported is not read, and what is not read is a known list; what is reported has changed |
| engine registry | a map under a `sync.RWMutex` | `Register`, `Unregister`, `Get`, ... | a comparer is used after the lock is released; three callers choose an engine in three ways | every comparison is made by the comparer of the engine it asked for, and asks for that of its databases |
| PostgreSQL extractor | a transaction on a pooled connection, the session's `search_path` | `ExtractSchema`, `ListDatabases`, `WithRunAnalyze` | sixteen queries, each with a snapshot of its own; session state that outlives the transaction; error returns between | what nobody changes is extracted exactly; the connection is returned; the reported path is the database's |
| MySQL extractor | rows open on a pooled connection | `ExtractSchema`, `ListDatabases` | no transaction; a second connection asked for while the first is held; definitions the server withholds | as above; definitions belong to objects that existed; no deadlock on the pool |
| snapshot, JSON/YAML exporter | files | `TakeSnapshot`, `SaveSnapshot`, `LoadSnapshot`, `ListSnapshots`, `ValidateSnapshot`, `CompareSnapshots`, `ExportSnapshotSQL` | a save truncates the file in place; a crash cuts it short; checksums of values that change in a round trip | what is loaded or validated was once taken |
| SQL exporter (`exporter/sql.go`, `dialects.go`) | none | `ExportSQL` and one generator per kind | the order of the statements, the names they are written under, what is left out | running the script gives the exported schema, or fails visibly |
| filter (`filter/filter.go`) | a `FilterOptions` under construction | constructors, `With...` calls, `CombineFilters`, `FilterSchema` | options that replace and options that add; zero for no limit; lists united in a combination meant to restrict | a combination keeps what all keep; the copy holds what the options keep and nothing else |
| formatter | none | text, Markdown and JSON of a diff and of a plan | five hand-written walks over one diff | the reports show every planned operation and their totals agree |

## 2. Modules

| module | models | extends |
|---|---|---|
| `DependencyOrder` | the promise of `orderOperations`: operations come out one at a time, none before its dependencies; failure only on a cycle | |
| `Ordering` | `orderOperations`, one action per branch of the recursive closure `visit` | instantiates `DependencyOrder` |
| `Planner` | `AnalyzeStrategy` and `SortByRisk`; its ordering phase is the `Next` of `Ordering` | instantiates `Ordering` |
| `Compare` | `CompareSchemasDetailed` and everything it calls in `compare.go` | |
| `Report` | the lists and totals of the formatters, `CountChanges` | |
| `Migration` | a caller's way from two databases to a diff, a plan and the reports on them | extends `Compare` and `Report`, instantiates `Planner` |
| `Engines` | the registry, the choice of a comparer, the comparers of both engines | |
| `Lists` | the loop that keeps of a list what passes a test | |
| `Filter` | package `filter` | extends `Lists` |
| `SqlExport` | `exporter/sql.go` with its dialects, and a server that runs the script | extends `Lists` |
| `Dump` | filter, export and replay one after the other | extends `Filter`, instantiates `SqlExport` |
| `PgExtract` | `extractor/postgres` `ExtractSchema` on a pool, against DDL | |
| `MySqlExtract` | `extractor/mysql` `ExtractSchema` on a pool, against DDL | |
| `Snapshot` | package `snapshot` and the snapshot half of `exporter/exporter.go` | |
| `MC*` | the constants of the TLC runs | the module it checks |
| `OrderingProofs`, `PlannerProofs`, `CompareProofs`, `MySqlProofs`, `PgProofs`, `SnapshotProofs`, `DumpProofs` | theorems; `CompareProofs` also has the lemmas about `Report` | the module they are about |
| `MigrationProofs` | theorems about the composition | extends `Migration` and `CompareProofs`, instantiates `PlannerProofs` |

How state and actions correspond to the code:

* **Ordering.**  `visited`, `tempMark` and `ordered` are the local variables of those
  names.  The Go call stack of `visit` is the sequence `stack`; `cursor[id]` is the
  position of the `range` loop in the frame of `id`.  There is at most one frame per
  identifier, because `visit` returns at once on a marked one, and that is part of
  what is proved (`StackIsPath`).  The three ways through `visit` are `Circular`,
  `SkipDependency` and `VisitDependency`; `FinishVisit` is the tail after the loop.
* **Planner.**  `stage` and `at` are the converter and the loop position.  An
  operation identifier such as `table_1_col_0` is the tuple `<<"table", 2, "col", 1>>`.
  The switch statements that set risk and reversibility are the `...Rating` records.
  `NamesMissingObject` is the condition under which a description is formatted from a
  nil object.
* **Compare.**  Every `compareX` call is one action, and every iteration of the loops over
  schemas is one: the code has no other actor, and
  the nondeterminism that matters, the iteration order of its maps, is the choice of
  a sequence of the entries.  The two ranges, over the old map and then over the new
  one, keep their order.  Definitions of objects are abstract values that are equal
  or not; for a trigger it is the body, the only thing the code compares.
* **Migration.**  The result of `Compare` becomes the input of `Planner` by operators
  that read from an entry what the converters read (`handed`): its action, for a table
  the lists of changes, for a column whether it is required, for an enum whether values
  were added or removed.  `AfterPlan` carries out the planned operations on the old
  database.  `Report` is evaluated on the same diff and plan.  The identifiers in `Ids`
  bound the model: a diff that needs more of them is not planned (`Numbered`); the run
  has enough for every diff its inputs give.
* **Engines.**  A column type is what stands before, in and after its parenthesis; an expression is
  a sequence of tokens, and each normalising function is an operator on sequences, applied in the
  code's order; each package has its own list of keywords (`Capitals`).  `how` remembers by
  which call the engine was chosen.  Beside its text every object has a record `means` of what it
  means, one field per aspect, which the code never reads: the properties compare what the code says
  of two objects with what they mean.
* **Filter, SqlExport, Dump.**  A pattern is the set of names it matches.  A filter under
  construction is the last of `filters`; every method is an action on it.  A statement
  of a script is the set of identifiers it creates, those it needs, those that must not
  be there yet (none for `IF NOT EXISTS`, `OR REPLACE` and `COMMENT ON`) and whether it
  parses; the server runs them in order and keeps what succeeds.  Overloads and rules of
  one name are told apart by a signature, as the server does.  A table parses if a
  comma stands after each of its items but the last and no column has `DEFAULT
  AUTO_INCREMENT`, or `GENERATED` together with `DEFAULT`: the clauses of a column are
  those `GenerateColumnDDL` writes of the default the extractor gave it.
* **PgExtract, MySqlExtract.**  The server's catalog gives each object a version.
  A query copies the versions of the kinds it selects into `seen`, and the schema a
  call returns is assembled from `seen` by the code's joins in Go.  Each query is an
  action, so DDL may come between any two (`getForeignKeys` of MySQL makes two).  What
  the code gets wrong of an object nobody changes is a value of its own, which is no
  version: the foreign keys of a table one of whose the regular expression does not
  match (`ForeignKeysParsed`), the checks of a table one of which has a namesake in
  another database (`ChecksFound`).  `refused` holds the objects whose `SHOW CREATE` gave
  nothing without failing the call: a table's failed, an event's or routine's definition
  was NULL.  A connection is lent (`owner`) for as long
  as the code keeps a transaction or a `Rows` open; a query read to its end takes and
  returns one within its action, and is enabled only when one is free.
* **Snapshot.**  A file is missing, empty, cut short or whole.  `CreateFile` is `os.Create`,
  `WritePart` and `WriteRest` the encoder's writes, `Crash` a failed write or the death of the
  process.  One process at a time writes a file: `os.Create` takes no lock, so that is a bound of
  the model, and no property speaks of two.  The readers are operators.  A schema is the list of
  columns of each table, with the nil list and the empty one told apart, because their JSON differs
  (`null` and `[]`).  `engine` stands for all metadata fields that `ValidateSnapshot` wants to be
  present.

## 3. What TLC checks

Every run takes from a second to some two minutes.  Every property of a passing run is broken by a
mutant of the model that represents a plausible bug (`PROJECT.json`, `mutants`); the mutated forms
stand in the modules as "Faulty variant" operators that nothing else uses.

| run | question | bound, and why it is enough |
|---|---|---|
| `ordering` | Does the search order, lose nothing, fail exactly on cycles, end, and implement `DependencyOrder`? | all graphs on three operations and a missing one with up to two dependencies each, duplicates included; cycles of every length from 1 to 3, shared and dangling dependencies.  The safety part is proved for all sizes |
| `planner` | Is a returned plan exact, in emission order, with complete and consistent warnings? | every kind with up to two entries, every two kinds, altered tables with up to two changes in a list and two lists changed: identifiers can only clash within a kind or between two |
| `migration` | Does the diff reconcile, without superfluous entries, empty exactly when nothing differs?  Does carrying out its plan give the new database, and when is there a plan?  Do the reports show it? | each list through every pair of values of up to two objects with two definitions: the loops treat keys independently, so a third key adds nothing.  Schemas: up to three that come, go or stay.  Two overloads of a procedure: either alone, both in either order, both around another procedure, in all pairs.  Databases where everything of a table changes at once beside other kinds |
| `engines` | What does a comparison not see, what does it report without cause, whichever way the comparer is chosen? | for each engine, every pair of 17 (PostgreSQL) or 14 (MySQL) column types, of nine changed fields, of some twenty expressions in views and bodies (keywords of one engine and of both), of eight lists of overloads, and every field of ten other kinds of objects changed alone (of a sequence two at a time); other goroutines unregister and register two comparers at any moment |
| `dump` | What does a combination of filters keep; what does a script rebuild, in which dialect; when does it run? | two filters by every constructor and one call on them, four databases: PostgreSQL with most kinds and an overloaded function, PostgreSQL with two schemas, references forwards and a generated column, MySQL with foreign keys forwards and backwards and a counting column, and a MySQL whose script runs.  A third filter adds no new interaction: lists are united and limits are extremes |
| `pg_extract` | Is what nobody touched extracted exactly? Does every connection come back, every call return? | two goroutines that contend for one connection, one call each; one DDL statement between any two of their steps, creating, dropping or changing an object (two versions, full or empty catalog at first), two tables of which one has a foreign key that cannot be parsed; one failing statement; a release that refuses a query and one that does not |
| `mysql_extract` | The same without a transaction.  Do definitions belong to objects that existed, does every error have a cause, is the pool never exhausted? | two goroutines that each need two connections, three connections: the least number that suffices; a table with partitions and a homonymous check, a view, a procedure and an event that does not exist at first; one DDL statement or `DROP DATABASE`; one failing statement; any definition sent as NULL.  One version per object: what a query read is told from what it missed, and no property compares two definitions of one object |
| `snapshot` | Was what is loaded, listed or validated once taken?  Does what was saved validate? | two processes, one at a time to each file, a file under each of three extensions, two saves, one crash |

Bounds on counters (`MaxDDL`, `MaxVersion`, `MaxRuns`, `MaxFailures`, `MaxSaves`,
`MaxCrashes`) are constants of the modules and stand in the guards.  Deadlock checking
is off in every run: a call that has returned stops.

**Honest limits.**  `Planner` composes `Ordering`, but the only dependencies the
converters write name the operation of an altered table, which is never created: in
the program as it is, `orderOperations` sees dangling dependencies only.
`OrderIsEmissionOrder` states exactly that, and with it that nothing orders the drop of a
foreign key before the drop of the table it refers to.  The graphs of `ordering` are the contract
of the algorithm, not inputs the planner can reach today.  `DiffReconciles`,
`EmptyIffSame` and `PlanReconciles` say of overloaded procedures what the code does with them, which
is to lose most.  `UntouchedIsExact` of `PgExtract` excepts routines the name filters
confuse and foreign keys that cannot be parsed; that of `MySqlExtract` three parts of
untouched objects (`SourcesOf`); `EarlierKindsSuffice` tables with a column no server
accepts; `CombineIsIntersection` include lists that meet; `ReportedHasChanged` the
spellings a comparer does not know.  What is excepted is what the code gets wrong, and
is described in section 4: these properties say that nothing else is wrong.
`mysql_extract` shows that one more connection than goroutines suffices.  With fewer the
extraction can wait for ever (one goroutine and `SetMaxOpenConns(1)`, with an event or
a routine, is the smallest case); the extractor's documentation recommends a pool of
ten and promises nothing about this, so it is listed as a hazard and not as a finding.
`Snapshot` lets one process at a time write a file.  A call of MySQL that fails because
a listed object was dropped is permitted by `ErrorsHaveCause`; the property says that no
smaller cause fails a call.
`PlanReconciles` and `ReportShowsThePlan` name what the code leaves out, as
`UnreportedIsUnread` names what a comparer does not read: each is an equality or a
complete list, so that forgetting one thing more, or one thing less, breaks it.
In `Engines` columns, views and functions take every pair of values but one kind of
object at a time; a comparison of one never looks at the others.
`ClosedFilterReplays` assumes that the script of the whole database runs; of the four
databases those are two, cut in many ways.

### Fairness

`Ordering` runs on its caller's goroutine and blocks on nothing: weak fairness of its
`Next`.  In the extractors a goroutine that waits for a
connection is disabled and enabled again as others take and return it; `database/sql`
queues the requests and serves them in order, which justifies strong fairness of the
steps that need a connection (`GetSearchPath`, `BeginTx`, and the steps of a MySQL
call).  Nothing is assumed of failures, DDL, or of a goroutine calling at all.
The other modules state no liveness: they are loops
over lists that were built before.

## 4. Where code and documentation disagree

Each of these runs checks one property, a statement of the repository about itself, and
TLC finds it violated.  `PROJECT.json`, `findings`, has the quotations.

| run | what happens |
|---|---|
| `planner_drop` | a dropped sequence, function, procedure or event panics: its description is taken from the nil new object |
| `pg_snapshot` | the transaction runs at READ COMMITTED: a table may mix two versions |
| `pg_search_path` | `SET search_path` survives the commit on the pooled session and is reported by the next extraction |
| `dump_primary_key` | the script creates a table without its primary key: the comment says the column definition has it, and it has not |

Stated by a property of a passing run, which names the exception:

* `PlannedUnlessDropped`: when there is a plan (only a drop from a schema that both
  databases have panics; dropping the whole schema does not).
* `PlanReconciles`: a plan lacks the changes of primary keys, unique indexes, triggers,
  partitions, rules and properties of an altered table (`planner/strategy.go:297`), and
  all of a new schema but its tables (`comparer/compare.go:127`).
* `DiffReconciles`, `EmptyIffSame`, `PlanReconciles`: procedures are keyed by name
  (`comparer/compare.go:897`), so of overloads the last of the old list is compared with
  the last of the new one; the others are neither dropped nor created nor changed.
* `OrderIsEmissionOrder`: nothing orders the drop of a foreign key before the drop of
  another table.
* `SavedValidates`: a checksummed YAML snapshot with a nil list does not validate
  (`snapshot/snapshot.go:237`).
* `UnreportedIsUnread`, `ReportedHasChanged`: snapshots of MySQL, compared without options,
  have the blind spots of PostgreSQL's comparer: the stored `MYSQL` is tested for `mysql`
  (`snapshot/snapshot.go:125`; `snapshot/doc.go:41` says that `mysql` is stored).
  Of an index the direction and the prefix length of its columns are not compared (`comparer/engine/base/comparer.go:107`), of a
  trigger event and timing, of a partition its subpartitions
  (`comparer/compare.go:585`, 639), of a sequence its type; lengths of types that are no numbers, and
  with one the time zone and the array brackets, are no differences
  (`comparer/engine/postgres/comparer.go:229`); `UNSIGNED` is none
  (`comparer/engine/mysql/comparer.go:93`); doubled parentheses are removed by text, so
  a changed grouping is none (`comparer/engine/postgres/expression.go:118`); intervals
  are looked for after their casts were removed (`expression.go:105`).
* `CombineIsIntersection`: include lists of two filters are united, so the combination
  lets through more than each (`filter/filter.go:347`; the comment at 346 speaks of
  later filters taking precedence).
* `FilteredIsExact`: the copy has no rules (`filter/filter.go:97`).  The action
  `WithBadPattern` does nothing and `WithExcludeSchemas` replaces the system schemas of
  `ExcludeSystemSchemas`, as the code has it (261, 253).
* `UntouchedIsExact` of `MySqlExtract`, `DefinitionsAreReal`: a definition that `SHOW CREATE`
  sends as NULL, as to a user who may not see the body, is returned as an empty one without
  an error (`extractor/mysql/extractor.go:1273`, functions 1215, events 844;
  `extractor/mysql/README.md:280` calls it complete), and a script writes it as a lone `;`;
  the default partition counts of a table whose `SHOW CREATE` failed with a warning
  (`extractor/mysql/extractor.go:1020`), and the checks of a table when another database
  has a check of the same name, whose clause the join by names attaches to the table as
  well (588).  `UntouchedIsExact` of `PgExtract`: foreign keys between quoted names, left
  out with a warning (`extractor/postgres/extractor.go:699`).
* `ReplayRebuilds`, `EarlierKindsSuffice`: what a script leaves out (MySQL triggers, whose
  body alone is written, `exporter/sql.go:357`) and what fails in it (foreign keys to a
  table of another schema, whose name is quoted whole, 276; triggers, written before
  the functions they call, 210; tables with a column that has `GENERATED` with
  `DEFAULT`, or `DEFAULT AUTO_INCREMENT`, 253, and what builds on them).

Also met while modelling:

* `SortByRisk` (`planner/strategy.go:731`): an enum whose values are only reordered gets
  no risk level, and a level the map does not know sorts with the highest.
* `sortMetadataDiff` (`comparer/compare.go:1236`) sorts the schema and table lists only;
  the others keep the order of a map.  `TableOrderIsDetermined` is about tables.
* `getFunctions` (`extractor/postgres/extractor.go:1118`): a user's function that shares
  the name of an extension's is left out.  `UntouchedIsExact` excepts those.
* `getForeignKeys` of MySQL (`extractor/mysql/extractor.go:857`, 867) compares the
  database's name in small letters with the name as given.  The model has one database
  whose name is in small letters.
* `getTableColumns` and `getFunctions` name catalog columns that PostgreSQL 10 and 11 do
  not have, and `README.md:377` says "PostgreSQL 10+".  The releases of `pg_extract`
  are one on either side of that line.

The second CREATE entry for a new schema is not among the findings:
`comparer/compare_test.go` calls it expected behaviour.

## 5. What is proved

`tlapm` checks every theorem to the last leaf.  The constants are arbitrary, under the
assumptions named in the modules, which the runs evaluate as well.

**Ordering** (`OrderingProofs`), under `InputsAssumption`: operation lists are finite
sequences of distinct identifiers (the planner numbers its operations; `PlanIsExact`
checks that it does) and dependencies are finite sequences of identifiers.

* `SearchIsSound`: `Spec => [](TypeOK /\ SearchInv)`.  None of the properties is
  inductive alone: that a finished operation's dependencies precede it needs to know
  that what a frame has looked at is visited, which needs to know that an unvisited
  dependency met by the search is either new or on the stack.  `SearchInv` says so in
  six named parts: the stack is a dependency path whose identifiers are exactly the
  marked ones, each frame has visited what it has looked at except the one dependency
  it waits for, what is visited is closed under dependencies and, operations only, is
  what is emitted, the outer loop has left visited operations behind it, and a result
  is justified.  One lemma per action, one step per part.
* `DependenciesComeFirst`, `NoOperationLost` and `FailsExactlyOnCycles` follow from it.
  For the last one the stack from the repeated identifier upwards is the cycle; the
  other direction takes the member of a cycle that is emitted first.
* `SearchImplementsOrder`: the initial states and every step of `Ordering` are those of
  `DependencyOrder`, or stutter.

**Planner** (`PlannerProofs`), under `DiffsAssumption` (a diff has a list of every kind) and
`IdsAssumption` (there are identifiers for all its entries).  The invariant has four parts:

* `EmittedInv`: the operations are exactly what the converters made of the entries they
  have passed, under distinct identifiers.  That identifiers do not clash is seen from
  their first two components, the list and the position in it (`Owner`), which name the
  entry an operation was made of.
* `SearchInv`: the search never goes deeper than an operation and one dependency that is
  no operation, and what is ordered is a prefix of what was emitted.
* `RiskInv`: the warning lists hold exactly those of the operations looked at that
  are of high risk or lose data.
* `NamedInv`: no entry the converters have passed needed a description from an object
  that is not there, and a panic is at an entry that does.

From it `PlannerTypesHold`, `PlansAreExact` (no change is lost, doubled or invented),
`NothingIsReordered` (and no plan ever fails) and `RiskListsAlwaysAgree`: at the end the lists
of `RiskInv` are complete, and that they agree also
needs that every rating is proper: no creation is irreversible, nothing of high risk
is reversible.

**Compare** (`CompareProofs`), under `InputsAssumption`: what the extractors deliver, lists in which
no two objects have one key except the overloads of a procedure, and events only in a database of
one schema; an index is primary, unique or neither.  Keys and events matter: a key found twice would
lose an object, and the entries of events do not name a schema.  The invariant says that each list
of the result holds exactly the entries of the calls made so far (`ReportInv`, `SchemaInv`),
whatever the order of the maps, and that no two of them are about one object (`OneEntryPerObject`);
entries of two calls are about two schemas (`SchemasApart`). The sort is a permutation by a strict
order, for which the rank of an entry, the number of those before it, is a bijection (`Ranking`).
From it `DiffIsTyped`, `ObjectsAreReportedOnce`, `TablesComeInOneOrder` and, by lemmas on one list
(`ListReconciles`) and on one table (`AppliedTable`, `ChangesOfTable`), `DifferencesReconcile` and
`EmptyMeansAlike`.  Both hold for overloads as well: a list is compared as its map holds it
(`Indexed`), which is all of it but for procedures, where it is the last of each name
(`SeenIsIndexed`).  Two lists without entries hold the same (`NoEntriesSameLists`), and the converse
(`SameListsNoEntries`).

The module ends with lemmas about `Report`, which hold of any diff: what a flattened list
holds and how long it is (`FlattenFacts`, `FlattenInjective`), sums over positions
(`SumSteps`, `SumOfSums`), the lines of a section and of a report (`SectionFacts`,
`ReportFacts`), the totals (`TotalCounts`) and the counts by risk (`RisksAddUp`).

**Migration** (`MigrationProofs`), under the assumptions of `Compare` and
`ColumnAssumption`; those of `Planner` are not assumed but proved of what the comparison
hands over (`HandableFacts`, `ResultIsHanded`).  The planner proved correct is
`PlannerProofs` instantiated with `Read`, what the planner reads of an entry: the
converters, the ratings and the search give the same for `Read` as for the whole
entries (`SameDiffs`, `SameConverted`, `SameOrdering`), so each `PlanStep` is one of its
steps (`PlanStepIsStep`).  `MigrationInv` is the invariant of the comparison and, from the
call on, that the comparison is over, that each entry handed over is a form of the entry
at its position in the result (`Handed`), and the planner's invariant.

* `PlansExist`: planning never fails, and panics exactly when an entry drops a sequence,
  function, procedure or event (`PlannedUnlessNameless`), which is when one of them is
  missing in a new schema of the same name (`DroppedEntries`).
* `PlansReconcile`.  Every entry has its operation in a plan, every change of a column, index,
  foreign key or check of an altered table too, and the other lists of a table have none
  (`PlannedExactly`, `PlannedParts`).  An altered table is at one position of the table list
  (`IndexesOfTables`, which needs that a sorted list repeats no table), and the plan makes of it the
  `Midway` between old and new (`AlteredTable`, `SharedTable`); a table both databases have without
  an entry is its own `Midway` (`UnalteredTable`).  The lists of a schema both have follow in
  `TablesAfterPlan` and `ObjectsAfterPlan`, those of an added one in `TablesOfAdded` and
  `ObjectsOfAdded`.
* `ReportsShowPlans`.  A line is its place in the diff and an action, so lines at
  two places differ (`LinesDiffer`, `IdentifiersDiffer`) and no report repeats one.  The planned
  operations are the entries and the listed parts by the exactness of the plan
  (`LinesOfPlan`), the same lines the text report has apart from the headings of altered
  tables (`TextShowsPlan`, `HeadingsAre`).  The totals are sums of lengths over the same lists;
  that a section has as many lines as its tables have changes needs that only altered tables
  have parts, which holds of what the comparison hands over (`HandedIsReportable`).

**MySqlExtract** (`MySqlProofs`), under `PoolAssumption` (finite sets of goroutines and
connections) and `CatalogsAssumption` (what a first catalog may hold):

* `NoConnectionIsLost`, by the invariant `LoanInv` (a goroutine holds one
  connection exactly while it reads the rows of a list), and `OneConnectionIsLeft`, by
  the pigeonhole principle: with more connections than goroutines one is always free.
* `UntouchedIsExtracted`, `NoDefinitionIsMissing`, `NoCallFailsForNothing` and
  `ExtractionTypesHold`, by `ExactInv`: what a call has read of an untouched object is what
  it would read now (`ReadIsCurrent`), what it shows of one was read (`ShownIsCurrent`),
  and its position agrees with what it has read (`StepInv`).  `UntouchedIsExtracted` is
  about the parts `SourcesOf` names.  `NoCallFailsForNothing` is about steps: what a call
  has on its list and is gone was touched since (`MissingWasDropped`), and a call fails
  at no other step (`WhatFails`).

**PgExtract** (`PgProofs`), under `ObjectsAssumption` (every object lives in a schema, and
in a catalog an object's schema exists): `NoConnectionIsLost`, by `LoanInv` (a goroutine
holds one connection exactly while its transaction is open), and `UntouchedIsExtracted`,
by `ExactInv`.  That a finished call is exact is not inductive: it needs to know of every
query already made that what it returned of an untouched object is what it would return
now (`ReadIsCurrent`), of the phase that the position in the queries agrees with it
(`StepInv`), and of the catalog that no object outlives its schema (`SchemasExist`).
`TypesHold` follows from the same invariant.

**Snapshot** (`SnapshotProofs`), under `FilesAssumption` and `DatabasesAssumption` (every
file has an extension; databases are functions on a set of tables that is not empty):

* `JsonIsNeverCutShort` and `ChecksumsDetectCuts`, by `FileInv`: a whole file was taken,
  and what is left of a file agrees on the metadata with a snapshot taken.  The second
  one needs that a snapshot's checksum is the hash of its own schema, and, as everywhere
  in this model, that a hash has no collisions.
* `SavesAreLoaded` and `SavesValidateUnlessNil`, by `SavedInv`: a file whose save was
  confirmed is whole, holds the snapshot confirmed, and nobody is writing it.  Other
  processes may do what they like to other files; two that write one file at once are
  outside the model (`CreateFile`).  The
  second one compares the checksum of the schema before the write with the hash of the
  schema after the round trip, and needs that the two differ as soon as one list is nil.
* `SnapshotTypesHold`.

**Dump** (`DumpProofs`), under `FilterAssumption` and `DumpAssumption` (sizes are natural numbers,
the lists of the options are finite, a schema has a list of every kind and a table lists of its
parts) and `NamesAssumption`: what the engines keep unique, the schemas of a database, extensions,
the objects of a schema of one kind, name and signature, and the indexes and triggers of a table,
stands once in its lists.  A database of MySQL is one schema (`extractor/mysql/extractor.go:151`);
one of PostgreSQL has the named ones of `pg_namespace` (`extractor/postgres/extractor.go:201`).  All
theorems are about `DumpSpec`, the filter, the export and the replay one after the other.

* `CombinationIsIntersection`.  The invariant is that every option is well formed
  whatever was called on it; the rest is about `CombineFilters` alone.  That the combined
  lower limit is the largest one needs that finitely many sizes have a largest: without
  induction, by the least bound, and that a bound exists by the least position up to which
  there is none.
* `FilteredCopyIsExact`: what was filtered is what `FilterSchema` makes of the database
  (`FilteredInv`), a loop keeps exactly what passes (`KeptMembers`), so a copy holds
  what the options keep (`CopyHolds`).
* `ScriptsRebuild` and `EarlierKindsAreEnough`.  `RunInv` says that the server has what the
  statements run so far leave and which of them failed, by the recursion `Ran`.  What a script makes
  is counted list by list (`MadeByTable`, `MadeBySchema`, `ScriptMakes`); if nothing fails it is
  what is left (`AllSucceeded`).  That no two statements make the same (`Apart`) is carried from
  lists to their concatenations (`JoinedApart`, `FlattenApart`): two parts that share no identifier
  are apart, and two objects that share one are of one kind, schema, name and signature, hence one
  object (`UniqueObjects`), within a table (`TableApart`), a kind (`KindApart`), a schema
  (`SchemaApart`) and a database (`SchemasApart`, `ScriptApart`), and in the filtered copy as in the
  original (`CopyOf`).  So no statement finds its object made by an earlier one, which the server
  would refuse.  For the second theorem a script is run part by part (`RanJoined`, `FlattenRuns`):
  what was there stays (`RanGrows`), a statement whose needs were there before its part is carried
  out or finds what it makes already there (`NeedlessSucceeds`), and a table parses if the server
  accepts its columns (`TableParses`), so each part creates what `Grounded` adds at its level
  (`KindIsCreated`, `SchemaIsGrounded`).
* `ClosedFiltersReplay`.  The whole script succeeds, so each name a statement of the copy needs was
  made before that statement in the whole script (`CleanIsSuccess`).  The copy makes it
  too, and objects that share an identifier are of one kind, schema and name (`UniqueNames`,
  `SharedId`), so a filter keeps all of them or none (`LeftOutObject`, `LeftOutSchema`) and what is left
  out makes nothing the copy needs; a copy keeps the order of what it keeps (`KeptFollow`,
  `KindFollows`, `SchemaFollows`, `DatabaseFollows`), so the name is made before it is needed
  there as well.  `MadeIsExported` ties what a script makes to what the dialect exports.
* Recursive functions on positions are unfolded by one lemma (`RecursionExists`), and what
  holds at each position by another (`EveryPosition`), both by the least counterexample:
  the library's induction theorems need an operator as an argument.

Only model-checked: liveness (`Terminates` of `Ordering`, `EveryCallReturns` of the
extractors), because the prover has no rule for fairness over these actions, and with it the
fairness part of the refinement; and `UnreportedIsUnread` and `ReportedHasChanged` of
`Engines`: they compare what the code says of two objects with what the model says
they mean, which is given object by object and not by a rule, so there is nothing to
prove about any other object; besides, the removal of parentheses is a RECURSIVE operator, which
the prover does not read.

## 6. What is not modelled, and why

* **Reports on a strategy, layout, JSON of a diff**: the first repeats the order of the
  plan, the others have no choice in them.
* **The text of columns, indexes and options in a script**: left out of the statements,
  but for the clauses of a column that exclude each other.
* **`ListDatabases`, `WithRunAnalyze`**: a query, and a loop of statements whose
  errors are logged; neither touches the state of an extraction.
* **Parsing in the extractors**: how a default, a comment, a partition's expression or a
  foreign key's columns are cut out of what the server sends.  Modelled of it are the
  foreign keys PostgreSQL's regular expression does not match, and what MySQL's defaults
  of counting and generated columns make of a script.
* **Two processes that write one file at once**.
* **`ListEngines`, `Has`**: they read only, and nothing calls them.
* **Schema types**: declarations, abstracted in every module.
* **Examples and scripts**.

Behaviour of things outside the repository (the servers, `database/sql`, `yaml.v3`,
the file system) is modelled from how the code uses it and marked external in the map.

## 7. Plan

Done, in this order: `Ordering` with its promise and its proof, `Planner`, `Compare`,
the two extractors, `Snapshot`, the proofs about both extractors and about snapshots,
`Migration` and `Report`, `Engines`, `Filter`, `SqlExport` and `Dump`, the proofs about
`Planner`, `Compare`, the exactness of the MySQL extraction, filters and scripts,
the proofs about `Migration`, which join those about `Compare` and `Planner`, those about
closed filters and the reports, and the theorems on reconciliation for overloaded
procedures.

Next: `ListDatabases` and `WithRunAnalyze` as actions of the extractors.

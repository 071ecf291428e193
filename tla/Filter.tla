------------------------------- MODULE Filter -------------------------------
(***************************************************************************)
(* package filter: options are built by calls on them, combined, and       *)
(* applied to an extracted database.  A database is a list of schemas, a   *)
(* schema one list of objects per kind.  A pattern is the set of names its *)
(* regular expression matches.  Of the lists of an option only the members *)
(* and the emptiness matter, so they are sets here, and the removal of     *)
(* duplicates in CombineFilters does nothing more.                         *)
(***************************************************************************)
EXTENDS Lists, FiniteSets, SequencesExt, FiniteSetsExt

CONSTANTS
    Databases,      \* the databases that may be filtered
    SchemaLists,    \* lists of schema names a caller may pass
    Patterns,       \* the names a pattern matches, for each that compiles
    Sizes,          \* table sizes in bytes a caller may pass
    SystemSchemas,  \* the schemas ExcludeSystemSchemas names
    TestPatterns,   \* the patterns of ExcludeTestTables
    MaxFilters,     \* bound: options built
    MaxCalls        \* bound: calls on them after their construction

\* The lists of a schema.
Kinds == {"table", "view", "mview", "function", "procedure", "sequence", "extension",
          "enum", "event", "rule"}

\* The size of a table is a count of bytes; a schema has a list of every kind.
IsList(list) == list \in Seq(ToSet(list))
ASSUME FilterAssumption ==
    /\ Sizes \subseteq Nat
    /\ IsFiniteSet(SystemSchemas)
    /\ \A l \in SchemaLists : IsFiniteSet(l)
    /\ MaxFilters \in Nat /\ MaxCalls \in Nat
    /\ \A d \in Databases :
        /\ IsList(d)
        /\ \A i \in DOMAIN d :
            /\ d[i] = [name |-> d[i].name, lists |-> [k \in Kinds |-> d[i].lists[k]]]
            /\ \A k \in Kinds : IsList(d[i].lists[k])
            /\ \A t \in ToSet(d[i].lists["table"]) : t.size \in Nat

VARIABLES
    db,         \* the database to filter
    filters,    \* the options built so far; calls go to the last
    calls,      \* how many calls were made
    opts,       \* what FilterSchema was called with
    filtered,   \* what it returned
    step        \* "building" or "filtered"

vars == <<db, filters, calls, opts, filtered, step>>

\* A nil *FilterOptions.
Nil == [nil |-> TRUE]

-----------------------------------------------------------------------------
(***************************************************************************)
(* Filtering.                                                              *)
(***************************************************************************)
MatchesAnyPattern(name, patterns) == \E p \in patterns : name \in p

\* Excludes first; no include pattern means all.
Selected(name, include, exclude) ==
    /\ ~MatchesAnyPattern(name, exclude)
    /\ include # {} => MatchesAnyPattern(name, include)

ShouldIncludeSchema(name, o) ==
    /\ name \notin o.excludeSchemas
    /\ o.includeSchemas # {} => name \in o.includeSchemas

\* A limit of zero is none.
WithinSize(size, o) ==
    /\ o.minSize > 0 => size >= o.minSize
    /\ o.maxSize > 0 => size <= o.maxSize

FilterTables(tables, o) ==
    KeepOnly(tables, {t \in ToSet(tables) :
                        /\ Selected(t.name, o.includeTables, o.excludeTables)
                        /\ WithinSize(t.size, o)})
FilteredViews(views, o) ==
    {v \in ToSet(views) : Selected(v.name, o.includeViews, o.excludeViews)}
\* Faulty variant: what is kept is put in front of what was kept before.
FilterViewsReversed(views, o) == Reverse(KeepOnly(views, FilteredViews(views, o)))
FilterViews(views, o) == KeepOnly(views, FilteredViews(views, o))
FilterFunctions(functions, o) ==
    KeepOnly(functions, {f \in ToSet(functions) :
                            Selected(f.name, o.includeFunctions, o.excludeFunctions)})

\* The other lists are kept, but the copy gets no rules.
FilterLists(lists, o) ==
    [lists EXCEPT !["table"] = FilterTables(@, o), !["view"] = FilterViews(@, o),
                  !["mview"] = FilterViews(@, o), !["function"] = FilterFunctions(@, o),
                  !["rule"] = <<>>]
FilterSchemaObjects(s, o) == [s EXCEPT !.lists = FilterLists(@, o)]

\* Faulty variant: only tables and views are looked at.
IsSchemaEmptyOfTables(s) == s.lists["table"] = <<>> /\ s.lists["view"] = <<>>
\* Rules are not looked at.
IsSchemaEmpty(s) == \A k \in Kinds \ {"rule"} : s.lists[k] = <<>>

FilterSchema(d, o) ==
    IF o = Nil THEN d
    ELSE LET included == KeepOnly(d, {s \in ToSet(d) : ShouldIncludeSchema(s.name, o)})
             copies == [i \in DOMAIN included |-> FilterSchemaObjects(included[i], o)]
         IN  KeepOnly(copies, {s \in ToSet(copies) : o.removeEmpty => ~IsSchemaEmpty(s)})

-----------------------------------------------------------------------------
(***************************************************************************)
(* Options and their combination.                                          *)
(***************************************************************************)
NewFilterOptions ==
    [nil |-> FALSE, includeSchemas |-> {}, excludeSchemas |-> {},
     includeTables |-> {}, excludeTables |-> {}, includeViews |-> {}, excludeViews |-> {},
     includeFunctions |-> {}, excludeFunctions |-> {},
     minSize |-> 0, maxSize |-> 0, removeEmpty |-> TRUE]

Given(fs) == {fs[i] : i \in {i \in DOMAIN fs : fs[i] # Nil}}

\* The largest lower limit and the smallest upper one; zero is no limit.
MinSizeOf(options) ==
    IF options = {} THEN 0
    ELSE CHOOSE m \in {o.minSize : o \in options} : \A o \in options : o.minSize <= m
MaxSizesOf(options) == {o.maxSize : o \in options} \ {0}
\* Faulty variant: zero is taken for the smallest limit.
MaxSizeOrNone(options) ==
    IF options = {} THEN 0
    ELSE CHOOSE m \in {o.maxSize : o \in options} : \A o \in options : m <= o.maxSize
MaxSizeOf(options) ==
    IF MaxSizesOf(options) = {} THEN 0
    ELSE CHOOSE m \in MaxSizesOf(options) : \A n \in MaxSizesOf(options) : m <= n
\* The flag of the last of the options that is not nil.
LastRemoveEmpty(fs) ==
    LET given == {i \in DOMAIN fs : fs[i] # Nil}
    IN  IF given = {} THEN TRUE
        ELSE fs[CHOOSE i \in given : \A j \in given : j <= i].removeEmpty

CombineFilters(fs) ==
    LET given == Given(fs)
    IN  [nil |-> FALSE,
         includeSchemas |-> UNION {o.includeSchemas : o \in given},
         excludeSchemas |-> UNION {o.excludeSchemas : o \in given},
         includeTables |-> UNION {o.includeTables : o \in given},
         excludeTables |-> UNION {o.excludeTables : o \in given},
         includeViews |-> UNION {o.includeViews : o \in given},
         excludeViews |-> UNION {o.excludeViews : o \in given},
         includeFunctions |-> UNION {o.includeFunctions : o \in given},
         excludeFunctions |-> UNION {o.excludeFunctions : o \in given},
         minSize |-> MinSizeOf(given), maxSize |-> MaxSizeOf(given),
         removeEmpty |-> LastRemoveEmpty(fs)]

-----------------------------------------------------------------------------
(***************************************************************************)
(* The calls of a caller.                                                  *)
(***************************************************************************)
Init ==
    /\ db \in Databases
    /\ filters = <<>>
    /\ calls = 0
    /\ opts = Nil
    /\ filtered = <<>>
    /\ step = "building"

FilterBySchema(l) == [NewFilterOptions EXCEPT !.includeSchemas = l]
FilterBySize(min, max) == [NewFilterOptions EXCEPT !.minSize = min, !.maxSize = max]
\* FilterByPrefix and FilterBySuffix: one include pattern.
FilterByPattern(p) == [NewFilterOptions EXCEPT !.includeTables = {p}]
ExcludeSystemSchemas == [NewFilterOptions EXCEPT !.excludeSchemas = SystemSchemas]
ExcludeTestTables == [NewFilterOptions EXCEPT !.excludeTables = TestPatterns]

Constructors ==
    {NewFilterOptions, ExcludeSystemSchemas, ExcludeTestTables}
        \cup {FilterBySchema(l) : l \in SchemaLists}
        \cup {FilterByPattern(p) : p \in Patterns}
        \cup {FilterBySize(min, max) : min \in Sizes, max \in Sizes}

\* A new filter, or a nil one, for the list given to CombineFilters.
Construct ==
    /\ step = "building" /\ Len(filters) < MaxFilters
    /\ \E o \in Constructors \cup {Nil} : filters' = Append(filters, o)
    /\ UNCHANGED <<db, calls, opts, filtered, step>>

\* A call on the newest filter.
Called(o) ==
    /\ step = "building" /\ calls < MaxCalls
    /\ filters # <<>> /\ Last(filters) # Nil
    /\ filters' = [filters EXCEPT ![Len(filters)] = o]
    /\ calls' = calls + 1
    /\ UNCHANGED <<db, opts, filtered, step>>

\* These two replace what was set before, by a constructor too.
WithIncludeSchemas ==
    \E l \in SchemaLists : Called([Last(filters) EXCEPT !.includeSchemas = l])
WithExcludeSchemas ==
    \E l \in SchemaLists : Called([Last(filters) EXCEPT !.excludeSchemas = l])
\* These two add to it.
WithIncludeTablesPattern ==
    \E p \in Patterns : Called([Last(filters) EXCEPT !.includeTables = @ \cup {p}])
WithExcludeTablesPattern ==
    \E p \in Patterns : Called([Last(filters) EXCEPT !.excludeTables = @ \cup {p}])
\* A pattern that does not compile is ignored, and no error is returned.
WithBadPattern == Called(Last(filters))
WithTableSizeRange ==
    \E min \in Sizes, max \in Sizes :
        Called([Last(filters) EXCEPT !.minSize = min, !.maxSize = max])
WithRemoveEmptySchemas ==
    \E remove \in BOOLEAN : Called([Last(filters) EXCEPT !.removeEmpty = remove])
\* The other lists have no call: the caller sets the fields.
SetPatterns ==
    \E p \in Patterns, list \in {"includeViews", "excludeViews", "includeFunctions",
                                 "excludeFunctions"} :
        Called([Last(filters) EXCEPT ![list] = {p}])

\* FilterSchema, with the only filter or with the combination of all.
Apply ==
    /\ step = "building"
    /\ opts' \in {CombineFilters(filters)} \cup
                 (IF Len(filters) = 1 THEN {filters[1]} ELSE {})
    /\ filtered' = FilterSchema(db, opts')
    /\ step' = "filtered"
    /\ UNCHANGED <<db, filters, calls>>

Next ==
    \/ Construct \/ WithIncludeSchemas \/ WithExcludeSchemas
    \/ WithIncludeTablesPattern \/ WithExcludeTablesPattern \/ WithBadPattern
    \/ WithTableSizeRange \/ WithRemoveEmptySchemas \/ SetPatterns \/ Apply

Spec == Init /\ [][Next]_vars

-----------------------------------------------------------------------------
\* The objects of a database, each with its place.
Objects(d) ==
    UNION {UNION {{<<d[i].name, k, x>> : x \in ToSet(d[i].lists[k])} : k \in Kinds} :
           i \in DOMAIN d}
SchemasOf(d) == {d[i].name : i \in DOMAIN d}

\* Whether options let object x of a kind in a schema through.
Keeps(o, schema, kind, x) ==
    /\ ShouldIncludeSchema(schema, o)
    /\ kind = "table" =>
        Selected(x.name, o.includeTables, o.excludeTables) /\ WithinSize(x.size, o)
    /\ kind \in {"view", "mview"} => Selected(x.name, o.includeViews, o.excludeViews)
    /\ kind = "function" => Selected(x.name, o.includeFunctions, o.excludeFunctions)

\* Two of the options have include lists for the same kind of objects.
IncludesClash(options) ==
    \E o, p \in options : o # p /\
        \/ o.includeSchemas # {} /\ p.includeSchemas # {}
        \/ o.includeTables # {} /\ p.includeTables # {}
        \/ o.includeViews # {} /\ p.includeViews # {}
        \/ o.includeFunctions # {} /\ p.includeFunctions # {}

\* What every one of the filters keeps, their combination keeps; and it keeps nothing
\* else unless two have include lists for the same kind, which are united
\* (filter.go 345-386).
CombineIsIntersection ==
    \A x \in Objects(db) :
        LET combined == Keeps(CombineFilters(filters), x[1], x[2], x[3])
            byAll == \A o \in Given(filters) : Keeps(o, x[1], x[2], x[3])
        IN  /\ byAll => combined
            /\ combined /\ ~IncludesClash(Given(filters)) => byAll

\* The result holds every object the options keep, rules excepted, and no other; a
\* schema is left out if the options exclude it or, when they say so, if nothing is
\* left in it, and not otherwise (filter.go 42-106).
FilteredIsExact ==
    step = "filtered" /\ opts # Nil =>
        /\ Objects(filtered) = {x \in Objects(db) : x[2] # "rule" /\ Keeps(opts, x[1], x[2], x[3])}
        /\ SchemasOf(filtered) =
                {s \in SchemasOf(db) : /\ ShouldIncludeSchema(s, opts)
                                       /\ opts.removeEmpty => \E x \in Objects(filtered) : x[1] = s}
==============================================================================

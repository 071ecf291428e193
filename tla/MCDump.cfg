SPECIFICATION DumpSpec
CONSTANTS
    Databases <- MCDatabases
    MySqlDatabases <- MCMySqlDatabases
    SchemaLists <- MCSchemaLists
    Patterns <- MCPatterns
    Sizes <- MCSizes
    SystemSchemas <- MCSystemSchemas
    TestPatterns <- MCTestPatterns
    MaxFilters = 2
    MaxCalls = 1
INVARIANTS
    CombineIsIntersection
    FilteredIsExact
    ReplayRebuilds
    EarlierKindsSuffice
    ClosedFilterReplays
CHECK_DEADLOCK FALSE

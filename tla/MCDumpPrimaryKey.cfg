SPECIFICATION DumpSpec
CONSTANTS
    Databases <- MCDatabases
    MySqlDatabases <- MCMySqlDatabases
    SchemaLists <- MCSchemaLists
    Patterns <- MCPatterns
    Sizes <- MCSizes
    SystemSchemas <- MCSystemSchemas
    TestPatterns <- MCTestPatterns
    MaxFilters = 2
    MaxCalls = 1
INVARIANT
    PrimaryKeysRecreated
CHECK_DEADLOCK FALSE

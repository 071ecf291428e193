CONSTANTS
    p1 = p1
    p2 = p2
    json = json
    yaml = yaml
    plain = plain
    t1 = t1
    t2 = t2
    Savers = {p1, p2}
    Files = {json, yaml, plain}
    ExtOf <- MCExtOf
    Tables <- MCTables
    Databases <- MCDatabases
    MaxSaves = 2
    MaxCrashes = 1
SPECIFICATION Spec
INVARIANTS
    TypeOK
    SavedIsLoaded
    JsonIsWholeOrRefused
    ValidatedWasTaken
    SavedValidates
CHECK_DEADLOCK FALSE

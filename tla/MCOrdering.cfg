CONSTANTS
    a = a
    b = b
    c = c
    missing = missing
    Id <- MCId
    Lists <- MCLists
    DepLists <- MCDepLists
SPECIFICATION Spec
INVARIANTS
    TypeOK
    DependenciesFirst
    EachOperationOnce
    CircularIffCycle
PROPERTIES
    Terminates
    ImplementsPromise
CHECK_DEADLOCK FALSE

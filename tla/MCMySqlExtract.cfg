CONSTANTS
    p1 = p1
    p2 = p2
    c1 = c1
    c2 = c2
    c3 = c3
    t = t
    v = v
    e = e
    r = r
    Objects <- MCObjects
    KindOf <- MCKindOf
    Partitioned <- MCPartitioned
    Homonyms <- MCHomonyms
    Procs = {p1, p2}
    Conns = {c1, c2, c3}
    Catalogs <- MCCatalogs
    MaxVersion = 1
    MaxDDL = 1
    MaxRuns = 1
    MaxFailures = 1
SPECIFICATION Spec
INVARIANTS
    UntouchedIsExact
    DefinitionsAreReal
    ConnectionsAreReturned
    PoolNeverExhausted
PROPERTIES
    ErrorsHaveCause
    EveryCallReturns
CHECK_DEADLOCK FALSE

CONSTANTS
    p1 = p1
    p2 = p2
    c1 = c1
    s = s
    t = t
    q = q
    v = v
    extf = extf
    userf = userf
    otherf = otherf
    Procs = {p1, p2}
    Conns = {c1}
    Objects <- MCObjects
    KindOf <- MCKindOf
    SchemaOf <- MCSchemaOf
    NameOf <- MCNameOf
    Owned <- MCOwned
    SystemNames = {}
    Unparsed <- MCUnparsed
    Catalogs <- AnyCatalog
    Releases = {11, 16}
    MaxVersion = 2
    MaxDDL = 1
    MaxRuns = 1
    MaxFailures = 1
SPECIFICATION Spec
INVARIANTS
    TypeOK
    UntouchedIsExact
    ConnectionsAreReturned
PROPERTIES
    EveryCallReturns
CHECK_DEADLOCK FALSE

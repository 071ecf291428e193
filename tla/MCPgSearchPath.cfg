CONSTANTS
    p1 = p1
    p2 = p2
    c1 = c1
    s = s
    t = t
    q = q
    v = v
    extf = extf
    userf = userf
    otherf = otherf
    Procs = {p1}
    Conns = {c1}
    Objects <- MCObjects
    KindOf <- MCKindOf
    SchemaOf <- MCSchemaOf
    NameOf <- MCNameOf
    Owned <- MCOwned
    SystemNames = {}
    Unparsed <- MCUnparsed
    Catalogs <- AnyCatalog
    Releases = {16}
    MaxVersion = 1
    MaxDDL = 0
    MaxRuns = 2
    MaxFailures = 0
SPECIFICATION Spec
INVARIANTS
    SearchPathIsReported
CHECK_DEADLOCK FALSE

CONSTANTS
    Ids <- MCIds
    Diffs <- MCDiffs
SPECIFICATION Spec
INVARIANTS
    TypeOK
    PlanIsExact
    OrderIsEmissionOrder
    RiskListsAgree
CHECK_DEADLOCK FALSE

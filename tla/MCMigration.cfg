CONSTANTS
    Inputs <- MCInputs
    Ids <- MCIds
    NotNullDefs <- MCNotNullDefs
    DefaultDefs = {}
SPECIFICATION MigrationSpec
INVARIANTS
    TypeOK
    DiffReconciles
    OneEntryPerObject
    TableOrderIsDetermined
    EmptyIffSame
    PlanReconciles
    PlannedUnlessDropped
    ReportShowsThePlan
CHECK_DEADLOCK FALSE

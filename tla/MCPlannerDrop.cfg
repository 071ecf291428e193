CONSTANTS
    Ids <- MCIds
    Diffs <- MCDiffs
SPECIFICATION Spec
INVARIANTS
    DropsArePlanned
CHECK_DEADLOCK FALSE

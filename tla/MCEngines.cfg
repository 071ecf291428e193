CONSTANTS
    Pairs <- MCPairs
    Replaced = {"TIDB", "POSTGRES"}
    Words <- MCWords
    Capitals <- MCCapitals
    Unquoted <- MCUnquoted
    Squeezed <- MCSqueezed
SPECIFICATION Spec
INVARIANTS
    UnreportedIsUnread
    ReportedHasChanged
CHECK_DEADLOCK FALSE

SPECIFICATION LineSpec
CONSTANTS
    Sessions <- MCSessions
    MaxFailures = 1
INVARIANTS AsMeant LinesKept RowsTell FileHasRow
CHECK_DEADLOCK FALSE

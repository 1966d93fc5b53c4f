SPECIFICATION Spec
CONSTANTS
    MaxLines = 4
    MaxPieces = 2
INVARIANTS FilesRight
PROPERTIES IsRelay Ends
CHECK_DEADLOCK FALSE

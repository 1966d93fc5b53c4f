SPECIFICATION Spec
CONSTANTS
    Streams <- MCStreams
INVARIANTS NeverOverfull BodyStored RestStored RowsShareResponse
CHECK_DEADLOCK FALSE

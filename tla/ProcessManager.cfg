SPECIFICATION FairSpec
CONSTANTS
    Pids = {p1, p2, p3}
    MaxListed = 4
INVARIANTS HeadSafe Registered
PROPERTIES WalkComplete PermanentSpared HandlersEnd
CHECK_DEADLOCK FALSE

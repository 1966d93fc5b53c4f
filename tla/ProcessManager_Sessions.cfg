SPECIFICATION Spec
CONSTANTS
    Pids = {p1, p2, p3}
    MaxListed = 3
PROPERTIES SessionsKilled
CHECK_DEADLOCK FALSE

SPECIFICATION Spec
CONSTANTS
    Controls = {c1, c2}
    Transfers = {d1, d2}
    Ports = {p1}
    MaxAnnounced = 2
INVARIANTS Consumed CommandKnown
PROPERTIES LostOnDuplicate
CHECK_DEADLOCK FALSE
SYMMETRY Symmetry

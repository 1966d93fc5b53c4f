SPECIFICATION Spec
CONSTANTS
    Clients = {c1, c2}
    Names = {n1, n2}
    Garbage = garbage
    MaxDatagrams = 3
INVARIANTS AnswersRight RowsRight
PROPERTIES Answered
CHECK_DEADLOCK FALSE

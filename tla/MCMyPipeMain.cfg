SPECIFICATION Spec
CONSTANTS
    NONE = NONE
    THRNUM = 2
    Thread = {0, 1, 2}
    ARR_SIZE = 5
    Item = {1, 2, 3, 4, 5}
    WRITE_NUM = 1
    MAXSIZE = 6
CHECK_DEADLOCK FALSE
INVARIANTS
    AllTested
PROPERTIES
    EndsUnlessLate

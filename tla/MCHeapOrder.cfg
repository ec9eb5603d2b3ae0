SPECIFICATION Spec
CONSTANTS
    NULL = NULL
    Timer = {1, 2, 3}
    N = 3
    Timeouts = {0, 2, 3}
    MaxLeft = 5
    MaxLate = 3
CHECK_DEADLOCK FALSE
INVARIANTS
    HeapTopEarliest

SPECIFICATION Spec
CONSTANTS
    NULL = NULL
    Timer = {1, 2, 3, 4}
    N = 3
    Timeouts = {0, 3}
    MaxLeft = 5
    MaxLate = 3
CHECK_DEADLOCK FALSE
INVARIANTS
    ListExact
    WheelOnTime
    HeapKeeps

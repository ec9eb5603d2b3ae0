SPECIFICATION Spec
CONSTANTS
    NULL = NULL
    Worker = {w1, w2}
    Job = {j1, j2, j3}
CHECK_DEADLOCK FALSE
INVARIANTS
    CellsOwned
    PromiseKept
PROPERTIES
    JobsRun
    DestroyEnds
    IsJobPool

SPECIFICATION Spec
CONSTANTS
    NULL = NULL
    Job = {j1, j2}
    Thread = {t1, t2}
    JOB_MAX = 1
    Secs = {0, 2}
INVARIANTS
    TableSound
    
    
    LocksReturned
PROPERTIES
    WaitEnds

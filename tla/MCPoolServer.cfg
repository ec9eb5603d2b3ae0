SPECIFICATION Spec
CONSTANTS
    NONE = NONE
    Pid = {p1, p2, p3, p4}
    MAXCLIENT = 3
    MINSEPARATE = 2
    MAXSEPARATE = 2
    MaxClients = 2
    MaxDeaths = 1
CHECK_DEADLOCK FALSE
INVARIANTS
    TypeOK
    OwnSlot
    OverflowNeedsRace
PROPERTIES
    PoolRecovers

SPECIFICATION Spec
CONSTANTS
    Bucket = {1, 2}
    LISTSIZE = 2
    NR_CHN = 2
    CPS = 1
    BURST = 2
    NULL = NULL
    MaxWindow = 0
    NFILES = 1
    BUFSIZE = 2
CHECK_DEADLOCK FALSE
INVARIANTS
    TypeOK
    FreedAfterUse
    BytesPaidFor
PROPERTIES
    ChannelServed
    ShutdownEnds

SPECIFICATION ServerSpec
CONSTANTS
    NULL = NULL
    LISTEN = LISTEN
    PIPE = PIPE
    Timer = {t1, t2}
    Fd = {1, 2}
    TIMESLOT = 1
    MaxInt = 1
    MaxBacklog = 1
    MaxUnread = 2
    MaxAhead = 1
CHECK_DEADLOCK FALSE
INVARIANTS
    TimersMatch
    DiesOnlyOnReplay
PROPERTIES
    SilentClosed
    StopsOnInt

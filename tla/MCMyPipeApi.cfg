SPECIFICATION ApiSpec
CONSTANTS
    NONE = NONE
    Item = {a, b}
    Readers = {r1, r2}
    Writers = {w1, w2}
    Thread = {r1, r2, w1, w2}
    MAXSIZE = 3
    Counts = {1, 3}
    MaxItems = 3
SYMMETRY MCSymmetry
CHECK_DEADLOCK FALSE
INVARIANTS
    RingHoldsLog
    SleepersHaveReason
    PartnerExists
PROPERTIES
    ImplementsFifo

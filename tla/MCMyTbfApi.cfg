SPECIFICATION ApiSpec
CONSTANTS
    NULL = NULL
    Bucket = {b1, b2, b3}
    Thread = {t1, t2}
    Sizes = {1, 2}
    NR_CHN = 2
    CPS = 1
    BURST = 2
    MaxWindow = 1
SYMMETRY MCSymmetry
INVARIANTS
    RateLimited
    TableSound
    NoSleepBesideTokens

SPECIFICATION Spec
CONSTANTS
    JUNK = JUNK
    NR_CHN = 5
    ListSizes = {2, 5}
    CHAR_MAX = 3
    SockBuf = 2
    Numbers <- MCNumbers
    MaxLines = 2
INVARIANTS
    PlaysOneTyped
PROPERTIES
    ChoiceHeard

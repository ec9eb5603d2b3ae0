SPECIFICATION Spec
CONSTANTS
    THRNUM = 5
    NUM = 2
INVARIANTS
    BoundedConcurrency
    SleeperHasWaker
PROPERTIES
    MainExits

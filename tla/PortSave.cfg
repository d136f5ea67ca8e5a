SPECIFICATION Spec
CONSTANTS
    Readers = 1
    Lag <- SaveLag
    Size = 3
    Redundant = {}
    ReadsFirst = {}
    Start = 0
    Stop = 6
INVARIANT SavedUnderItsLag
CHECK_DEADLOCK FALSE

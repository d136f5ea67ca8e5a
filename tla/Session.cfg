SPECIFICATION MCSpec
CONSTANTS
    Voices = 3
    Feeds <- Chain
    Lag = 0
    Samples = 1
    MaxTroubles <- TwoInTheMiddle
INVARIANTS NothingUnderWay ErrorsHaveACause
PROPERTIES ImplementsBarrier FailureReachesAll EverybodyLeaves
CHECK_DEADLOCK FALSE

SPECIFICATION FairSpec
CONSTANTS
    Peers = 1
    RingSize = 2
    Lag <- OneLag
    PushDataMaxItems = 2
    Samples = 5
    MaxQueries = 1
    MayEnd = TRUE
    MayFail = TRUE
INVARIANTS StreamUndisturbed InOrder EstimateCovers
PROPERTIES ImplementsStreams AllDelivered EndFreesWriter
CHECK_DEADLOCK FALSE

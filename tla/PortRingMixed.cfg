SPECIFICATION FairSpec
CONSTANTS
    Readers = 4
    Lag <- MixedLag
    Size = 3
    Redundant = {2, 3}
    ReadsFirst = {2}
    Start = 0
    Stop = 5
INVARIANTS
    BufferExclusion
    FreshSample
    OneTurn
    RingInv
PROPERTIES
    ImplementsChannels
    AllSamplesServiced
CHECK_DEADLOCK FALSE

SPECIFICATION FairSpec
CONSTANTS
    Voices = 3
    Systems <- SomeSystems
INVARIANTS VerdictRight NeverConfused StreamsAgree RunAfterAllOpened
PROPERTIES AllComeToAVerdict
CHECK_DEADLOCK FALSE

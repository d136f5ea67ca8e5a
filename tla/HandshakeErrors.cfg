SPECIFICATION FairSpec
CONSTANTS
    Workers = 2
    Fails = {"INIT", "PLAY", "SERVICE", "STOP", "TERM", "DESTROY"}
    MayCancel = TRUE
    MayHang = TRUE
INVARIANTS
    TypeOK
    AnswersAreFresh
    ExecuteReturnsClean
    StoppedBeforeTheEnd
    DeletedUnlessHung
PROPERTIES
    ExchangeExclusive
    EverythingEnds
CHECK_DEADLOCK FALSE

SPECIFICATION Spec
CONSTANTS
    Workers = 2
    Fails = {}
    MayCancel = TRUE
    MayHang = TRUE
INVARIANTS
    DeletedAfterWorkers
CHECK_DEADLOCK FALSE

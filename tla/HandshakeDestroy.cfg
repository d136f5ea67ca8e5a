SPECIFICATION Spec
CONSTANTS
    Workers = 2
    Fails = {"STOP"}
    MayCancel = TRUE
    MayHang = FALSE
INVARIANTS
    DestroyedAtTheEnd
CHECK_DEADLOCK FALSE

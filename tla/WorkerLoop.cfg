SPECIFICATION FairSpec
CONSTANTS
    Worker = {1, 2}
    Processes <- LoopProcesses
    Port = {"fast", "slow"}
    Period <- LoopPeriod
    Readers <- LoopReaders
    Lag <- LoopLag
    Inputs <- LoopInputs
    Outputs <- LoopOutputs
    ExecutionStart = 0
    ExecutionStop = 7
    Responses = {"C_OK", "C_STOP", "E_ERROR"}
    Cancellable = TRUE
INVARIANTS
    TypeOK
    ServedOnTime
    ExitOnlyWhenDone
PROPERTIES
    RingsImplemented
    AllReachStop
    EndReachesAll
CHECK_DEADLOCK FALSE

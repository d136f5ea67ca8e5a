SPECIFICATION FairSpec
CONSTANTS
    Worker = {1, 2, 3}
    Processes <- ChainProcesses
    Port = {"fast", "slow"}
    Period <- LoopPeriod
    Readers <- ChainReaders
    Lag <- ChainLag
    Inputs <- ChainInputs
    Outputs <- ChainOutputs
    ExecutionStart = 3
    ExecutionStop = 10
    Responses = {"C_OK"}
    Cancellable = FALSE
INVARIANTS
    ServedOnTime
PROPERTIES
    RingsImplemented
CHECK_DEADLOCK FALSE

CONSTANTS
    NumFrames = 4
    NumSocks = 2
    FillSize = 4
    CompSize = 2
    RxSize = 2
    TxSize = 2
    MaxFrags = 2
    CopyMode = FALSE
    NeedWakeup = TRUE
    BatchSize = 1
    CopyFlag = FALSE
    BusyPoll = FALSE
    OptPoll = FALSE
    Verdicts = {"XDP_TX"}
SPECIFICATION Spec
CHECK_DEADLOCK FALSE
INVARIANTS ProgramRunsOnHeads

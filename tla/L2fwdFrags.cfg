CONSTANTS
    NumFrames = 4
    NumSocks = 1
    FillSize = 4
    CompSize = 2
    RxSize = 2
    TxSize = 2
    MaxFrags = 2
    CopyMode = FALSE
    NeedWakeup = TRUE
    BatchSize = 1
    CopyFlag = FALSE
    BusyPoll = TRUE
    OptPoll = TRUE
    Verdicts = {"XDP_TX", "XDP_DROP"}
SPECIFICATION Spec
CHECK_DEADLOCK FALSE
INVARIANTS NoFrameShared NoFrameLost CursorsInStep TxPacketsWhole ProgramRunsOnHeads
PROPERTIES ImplementsCycle

CONSTANTS
    NumFrames = 4
    NumSocks = 1
    FillSize = 4
    CompSize = 2
    RxSize = 2
    TxSize = 2
    MaxFrags = 2
    CopyMode = TRUE
    NeedWakeup = FALSE
    BatchSize = 2
    CopyFlag = TRUE
    BusyPoll = FALSE
    OptPoll = FALSE
    Verdicts = {"XDP_TX"}
SPECIFICATION FairSpec
CHECK_DEADLOCK FALSE
PROPERTIES FramesReturn

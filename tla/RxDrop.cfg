CONSTANTS
    NumFrames = 4
    NumSocks = 2
    FillSize = 4
    CompSize = 1
    RxSize = 2
    TxSize = 1
    MaxFrags = 2
    CopyMode = FALSE
    NeedWakeup = TRUE
    BatchSize = 2
    BusyPoll = FALSE
    OptPoll = FALSE
SPECIFICATION FairSpec
CHECK_DEADLOCK FALSE
INVARIANTS NoFrameShared NoFrameLost RefillNeverWaits
PROPERTIES FramesReturn DriverWoken

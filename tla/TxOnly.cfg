CONSTANTS
    NumFrames = 8
    NumSocks = 1
    CompSize = 3
    TxSize = 5
    CopyMode = TRUE
    NeedWakeup = TRUE
    InOrder = TRUE
    BatchSize = 2
    FramesPerPkt = 2
    DescsPerPkt = 2
    PktCount = 7
    Retries = 2
    OptPoll = FALSE
    TxCycle = TRUE
    U32 = 16
SPECIFICATION FairSpec
CHECK_DEADLOCK FALSE
INVARIANTS NoFrameRewritten OutstandingExact SendsPktCount PacketsWhole
PROPERTIES Finishes

CONSTANTS
    NumFrames = 3
    NumSocks = 2
    FillSize = 3
    CompSize = 2
    RxSize = 1
    TxSize = 1
    MaxFrags = 1
    CopyMode = FALSE
    NeedWakeup = TRUE
    BatchSize = 2
    CopyFlag = FALSE
    BusyPoll = FALSE
    OptPoll = FALSE
    Verdicts = {"XDP_TX"}
SPECIFICATION FairSpec
CHECK_DEADLOCK FALSE
INVARIANTS RefillNeverWaits OutstandingExact WaitingTxCanDrain
PROPERTIES DriverWoken StopsWhenDone

CONSTANTS
    RTE_MAX_ETHPORTS = 4
    RTE_MAX_LCORE = 2
    MAX_RX_QUEUE_PER_LCORE = 3
    Attached = {0, 1, 2}
    Commands <- MCCommands
    None = None
    MAX_PKT_BURST = 2
    NbRxd = 2
    NbTxd = 1
    NbMbufs = 3
    DstPort = {0, 3, 9}
    MaxPackets = 3
SPECIFICATION FairSpec
INVARIANTS ConfigSound PairExact InOrder MbufsAccounted
PROPERTIES BuffersDrain StopsOnSignal
CHECK_DEADLOCK FALSE

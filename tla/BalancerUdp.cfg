CONSTANTS
    MaxSize = 2
    Elasticity = 1
    Packets <- MCPackets
    VipMap <- MCVipMap
    Word <- MCWord
    Hash <- MCHash
    RING_SIZE = 2
    MAX_REALS = 2
    LRU_UDP_TIMEOUT = 1
    ONE_SEC = 1
    MAX_CONN_RATE = 2
    ServerIds = {1}
    InitRing <- MCInitRing
    InitServerId <- MCInitServerId
    InPlaces = {FALSE}
    None = None
    MaxTime = 2
    MaxChanges = 1
SPECIFICATION Spec
PROPERTIES ActiveUdpKeepsReal
CHECK_DEADLOCK FALSE

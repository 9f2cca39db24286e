CONSTANTS
    NumBuckets = 3
    Keys <- MCKeys
    Values = {0, 1}
    Hash <- MCHash
    ZeroKey <- MCZeroKey
    ZeroValue = 0
    None = None
SPECIFICATION Spec
INVARIANTS FindsStored PointersStay CountExact SeesLastCall

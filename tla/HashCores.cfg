CONSTANTS
    NumBuckets = 2
    Keys <- MCKeys
    Hash <- MCHash
    Cores = {c1, c2}
    Bytes = {0, 1}
    KeySize = 2
    SizeLen = 1
    ZeroKey <- MCZeroKey
SPECIFICATION Spec
INVARIANTS SettledStay
PROPERTIES SettledNotMissed GivesUpWhenFull

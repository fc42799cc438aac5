CONSTANTS
    MAX_OFFSET = 3
    MaxUint = 5
    InitBufSize = 2
    MaxWriteBufSize = 3
    MaxWrite = 2
    MaxChunks = 2
    MaxInFlight = 2
    MaxLosses = 1
SPECIFICATION FairSpec
CHECK_DEADLOCK FALSE
INVARIANTS EndsAgree
PROPERTIES IsByteStream EndIsReached

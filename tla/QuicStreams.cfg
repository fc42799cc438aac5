CONSTANTS
    MAX_OFFSET = 6
    MaxUint = 8
    InitBufSize = 2
    MaxWriteBufSize = 4
    CryptoBufSize = 6
    MaxWrite = 3
    MaxChunks = 3
    MaxInFlight = 3
    MaxLosses = 3
    MaxRbufSize = 3
    MaxRxSize = 5
    MaxPn = 4
    Eliciting = {0, 1, 3, 4}
    RxMaxTime = 1
    MaxTx = 2
    MaxBatch = 2
    TxMaxAckDelay = 1
    MAX_RX_ACK_RANGES = 2
    FrameRanges = 1
    PKTS_BEFORE_ACK = 2
SPECIFICATION MCSpec
CHECK_DEADLOCK FALSE
INVARIANTS
    NothingForgotten BufferServes FramesTruthful TotallyAckedIff
    EverythingKept ReadsTrue EndOfStream RecordStays
    SetExact AckOnTime
PROPERTIES NeverReadAgain

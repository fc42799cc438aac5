SPECIFICATION MCSpec
CONSTANTS
    N = 2
    ConnWnd = 1
    StreamWnd = 1
    ConnMaxWnd = 2
    StreamMaxWnd = 1
    MaxSize = 2
    MaxLosses = 1
    MaxUint = 5
CHECK_DEADLOCK FALSE
INVARIANTS
    NoFlowControlError CreditNeverNegative ConnectionCountsStreams PromiseBounded
    ActsAsSet Canonical
PROPERTIES WatermarksNeverDecrease

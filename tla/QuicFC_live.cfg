SPECIFICATION FairSpec
CONSTANTS
    N = 1
    ConnWnd = 2
    StreamWnd = 1
    ConnMaxWnd = 3
    StreamMaxWnd = 1
    MaxSize = 2
    MaxLosses = 1
PROPERTY
    EverythingIsSent
CHECK_DEADLOCK FALSE

CONSTANTS
    MaxPkts = 3
    MaxTime = 4
    MaxRestarts = 2
    AckDelays = {0, 1}
    RxMaxAckDelay = 1
    K_PKT_THRESHOLD = 2
    K_GRANULARITY = 1
    K_INITIAL_RTT = 1
    MAX_PTO_COUNT = 16
    MaxDgramSize = 2
    InitWnd = 10
    Infinite = 1000000
    MaxStreamId = 7
    StreamSets = {{0}, {1}, {3}, {2, 6}}
    IsServer = FALSE
    MaxUnits = 1
    MaxCredit = 1
    MaxLosses = 1
SPECIFICATION MCSpec
INVARIANTS
    OneFate FlightAccounting TimerArmed
    ActiveWhenNeeded RoundRobinSound FlushExact AssertionsHold
PROPERTIES OneReductionPerRound
CHECK_DEADLOCK FALSE

SPECIFICATION MapSpec
CONSTANTS
    MaxStreamId = 7
    StreamSets = {{0}, {1}, {3}, {2, 6}}
    IsServer = FALSE
    MaxUnits = 1
    MaxCredit = 1
    MaxLosses = 1
CHECK_DEADLOCK FALSE
INVARIANT DeletedHasEnd

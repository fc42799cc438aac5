SPECIFICATION Spec
CONSTANTS
    Ends = {a, b}
    MaxPackets = 5
    MaxEpoch = 2
    MaxBatch = 2
    MaxAckRanges = 1
SYMMETRY Swapped
CHECK_DEADLOCK FALSE
INVARIANTS NoKeyUpdateError

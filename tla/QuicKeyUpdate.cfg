SPECIFICATION Spec
CONSTANTS
    Ends = {a, b}
    MaxPackets = 6
    MaxEpoch = 3
    MaxBatch = 2
    MaxAckRanges = 1
SYMMETRY Swapped
CHECK_DEADLOCK FALSE
INVARIANTS ErrorOnlyAfterOmission EpochsTrack NoPingPong

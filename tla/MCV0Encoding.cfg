SPECIFICATION Spec
CONSTANTS
    FixedSize = 2
    Bad = 99
    Messages <- MCDemotable
    Chunks <- MCChunks
    Targets <- MCTargets
    Threshold = 256
    MaxLockTime = 65535
INVARIANT V0EncodingKeepsData
\* A decoder that has answered stops.
CHECK_DEADLOCK FALSE

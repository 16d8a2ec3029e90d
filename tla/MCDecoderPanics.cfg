SPECIFICATION Spec
CONSTANTS
    FixedSize = 2
    Bad = 99
    Messages <- MCOverruns
    Chunks <- MCChunks
    Targets <- MCTargets
    Threshold = 256
    MaxLockTime = 65535
INVARIANT NeverPanics
\* A decoder that has answered stops.
CHECK_DEADLOCK FALSE

SPECIFICATION Spec
CONSTANTS
    FixedSize = 2
    Bad = 99
    Messages <- MCMessages
    Chunks <- MCChunks
    Targets <- MCTargets
    Threshold = 256
    MaxLockTime = 65535
INVARIANTS
    TypeOK
    DecodesMessage
    RoundTrips
    ConversionKeepsTx
    ReadLimitInMessage
PROPERTY PushReturns
\* A decoder that has answered stops.
CHECK_DEADLOCK FALSE

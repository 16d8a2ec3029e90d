SPECIFICATION Spec
CONSTANTS
    k1 = k1
    o1 = o1
    o2 = o2
    a1 = a1
    a2 = a2
    Threshold = 2
    MaxLockTime = 2
    OutPoints = {o1, o2}
    Outputs = {a1}
    Keys = {k1}
    Sequences = {"max", "rbf"}
    MaxSequence = "max"
    NoSequence = NoSequence
    SighashTypes <- MCTimesTypes
    SighashAll <- MCSighashAll
    NoSighash = NoSighash
    Spendings <- MCSpendings
    NoSig = NoSig
    NoFinal = NoFinal
    Sequencings = {"rbf"}
    Sighashes <- MCTimesSighashes
    LockRequests <- MCLocks
    Fallbacks = {0}
    CreatorFlags <- MCNoFlags
    MaxInputs = 2
    MaxOutputs = 1
INVARIANT
    UpdaterLockTimeDeterminable
CHECK_DEADLOCK FALSE

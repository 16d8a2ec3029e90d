SPECIFICATION Spec
CONSTANTS
    k1 = k1
    o1 = o1
    o2 = o2
    a1 = a1
    a2 = a2
    Threshold = 2
    MaxLockTime = 2
    OutPoints = {o1, o2}
    Outputs = {a1, a2}
    Keys = {k1}
    Sequences = {"max", "rbf"}
    MaxSequence = "max"
    NoSequence = NoSequence
    SighashTypes <- MCSighashTypes
    SighashAll <- MCSighashAll
    NoSighash = NoSighash
    Spendings <- MCSpendings
    NoSig = NoSig
    NoFinal = NoFinal
    Sequencings = {"rbf"}
    Sighashes <- MCSighashes
    LockRequests <- MCLocks
    Fallbacks = {2}
    CreatorFlags <- MCAllFlags
    MaxInputs = 2
    MaxOutputs = 2
INVARIANTS
    TypeOK
    FlagsAccurate
    CommitmentsKept
    ConstructorsHarmless
    TxLockMeetsInputs
PROPERTIES
    ImplementsTxDraft
    SigsBreakOnlyByTimes
    SigningKeepsTx
SYMMETRY MCSymmetry
CHECK_DEADLOCK FALSE

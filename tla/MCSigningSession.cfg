SPECIFICATION Spec
CONSTANTS
    o1 = o1
    o2 = o2
    a1 = a1
    k1 = k1
    k2 = k2
    Threshold = 2
    MaxLockTime = 2
    OutPoints = {o1, o2}
    Outputs = {a1}
    Keys = {k1, k2}
    Sequences = {"max", "rbf"}
    MaxSequence = "max"
    NoSequence = NoSequence
    SighashTypes <- MCSighashTypes
    SighashAll <- MCSighashAll
    NoSighash = NoSighash
    Spendings <- MCSpendings
    NoSig = NoSig
    NoFinal = NoFinal
    OutputType <- MCOutputType
    Start <- MCStart
    StartUtxos <- MCStartUtxos
    Updates <- MCUpdates
    Holdings <- MCHoldings
    NoTx = NoTx
    MaxInputs = 2
    MaxEdits = 2
    MaxSigners = 2
    MaxEntries = 2
INVARIANTS
    TypeOK
    SignerTxStands
    OwnSigsValid
    LostOnlyMixed
    AppliedFlagsReflect
    StrictSigsAgree
    SessionsInfallible
CHECK_DEADLOCK FALSE

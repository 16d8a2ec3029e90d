SPECIFICATION Spec
CONSTANTS
    alice = alice
    bob = bob
    carol = carol
    ka = ka
    kb = kb
    o1 = o1
    o2 = o2
    a1 = a1
    a2 = a2
    Threshold = 2
    MaxLockTime = 2
    OutPoints = {o1, o2}
    Outputs = {a1}
    Keys = {ka, kb}
    Sequences = {"max", "rbf"}
    MaxSequence = "max"
    NoSequence = NoSequence
    SighashTypes <- MCSighashTypes
    SighashAll <- MCSighashAll
    NoSighash = NoSighash
    Spendings <- MCMultisig
    NoSig = NoSig
    NoFinal = NoFinal
    Holders = {alice, bob}
    Held <- MCHeldByAlice
    Drafts <- MCBuildDrafts
    NewInputs <- MCNewInputs
    NewOutputs = {}
    Updates <- MCUpdates
    MaxInputs = 2
    MaxOutputs = 1
    MaxWire = 2
INVARIANTS
    TypeOK
    SigsOnOwnInput
    LockTimesSurvive
CHECK_DEADLOCK FALSE

SPECIFICATION Spec
CONSTANTS
    Fingerprints = {"f", "g"}
    ChildNumbers = {0, 1}
    MaxPath = 2
INVARIANT
    ConflictsReported
CHECK_DEADLOCK FALSE

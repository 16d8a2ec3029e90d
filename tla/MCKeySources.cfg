SPECIFICATION Spec
CONSTANTS
    Fingerprints = {"f", "g"}
    ChildNumbers = {0, 1}
    MaxPath = 2
INVARIANTS
    LongestPathKept
    FailsOnlyOnConflict
CHECK_DEADLOCK FALSE

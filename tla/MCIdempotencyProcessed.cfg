SPECIFICATION Spec
CONSTANTS
    Calls = {c1, c2, c3}
    Keyless = {}
    NoCall = none
    TTL = 2
    Deadline = 1
    MaxTime = 4
    MaxCrashes = 1
SYMMETRY Symmetry
CHECK_DEADLOCK FALSE
INVARIANTS
    AcknowledgedIsProcessed

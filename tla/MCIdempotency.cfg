SPECIFICATION Spec
CONSTANTS
    Calls = {c1, c2, c3, k}
    Keyless = {k}
    NoCall = none
    TTL = 2
    Deadline = 1
    MaxTime = 3
    MaxCrashes = 1
SYMMETRY Symmetry
CHECK_DEADLOCK FALSE
INVARIANTS
    TypeOK
    OneOrderPerWindow
    AnswersAreOrders
PROPERTIES
    CommittedUntilExpiry
    ImplementsLease

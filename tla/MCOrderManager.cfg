SPECIFICATION Spec
CONSTANTS
    Orders = {o1, o2}
    NoOrder = none
    Slots = {s1, s2}
    MaxPending = 2
    MaxRetries = 1
    MaxExposure = 1
    MaxCrashes = 0
SYMMETRY Symmetry
CHECK_DEADLOCK FALSE
INVARIANTS
    TypeOK
    OneLiveCopy
    SubmissionsWithinApprovals
    ActiveIsAccountedFor
    ExposureWithinLimit
    HistoryMatchesDb
    ExecutedWasSubmitted
    NoOrderVanishes

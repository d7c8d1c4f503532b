SPECIFICATION Spec
CONSTANTS
    Orders = {o1, o2}
    NoOrder = none
    Slots = {s1, s2}
    MaxPending = 2
    MaxRetries = 1
    MaxExposure = 2
    MaxCrashes = 0
SYMMETRY Symmetry
CHECK_DEADLOCK FALSE
INVARIANTS
    InFlightIsCounted

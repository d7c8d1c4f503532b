SPECIFICATION Spec
CONSTANTS
    Orders = {o1, o2}
    NoOrder = none
    Slots = {s1}
    MaxPending = 1
    MaxRetries = 1
    MaxExposure = 2
    MaxCrashes = 1
SYMMETRY Symmetry
CHECK_DEADLOCK FALSE
PROPERTY
    ImplementsLifecycle

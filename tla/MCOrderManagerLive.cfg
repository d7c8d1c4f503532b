SPECIFICATION FairSpec
CONSTANTS
    Orders = {o1, o2}
    NoOrder = none
    Slots = {s1}
    MaxPending = 1
    MaxRetries = 1
    MaxExposure = 2
    MaxCrashes = 0
CHECK_DEADLOCK FALSE
PROPERTIES
    AcceptedIsSettled

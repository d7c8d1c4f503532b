SPECIFICATION Spec
CONSTANTS
    Orders = {o1, o2}
    MaxVersion = 2
    Channel = 2
    MaxEnds = 3
    Hooks = {h}
    MaxTrades = 1
    MaxDrops = 1
CHECK_DEADLOCK FALSE
INVARIANTS
    FeedTypeOK
    FeedSupervised
    LiveIsServed
PROPERTIES
    FeedSteps
    FeedRecovers

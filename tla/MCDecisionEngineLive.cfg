SPECIFICATION FairSpec
CONSTANTS
    Evals = {e1, e2, e3}
    Threshold = 2
    MaxOps = 0
    MaxRestarts = 0
CHECK_DEADLOCK FALSE
PROPERTIES
    LatchReachesDb

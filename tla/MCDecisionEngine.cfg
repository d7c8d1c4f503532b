SPECIFICATION Spec
CONSTANTS
    Evals = {e1, e2, e3}
    Threshold = 2
    MaxOps = 1
    MaxRestarts = 1
SYMMETRY Symmetry
CHECK_DEADLOCK FALSE
INVARIANTS
    TypeOK
    SingleFire
    StreakLatches

SPECIFICATION Spec
CONSTANTS
    Evals = {e1, e2, e3}
    Threshold = 2
    MaxOps = 0
    MaxRestarts = 0
SYMMETRY Symmetry
CHECK_DEADLOCK FALSE
PROPERTIES
    LatchHoldsUntilResume

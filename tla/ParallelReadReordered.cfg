SPECIFICATION Spec
CONSTANTS
    MaxThreads = 2
    Sizes = {0, 1, 2}
    RmwIsFence = FALSE
    Faults = {}
INVARIANTS
    SuccessMeansComplete
CHECK_DEADLOCK FALSE

SPECIFICATION Spec
CONSTANTS
    MaxThreads = 2
    Sizes = {0, 1, 2}
    RmwIsFence = TRUE
    Faults = {"shm"}
INVARIANTS
    SuccessMeansComplete
CHECK_DEADLOCK FALSE

SPECIFICATION Spec
CONSTANTS
    MaxThreads = 4
    Sizes = {0, 1, 2, 3, 4, 5}
    RmwIsFence = TRUE
    Faults = {"open", "fork", "kill"}
INVARIANTS
    SuccessMeansComplete
PROPERTIES
    ImplementsSerial
CHECK_DEADLOCK FALSE

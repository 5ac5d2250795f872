SPECIFICATION Spec
CONSTANTS
    MaxThreads = 4
    Sizes = {0, 1, 3, 5}
    RmwIsFence = TRUE
    Faults = {"open", "shm", "fork", "read", "kill"}
INVARIANTS
    TypeOK
    SlicesDisjoint
    LostChildBlocksReturn
    IInv
PROPERTIES
    QuietAfterReturn
CHECK_DEADLOCK FALSE

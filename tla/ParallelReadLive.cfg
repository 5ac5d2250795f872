SPECIFICATION FairSpec
CONSTANTS
    MaxThreads = 3
    Sizes = {0, 1, 3, 4}
    RmwIsFence = FALSE
    Faults = {"open"}
PROPERTIES
    Returns
    SegmentsReclaimed
    CompleteInTheEnd
CHECK_DEADLOCK FALSE

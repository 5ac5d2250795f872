SPECIFICATION Spec
CONSTANTS
    NarrowMax = 3
    Fractional = 100
    Rounded = 101
    NaN = 102
    Huge = 200
    Infinity = 201
    Root = Root
    AuxNames = {aux}
    MayFail = TRUE
    ChunkBytes = 2
    Shapes <- MCShapes
    MaxNnz = 3
    Problems <- MCProblems
INVARIANTS
    TypeOK
    HandlesClosed
    RowsFillUp
    CooFileFaithful
    StructFaithful
    MemoryAccounted
    MinimizedFaithful
    TextReadsBack
    PathsAgree
PROPERTIES
    FinishedStays

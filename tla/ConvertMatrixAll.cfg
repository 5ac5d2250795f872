SPECIFICATION Spec
CONSTANTS
    NarrowMax = 3
    MayFail = TRUE
    Shapes <- MCShapes
    MinNnz = 0
    MaxNnz = 5
    Isos = {TRUE, FALSE}
    Types = {"narrow", "wide"}
    Formats = {"COOR", "CSR", "CSC"}
    Targets = {"COOR", "CSR", "CSC"}
    Matrices <- AllMatrices
INVARIANTS
    TypeOK
    FaithfulWhereTypesFit
    NothingLeaks
    SourcesLive

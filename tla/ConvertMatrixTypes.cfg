SPECIFICATION Spec
CONSTANTS
    NarrowMax = 3
    MayFail = FALSE
    Shapes <- WideShape
    MinNnz = 4
    MaxNnz = 5
    Isos = {TRUE}
    Types = {"wide"}
    Formats = {"COOR"}
    Targets = {"CSC"}
    Matrices <- MCMatrices
INVARIANTS
    ConversionFaithful

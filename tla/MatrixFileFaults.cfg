SPECIFICATION Spec
CONSTANTS
    dvec = dvec
    coo = coo
    csr = csr
    badvec = badvec
    Groups = {"/", "g"}
    Root = "/"
    Matrices <- MCMatrices
    ArraysOf <- MCArraysOf
    Valid <- MCValid
    NoMatrix = NoMatrix
    Unwritten = Unwritten
    Faults = {"open", "dataset", "write", "attribute", "read", "crash"}
    AnyFlushOrder = FALSE
    GroupHandles = TRUE
INVARIANTS
    TypeOK
    ReadIsSomeWrite
    HalfWrittenIsStuck

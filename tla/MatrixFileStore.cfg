SPECIFICATION Spec
CONSTANTS
    dvec = dvec
    coo = coo
    csr = csr
    badvec = badvec
    Groups = {"/", "g"}
    Root = "/"
    Matrices <- MCMatrices
    ArraysOf <- MCArraysOf
    Valid <- MCValid
    NoMatrix = NoMatrix
    Unwritten = Unwritten
    Faults = {"open", "dataset", "write", "read", "crash"}
    AnyFlushOrder = TRUE
    GroupHandles = FALSE
INVARIANTS
    WriteSuccessMeansReadable
PROPERTIES
    ImplementsStore

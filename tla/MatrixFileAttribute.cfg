SPECIFICATION Spec
CONSTANTS
    dvec = dvec
    coo = coo
    csr = csr
    badvec = badvec
    Groups = {"/", "g"}
    Root = "/"
    Matrices <- MCMatrices
    ArraysOf <- MCArraysOf
    Valid <- MCValid
    NoMatrix = NoMatrix
    Unwritten = Unwritten
    Faults = {"attribute"}
    AnyFlushOrder = FALSE
    GroupHandles = FALSE
INVARIANTS
    WriteSuccessMeansReadable

SPECIFICATION Spec
CONSTANTS
    NarrowMax = 3
    Fractional = 100
    Rounded = 101
    NaN = 102
    Huge = 200
    Infinity = 201
    MayFail = TRUE
    Inputs <- MCInputs
INVARIANTS
    TypeOK
    ReadOwnership
    ReadersAgree
    MmReadFaithful
    FileFaithful
    VerdictRight
    CopyFaithful
    DeathsExplained
    TensorCopied
    TensorAccepted

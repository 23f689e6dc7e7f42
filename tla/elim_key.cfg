SPECIFICATION Spec
CONSTANTS
    PK_NROWS = 3
    SYS_N = 4
    BYTE = 3
    Matrices <- SmallMatrices
INVARIANT
    KeyIsReducedMatrix
CHECK_DEADLOCK FALSE

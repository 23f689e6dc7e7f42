SPECIFICATION Spec
CONSTANTS
    PK_NROWS = 3
    SYS_N = 4
    BYTE = 3
    Matrices <- MCMatrices
INVARIANTS
    TypeOK
    Systematic
    FailsIffSingular
    RowSpaceKept
CHECK_DEADLOCK FALSE

SPECIFICATION FairSpec
CONSTANTS
    PK_NROWS = 4
    SYS_N = 6
    BYTE = 2
    Matrices <- ByteMatrices
INVARIANTS
    TypeOK
    RaceOnlyInCopy
    PivotByteAgrees
    KeyButLastStore
PROPERTIES
    ImplementsGaussElim
    AttemptEnds
CHECK_DEADLOCK FALSE

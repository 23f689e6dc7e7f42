SPECIFICATION ArenaSpec
CONSTANTS
    ALLOCATED = 1048576
    SYS_N = 3488
    SYS_T = 64
    GFBITS = 12
    PK_NROWS = 768
    PUBLICKEYBYTES = 261120
    SECRETKEYBYTES = 6492
    FILE <- KatFiles
    BITS <- KatLengths
INVARIANTS
    ArenaTypeOK
    Fits
    Disjoint

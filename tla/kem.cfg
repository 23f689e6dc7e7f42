SPECIFICATION KemFairSpec
CONSTANTS
    GFBITS = 4
    SYS_T = 3
    SYS_N = 14
    Middle = 1
    Added <- MCAdded
    Tower <- MCTower
    SEED = 2
    PIVOTS = 1
    IRR = 2
    COND = 3
    PERM = 3
    TAIL = 4
    ATTEMPTS = 3
    BLOCK = 4
    TRIES = 2
    Expansions <- MCExpansions
    Draws <- MCDraws
    Words <- MCWords
INVARIANTS
    KemTypeOK
    KeysOfOneSeed
    DecapsReturnsSharedKey
    DecapsExact
    ErrorOfOneDraw
    SupportIsPermuted
    GoppaIsMinimalPolynomial
    NothingDrawnTwice
PROPERTIES
    Ends

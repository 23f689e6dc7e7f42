SPECIFICATION Spec
CONSTANTS
    WIDTH = 2
    BLOCK = 4
    LENF = 2
    Messages <- Inputs
    h1 = h1
    h2 = h2
    h3 = h3
    p1 = p1
    p2 = p2
    Handle = {h1, h2, h3}
    Place = {p1, p2}
    NoPlace = NoPlace
    MAXBLOCKS = 2
INVARIANTS
    TypeOK
    FinalizeGivesDigest
    HeapExact
SYMMETRY Symmetry
CHECK_DEADLOCK FALSE

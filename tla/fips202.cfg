SPECIFICATION Spec
CONSTANTS
    RATE = 3
    DIGEST = 2
    MAXIN = 4
    MAXOUT = 4
    Strings <- Inputs
    Names <- Labels
    h1 = h1
    h2 = h2
    p1 = p1
    p2 = p2
    Handle = {h1, h2}
    Place = {p1, p2}
    NoPlace = NoPlace
INVARIANTS
    TypeOK
    CountBelowRate
    StreamExact
    HeapExact
SYMMETRY Symmetry
CHECK_DEADLOCK FALSE

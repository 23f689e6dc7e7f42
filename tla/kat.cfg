SPECIFICATION Spec
CONSTANTS
    VECTORS = 2
    FAULTS = 1
INVARIANTS
    TypeOK
    VerdictExact
    PassedMeansTested

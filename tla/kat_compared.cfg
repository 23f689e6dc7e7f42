SPECIFICATION Spec
CONSTANTS
    VECTORS = 1
    FAULTS = 1
INVARIANTS
    ComparedToKat

SPECIFICATION Spec
CONSTANTS
    WIDTH = 2
    BLOCK = 4
    LENF = 2
    Messages <- ShortMessages
INVARIANTS
    TypeOK
    OneBehind
PROPERTIES
    ImplementsShaDigest

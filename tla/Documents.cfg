SPECIFICATION Spec
CONSTANTS
    W = 1
    Alphabet <- MCAlphabet
    MaxU32 = 42
    MaxDepth = 2
    Messages <- MCMessages
    MaxRespellings = 2
    Damage = {"cut", "replace", "drop"}
CHECK_DEADLOCK FALSE
INVARIANTS
    ReadAsMeant
    CutIsRefused
    Base64Canonical

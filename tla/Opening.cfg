SPECIFICATION Spec
CONSTANTS
    Cases <- MCCases
    Keys <- MCKeys
    MaxHead = 9
    Chunk = 5
    Want = 3
CHECK_DEADLOCK FALSE
INVARIANTS
    NothingSwallowed
    OpensOnlyIfMeant
PROPERTIES
    Settles

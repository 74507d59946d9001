SPECIFICATION Spec
CONSTANTS
    Chatter <- MCChatter
    MaxRead = 3
CHECK_DEADLOCK FALSE
INVARIANTS
    OnlyLateTraffic
PROPERTIES
    Settles
    QuietSucceeds

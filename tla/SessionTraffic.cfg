SPECIFICATION Spec
CONSTANTS
    MaxMsgNo = 1
    Openers = {"initiator"}
    MaxStarts = 1
    MaxCloses = 1
    MaxSends = 1
    MaySendClosing = TRUE
    MayRefuse = TRUE
    MayDrop = TRUE
    BigGreeting = {}
CHECK_DEADLOCK FALSE
INVARIANTS
    OpeningSafe
PROPERTIES
    Answered
    BothEnd

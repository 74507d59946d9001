SPECIFICATION Spec
CONSTANTS
    MaxMsgNo = 1
    Openers = {"initiator", "listener"}
    MaxStarts = 1
    MaxCloses = 2
    MaxSends = 0
    MaySendClosing = FALSE
    MayRefuse = TRUE
    MayDrop = FALSE
    BigGreeting = {}
CHECK_DEADLOCK FALSE
INVARIANTS
    NoProtocolError
    RequestsTracked
    ChannelsAgree

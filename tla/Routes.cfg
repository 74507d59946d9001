SPECIFICATION Spec
CONSTANTS
    Callers = {a, b, c}
    MaxMsgNo = 1
    MaxChannels = 1
    CommandQueue = 2
    MaxUpgrades = 1
    MaxAnswers = 1
    MayDecline = FALSE
CHECK_DEADLOCK FALSE
INVARIANTS
    HeldOnce
    RoutesBacked
    RightReply
PROPERTIES
    EveryoneTold

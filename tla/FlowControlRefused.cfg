SPECIFICATION Spec
CONSTANTS
    M = 16
    InitialWindow = 4
    WindowSize = 3
    MaxFrameSize = 4
    ChannelZero = {FALSE}
    Messages <- MCMessages
    MaxMessages = 3
    ResizeSizes = {2, 6}
    MayShrink = TRUE
    MaxResizes = 2
    NoPartial = NoPartial
CHECK_DEADLOCK FALSE
INVARIANTS
    OnlyWindowRefusals
    DeliveredInOrder

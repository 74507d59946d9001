SPECIFICATION Spec
CONSTANTS
    M = 16
    InitialWindow = 4
    WindowSize = 6
    MaxFrameSize = 3
    ChannelZero = {TRUE, FALSE}
    Messages <- MCMessages
    MaxMessages = 3
    ResizeSizes = {7, 10}
    MayShrink = FALSE
    MaxResizes = 2
    NoPartial = NoPartial
CHECK_DEADLOCK FALSE
INVARIANTS
    TypeOK
    NeverRefused
    StallIsTemporary
PROPERTIES
    OfferNeverWithdrawn
    ImplementsStream

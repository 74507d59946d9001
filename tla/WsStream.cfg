SPECIFICATION Spec
CONSTANTS
    Frames <- MCFrames
    Plans <- MCPlans
    Sides = {"Client", "Server"}
    Room = 3
    Short = 3
    Wide = 4
    MaxPayload = 5
    Batch = 2
    HighWater = 5
CHECK_DEADLOCK FALSE
INVARIANTS
    ReadInOrder
    OneFrameEach
PROPERTIES
    Delivered

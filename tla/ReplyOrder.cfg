SPECIFICATION Spec
CONSTANTS
    MsgNos = {0, 1, 2}
    MaxMessages = 3
    MaxAnswers = 2
    NoAnsNo = NoAnsNo
CHECK_DEADLOCK FALSE
INVARIANTS
    TypeOK
    RepliesInOrder
    HeldIsBlocked
PROPERTIES
    EventuallyAnswered

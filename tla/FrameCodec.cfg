SPECIFICATION Spec
CONSTANTS
    Digits <- MCDigits
    MaxNo = 3
    MaxSeqNo = 7
    MaxHeaderLen = 18
    Limits = {2, 3}
    Streams <- MCStreams
CHECK_DEADLOCK FALSE
INVARIANTS
    CutsDoNotMatter
    RoundTrip
    BoundaryAgrees

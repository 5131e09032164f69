SPECIFICATION MCSpec
CONSTANTS
    MaxFrameDataSize = 5
    Alphabet = {2, 85, 125, 126}
    QueueMax = 2
    StreamMax = 10
INVARIANTS
    TypeOK
    Consistent

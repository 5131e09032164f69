SPECIFICATION LinkSpec
CONSTANTS
    Packets <- MCPackets
    MaxFrameDataSize = 12
    Alphabet = {}
    QueueMax = 3
    LossMax = 2
INVARIANTS
    Genuine
    Resynchronises
PROPERTIES
    CleanIsFifo
    CleanDelivers

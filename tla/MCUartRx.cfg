SPECIFICATION RxSpec
CONSTANTS
    Capacity = 2
    CountMod = 8
    Byte = {1, 2, 3}
INVARIANTS
    RxTypeOK
    FifoUnlessOverrun
PROPERTIES
    RxSafeFifoLine
    EveryByteRead

SPECIFICATION Spec
CONSTANTS
    Capacity = 2
    CountMod = 8
    Byte = {1, 2}
    Strings <- MCStrings
    Empty = Empty
INVARIANTS
    TypeOK
    NoOverrun
    NoStall
PROPERTIES
    ImplementsFifoLine
    CallsReturn

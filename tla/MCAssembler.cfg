SPECIFICATION AssemblerSpec
CONSTANTS
    ByteMod = 4
    Numeral <- MCNumeral
    Decimal <- MCDecimal
    LabelName <- MCLabelName
    Hashes = {"#define", "#if"}
    Sources <- MCSources
INVARIANTS
    Translates
    Accepts
PROPERTIES
    Terminates
CHECK_DEADLOCK FALSE

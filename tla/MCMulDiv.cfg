SPECIFICATION Spec
CONSTANTS
    Word = 32
    Values <- MCWords
    Multipliers <- MCWords
    Dividers <- MCDividers
INVARIANT
    Exact
CHECK_DEADLOCK FALSE

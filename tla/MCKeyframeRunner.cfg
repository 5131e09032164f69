SPECIFICATION KeyframeSpec
CONSTANTS
    ByteMod = 4
    FadeMinTime = 1
    Channels = {"r", "b"}
    Animations <- MCAnimations
    Pauses = {0, 3}
    Delays = {1, 3}
    LateMax = 3
INVARIANTS
    KeyframeTypeOK
    NeverEarly
    StepInAnimation
    FadeStaysBetween
PROPERTIES
    PlaysOn
    ImplementsPlaying

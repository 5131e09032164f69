SPECIFICATION Spec
CONSTANTS
    MaxTasks = 2
    Era = 5
    Base = 2
    Intervals = {2}
    IsrTicks = 2
    Horizon = 23
    CallTicks = 6
    CallMax = 3
INVARIANTS
    TypeOK
    RegistersInArray
    Armed
    NotEarly
    ComparesInTime
    TimeNotBehind

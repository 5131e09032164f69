SPECIFICATION Spec
CONSTANTS
    MaxTasks = 2
    Era = 8
    Base = 2
    Intervals = {2}
    IsrTicks = 2
    Horizon = 20
    CallTicks = 0
    CallMax = 2
INVARIANT
    NotSkipped

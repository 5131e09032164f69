SPECIFICATION RememberSpec
CONSTANTS
    VectorBytes = 10
    Directions <- MCDirections
    CodeSize = 16
    WatchDog = 7
    GpSize = 2
    Programs <- MCPrograms
    Random = {1, 6, 128, 255}
    Levels = {255, 4096}
INVARIANTS
    MachineTypeOK
    
PROPERTIES
    LedsShowVectors
    CarryIsOverflow
    KeepsPolling

SPECIFICATION UploadSpec
CONSTANTS
    CodeSize = 4
    ChunkSize = 2
    Word = {"0", "s", "a", "b", "eof"}
    Zero = "0"
    LastWord = "eof"
    BuiltIn <- MCBuiltIn
    StartProgram <- MCStart
    Stops = {0, 3}
    LastAnimation = 1
    Programs <- MCPrograms
    LossMax = 1
INVARIANTS
    PlaysLargest

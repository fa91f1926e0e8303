\* A reader that reads on and seeks forward only, and may be interrupted.
SPECIFICATION MCFairSpec
CONSTANTS
    SectorSize = 2
    NumSectors = 4
    FillSectors = 2
    ReadChunk = 3
    SeekWish = 3
    PrefillWish = 9
    FileSize = 13
    Pipe = FALSE
    PipeBlock = 2
    SeekTargets <- MCSeekTargets
    BackSeeks = FALSE
    Resets = FALSE
    Interrupts = TRUE
INVARIANTS WindowIntact DataRight
PROPERTIES BackBytesKept ReadsAsFile CallReturns PrefillEnds
CHECK_DEADLOCK FALSE

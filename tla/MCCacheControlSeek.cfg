SPECIFICATION CSpec
CONSTANTS
    SectorSize = 1
    NumSectors = 2
    FillSectors = 1
    ReadChunk = 1
    SeekWish = 1
    PrefillWish = 1
    FileSize = 3
    Pipe = FALSE
    PipeBlock = 2
    SeekTargets <- MCSeekTargets
    BackSeeks = FALSE
    Resets = FALSE
    Interrupts = FALSE
    Asks <- MCAsks
    Chapters <- MCChapters
    Forked = FALSE
    MaxGivenUp = 1
INVARIANTS WindowIntact
CHECK_DEADLOCK FALSE

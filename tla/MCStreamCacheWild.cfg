SPECIFICATION Spec
CONSTANTS
    SectorSize = 2
    NumSectors = 4
    FillSectors = 2
    ReadChunk = 3
    SeekWish = 3
    PrefillWish = 3
    FileSize = 13
    Pipe = FALSE
    PipeBlock = 2
    SeekTargets <- MCSeekTargets
    BackSeeks = TRUE
    Resets = FALSE
    Interrupts = FALSE
INVARIANTS NoWildCopy

CHECK_DEADLOCK FALSE

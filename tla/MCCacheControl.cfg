\* A thread in front of a linear stream, resets, and key presses that may
\* cut short any wait; one question, and a seek to the end.
SPECIFICATION FairCSpec
CONSTANTS
    SectorSize = 1
    NumSectors = 2
    FillSectors = 1
    ReadChunk = 1
    SeekWish = 1
    PrefillWish = 1
    FileSize = 2
    Pipe = TRUE
    PipeBlock = 2
    SeekTargets <- MCForward
    BackSeeks = FALSE
    Resets = TRUE
    Interrupts = TRUE
    Asks <- MCOneAsk
    Chapters <- MCLastChapter
    Forked = FALSE
    MaxGivenUp = 1
INVARIANTS AnswerIsMine FreedAfterStop
PROPERTIES CommandReturns CallEnds
CHECK_DEADLOCK FALSE

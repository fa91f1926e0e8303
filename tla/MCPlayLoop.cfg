CONSTANTS
    Frames = 3
    Sounds = 3
    KeyFrames = {1, 3}
    AoSize = 2
    Setups <- MCSetups
    Targets = {2, 4}
    Offsets <- MCOffsets
    Loops <- MCLoops
    MaxCommands = 2
SPECIFICATION Spec
INVARIANTS InStep SilentUntilShown EndHonest
PROPERTIES ShownIsCurrent PreciseSeek SeekSettles PlayEnds
CHECK_DEADLOCK FALSE

SPECIFICATION FairSpec
CONSTANTS
    MaxSize = 3
    Frames = 5
    MaxLoop = 1
INVARIANTS FramesInOrder NoTornFrame BuffersDistinct
PROPERTIES GrabReturns UninitReturns
CHECK_DEADLOCK FALSE

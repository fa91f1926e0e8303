SPECIFICATION FairSpec
CONSTANTS
    Keys <- MCKeys
    Buttons <- MCButtons
    Mouse <- MCMouse
    Dbl <- MCDbl
    Bind <- MCBind
    MaxKeyDown = 2
    KeyFifoSize = 2
    CmdKinds = {"other"}
    Signals = TRUE
    BadFiles = TRUE
    MaxCmds = 4
INVARIANTS AbortsCounted KeysInOrder RepeatsHeldKeys
PROPERTIES KeysTaken
CHECK_DEADLOCK FALSE

SPECIFICATION Spec
CONSTANTS
    Keys <- MCKeys
    Buttons <- MCButtons
    Mouse <- MCMouse
    Dbl <- MCDbl
    Bind <- MCBind
    MaxKeyDown = 2
    KeyFifoSize = 2
    CmdKinds = {"other"}
    Signals = FALSE
    BadFiles = FALSE
    MaxCmds = 4
INVARIANTS SeekFirst
CHECK_DEADLOCK FALSE

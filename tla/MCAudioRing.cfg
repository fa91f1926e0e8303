SPECIFICATION FairSpec
CONSTANTS
    Size = 5
    Burst = 2
    Period = 3
    IndexMod = 12
    Total = 13
    MaxSeeks = 2
INVARIANTS CleanResetEmpties PausedIsSilent
PROPERTIES RingIsFifo SoundGoesOn
CHECK_DEADLOCK FALSE

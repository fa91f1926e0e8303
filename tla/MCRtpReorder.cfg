SPECIFICATION Spec
CONSTANTS
    Slots = 8
    SeqMod = 48
    FirstSeq = 30
    Packets = 30
    Displace = 1
    WrapSwaps = FALSE
    Bursts = {1, 9}
    MaxBursts = 2
    Apart = 10
    MaxRepeat = 1
    RepeatLag = 16
    MaxBad = 1
INVARIANTS InOrder SkipsOnlyLostUnwrapped
CHECK_DEADLOCK FALSE

CONSTANTS
    a1 = a1  a2 = a2  v1 = v1  s1 = s1  dv = dv
    Tracks = {a1, a2, v1, s1, dv}
    NoTrack = none
    TracksOf <- MCTracksOf
    Size = 4
    Files <- MCFiles
    MaxPacks = 3
    MaxBytes = 4
    Whole = {"video"}
    Filled = {"audio"}
    MaxRead = 3
    MaxTurns = 2
SPECIFICATION Spec
INVARIANTS CountersMatch RefsMatch QueuesBounded EofMeansEnd AnnouncedIsNext
PROPERTIES FeedKept AllPlayed
CHECK_DEADLOCK FALSE

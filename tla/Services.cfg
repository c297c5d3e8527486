SPECIFICATION MCSpec
CONSTANTS
    Sources = {"Bind", "Inherited"}
    MaxCleanups = 3
    MaxEvents = 3
    c1 = c1
    s1 = s1
    s2 = s2
    Streams = {s1, s2}
    Conns = {c1}
    ConnOf <- BothOnOne
    Global = Global
    GlobalMax = 8
    ShareMax = 2
    FrameClaim = 1
    FileChunk = 2
    Threshold = 1
    FullLeaseMin = 1
    Depth = 1
    Sizes = {3}
    Reading = {c1}
    MaxFrames = 2
INVARIANTS
    HotReloadNeverDeaf
    FamiliesAccounted
    Settled
    LeasesWithinShares
    NoSilentTruncation
PROPERTIES
    CrashRecovers
    
CHECK_DEADLOCK FALSE

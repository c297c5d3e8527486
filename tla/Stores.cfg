SPECIFICATION MCSpec
CONSTANTS
    Keys = {k1}
    Tags = {t1}
    ManyTags = {x1, x2}
    FewTombs = 1
    Renders = {r1}
    RamTags = {t1}
    RamRenders = {x1, x2}
    RamPurges = 2
    None = None
    HasDisk = TRUE
    TombCap = 0
    TombRetain = 0
    MaxInherited = 0
    MaxPurges = 1
    MaxClock = 1
    MaxSeq = 1
    MaxCrashes = 1
    MaxFaults = 1
    keyA = x1
    keyB = x2
    keyC = keyC
    keyD = keyD
    shard1 = shard1
    shard2 = shard2
    RamMax = 5
    DiskMax = 3
    MaxNow = 1
    Reqs = {x1, x2}
    MaxConns = 2
    MaxFamily = 2
    MaxEpoch = 2
    MaxIdle = 2
SYMMETRY Symmetry
INVARIANTS
    PagesExact
    CacheExact
    
CHECK_DEADLOCK FALSE

SPECIFICATION ScanSpec
CONSTANTS
    Keys = {k1}
    Tags = {t1}
    Renders = {r1}
    None = None
    HasDisk = TRUE
    TombCap = 0
    TombRetain = 0
    MaxInherited = 1
    MaxPurges = 1
    MaxClock = 2
    MaxSeq = 1
    MaxCrashes = 1
    MaxFaults = 0
INVARIANTS
    BodyPresent
    NoStaleAfterPurge
PROPERTIES PurgeReturns
CHECK_DEADLOCK FALSE

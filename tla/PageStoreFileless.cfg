SPECIFICATION Spec
CONSTANTS
    Keys = {k1}
    Tags = {t1}
    Renders = {r1}
    None = None
    HasDisk = TRUE
    TombCap = 1
    TombRetain = 0
    MaxInherited = 2
    MaxPurges = 1
    MaxClock = 1
    MaxSeq = 1
    MaxCrashes = 0
    MaxFaults = 0
SYMMETRY Symmetry
INVARIANTS
    NoFilelessEntry
CHECK_DEADLOCK FALSE

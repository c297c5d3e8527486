SPECIFICATION MCSpec
CONSTANTS
    t1 = t1
    t2 = t2
    t3 = t3
    Tasks = {t1, t2, t3}
    NoTask = NoTask
    MaxBytes = 2
    Sizes = {1, 2, 3}
    MaxOps <- Bounds
    h1 = h1
    Hashes = {h1}
    KeyHash <- Colliding
    None = None
    Reqs = {r1, r2}
    Ids = {a}
    MaxConcurrent = 2
    MaxLosses = 1
    MaxInFlight = 2
    Limits = {1, 2}
    MaxReloads = 1
    TripAfter = 3
    EpisodeGap = 2
    TrialCooldown = 1
    MaxIdle = 1
    MaxFaults = 1
INVARIANTS NoLostWakeup
PROPERTIES KeepsPromise EveryWaitEnds Answered AdmissionServes OpensOnlyOnOutage 
CHECK_DEADLOCK FALSE

SPECIFICATION MCSpec
CONSTANTS
    h1 = h1
    Hashes = {h1}
    KeyHash <- Colliding
    None = None
    Reqs = {r1, r2, r3}
    Ids = {a, b}
    MaxConcurrent = 1
    MaxLosses = 0
    MaxInFlight = 2
    Limits = {1, 2}
    MaxReloads = 1
SYMMETRY Symmetry
INVARIANTS FlightsExact NoLostWakeup NoStampede AdmissionExact
CHECK_DEADLOCK FALSE

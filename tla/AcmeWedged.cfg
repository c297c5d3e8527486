SPECIFICATION LiveSpec
CONSTANTS
    Domains = {d1}
    IsDns01 = TRUE
    Urls = {u1, u2}
    None = None
    MaxKeys = 2
    MaxFaults = 2
    MaxStops = 1
PROPERTY Renews
CHECK_DEADLOCK FALSE

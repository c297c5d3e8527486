SPECIFICATION MCSpec
CONSTANTS
    Domains = {d1}
    IsDns01 = TRUE
    Urls = {u1, u2}
    None = None
    MaxKeys = 2
    MaxFaults = 2
    MaxStops = 1
    HttpDomains = {d1, d2}
    HttpFaults = 1
    MaxReq = 2
    BodyLen = 2
    MaxData = 1
    InlineCap = 1
    RetryMax = 2
    LsapiFaults = 2
    HangupAt = {"acquire", "begin", "read"}
INVARIANTS AcmeExact RunsOnce OwnResponse
PROPERTIES RenewsUnlessRefused CleanMeansWhole SlotReturns
CHECK_DEADLOCK FALSE

SPECIFICATION MCSpec
CONSTANTS
    None = None
    Streamed = Streamed
    Failed = Failed
    Ids <- Two
    MaxConcurrent = 2
    MaxBody = 1
    PerConn = 1
    HeaderMem = 1
    MaxWindow = 2
    ParkedMax = 2
    ResetBurst = 1
    NoProgress = 2
    FirstWindow = 1
    Windows <- Below
    Grants <- Unit
    Lengths <- Nothing
    Shapes <- WholeRequest
    Verdicts <- Good
    Faults <- Nothing
    Bodies <- BufferedAnswer
    Reqs = {r1, r2}
    Waiters = {q1, q2, q3}
    MaxOpen = 1
    MaxData = 1
    Buffer = 1
INVARIANTS
    H2Wire
    H2Books
    H2Closing
    
CHECK_DEADLOCK FALSE

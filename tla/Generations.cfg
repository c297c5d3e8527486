SPECIFICATION MCSpec
CONSTANTS
    Tcp = {t1, t2}
    Uds = {u1}
    Layouts = {{t1, t2}, {t1}, {u1}}
    Conns = {c1}
    MaxEpoch = 3
    MaxGen = 3
    MaxSpan = 4
    Retiring = 2
    Absent = Absent
    Streamed = Streamed
    Failed = Failed
INVARIANTS
    OneAcceptor
    NoConnectionCut
    PublishedTogether
PROPERTIES
    Answered
    ShutdownCompletes
    
CHECK_DEADLOCK FALSE

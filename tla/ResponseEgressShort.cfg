SPECIFICATION LiveSpec
CONSTANTS
    c1 = c1
    s1 = s1
    s2 = s2
    Streams = {s1, s2}
    Conns = {c1}
    ConnOf <- BothOnOne
    Global = Global
    GlobalMax = 3
    ShareMax = 2
    FrameClaim = 1
    FileChunk = 2
    Threshold = 1
    FullLeaseMin = 1
    Depth = 1
    Sizes = {1, 2}
    Reading = {c1}
    MaxFrames = 1
PROPERTIES ReadersDrain
CHECK_DEADLOCK FALSE

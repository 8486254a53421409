CONSTANTS
    b1 = b1
    b2 = b2
    c1 = c1
    c2 = c2
    s1 = s1
    NoObj = NoObj
    Keys = {1, 2}
    MemObjs = {b1, b2}
    MAX_READ_LOCK_COUNT = 4
    ExtraCounts = {0}
    Watermark = 3
    EvictNum = 1
    EvictDen = 2
    TTLExpires = FALSE
    Adapters = {0}
    Requests = {c1, c2}
    StoreTasks = {s1}
    L2Capacity = 2
    Unreliable = {}
    SkipL1 = TRUE
    MaxInFlight = 1
    NumWorkers = 1
    KeyLists <- MCWhole
    ClearModes = {}
    MaxUnlocks = 1
SPECIFICATION MCSpec
INVARIANT PublishedDataValid
SYMMETRY Symmetry

CONSTANTS
    b1 = b1
    b2 = b2
    c1 = c1
    s1 = s1
    s2 = s2
    NoObj = NoObj
    Keys = {1, 2}
    MemObjs = {b1, b2}
    MAX_READ_LOCK_COUNT = 4
    ExtraCounts = {0, 1}
    Watermark = 3
    EvictNum = 1
    EvictDen = 2
    TTLExpires = FALSE
    Adapters = {0, 1}
    Requests = {c1}
    StoreTasks = {s1, s2}
    L2Capacity = 2
    Unreliable = {0}
    SkipL1 = TRUE
    MaxInFlight = 1
    NumWorkers = 2
    KeyLists <- MCWhole
    ClearModes = {}
    MaxUnlocks = 1
SPECIFICATION MCSpec
INVARIANTS ReadLocksAccounted L2LocksAccounted
SYMMETRY Symmetry

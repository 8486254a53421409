CONSTANTS
    b1 = b1
    c1 = c1
    c2 = c2
    s1 = s1
    NoObj = NoObj
    Keys = {1}
    MemObjs = {b1}
    MAX_READ_LOCK_COUNT = 4
    ExtraCounts = {0}
    Watermark = 3
    EvictNum = 1
    EvictDen = 2
    TTLExpires = TRUE
    Adapters = {0}
    Requests = {c1, c2}
    StoreTasks = {s1}
    L2Capacity = 2
    Unreliable = {0}
    SkipL1 = TRUE
    MaxInFlight = 1
    NumWorkers = 1
    KeyLists <- MCFirst
    ClearModes = {TRUE}
    MaxUnlocks = 1
SPECIFICATION MCFairSpec
PROPERTY LookupAnswered

CONSTANTS
    j1 = j1
    j2 = j2
    Jobs = {j1, j2}
    SpanEnds <- MCSpanEnds
    WorldSize <- MCWorldSize
    HasL2 = TRUE
    k1 = k1
    SyncKeys = {k1}
    PeersReady = {0}
    Peers = 0
    max_retry_count = 1
    max_poll_attempts = 1
    MaxSyncs = 2
    MaxFaults = 1
    MaxOps = 1
    MaxPush = 2
    Capacity = 2
    Threshold = 2
    HealthSetups <- MCHealthSetups
    b1 = b1
    b2 = b2
    NoObj = NoObj
    Keys = {1, 2, 3}
    MemObjs = {b1, b2}
    MAX_READ_LOCK_COUNT = 2
    ExtraCounts = {0}
    Watermark = 1
    EvictNum = 1
    EvictDen = 2
    TTLExpires = FALSE
    MaxReadHolds = 1
SPECIFICATION ProgressSpec
INVARIANTS AnswerIsPrefix UniformJobReleased
    SyncingHoldsSnapshot HotSettingRestored OrderFollowsCache EveryObjectEvictable
PROPERTIES UniformJobAnswered FreezeEnds RecoveryReached ColdObjectsEvicted
CHECK_DEADLOCK FALSE

CONSTANTS
    t1 = t1
    t2 = t2
    Threads = {t1, t2}
    Settings <- MCSettings
    TTL = 2
    MaxTime = 3
    MaxHolds = 2
    k1 = k1
    k2 = k2
    b1 = b1
    b2 = b2
    NoObj = NoObj
    Keys = {k1, k2}
    MemObjs = {b1, b2}
    MAX_READ_LOCK_COUNT = 2
    ExtraCounts <- MCExtraCounts
    MaxReadHolds = 3
    MaxFreeHolds = 1
    RawSizes = {1, 3}
    ALIGN_BYTES = 2
    InitSize = 7
    FinalSize = 14
    ExpandSize = 4
    MaxBatch = 3
    DiskKeys <- MCDiskKeys
    MaxDisk = 2
    MaxPins = 1
    DiskWorkers = 2
    Lookups = {r1}
    r1 = r1
    r2 = r2
    AsyncSetups <- MCAsyncSetups
    WorkerReqs = {r1}
    MaxStores = 2
    MaxRepeats = 2
    SchedReqs = {r1, r2}
    MaxJobs = 2
    MaxServerRuns = 2
    ChunkSize = 2
    PromptLens = {4, 5}
    MaxTokens = 6
    ConnectorSetups <- MCConnectorSetups
    PDReqs <- MCPDReqs
    PDKeysOf <- MCPDKeysOf
    PDBuffers = 2
    MaxPreempts = 1
    BlockKeys <- MCBlockKeys
    BlockSetups <- MCBlockSetups
    LWPrompts <- MCLWPrompts
    LWLayers = 2
    MaxSwitches = 1
    P2PReqs = {r1, r2}
    P2PSetups <- MCP2PSetups
    P2PBufs = {b1, b2}
    MaxReqs = 2
    MaxChunks = 2
    Bufs = {b1, b2}
    MinAccess = 1
    MaxRefs = 2
    EngineSetups <- MCEngineSetups
SPECIFICATION UnitsSpec
INVARIANTS NoHoldLost ReadersExcludeWriters NoBufferLeaked
    NoOverlap FreeListCoalesced DiskBounded AnswerIsLoaded UnansweredLoadsReported OrphanedLocksExplained
    HolesAreShortStores LossIsBeforeFailure PromisedChunksStay SlotsAccounted GotItsChunks
    PromisedLayersStay PutAfterCopy
    HeldDataIntact PinnedStays ReferencesAccounted CallNeverBlocked
PROPERTIES ImplementsHoldCounter BuffersPinned CleanupKeepsACopy
CHECK_DEADLOCK FALSE

SPECIFICATION EngineSpec
CONSTANTS
    MaxReqs = 2
    MaxChunks = 2
    Bufs = {b1, b2}
    MinAccess = 1
    MaxRefs = 2
    EngineSetups <- MCEngineSetups
PROPERTY StoresClear
CHECK_DEADLOCK FALSE

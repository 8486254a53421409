CONSTANTS
    Capacity = 2
    Threshold = 2
    HealthSetups <- MCHealthSetups
SPECIFICATION HealthSpec
PROPERTY HotCacheCleared
CHECK_DEADLOCK FALSE

CONSTANTS
    LWPrompts <- MCLWPrompts
    LWLayers = 2
    MaxSwitches = 0
SPECIFICATION LWSpec
INVARIANT EveryPutAfterCopy
CHECK_DEADLOCK FALSE

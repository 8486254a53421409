CONSTANTS
    BlockKeys <- MCBlockKeys
    BlockSetups <- MCBlockSetups
SPECIFICATION BlockSpec
INVARIANT IndexMatchesDevice
CHECK_DEADLOCK FALSE

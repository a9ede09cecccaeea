SPECIFICATION NetFairSpec
CONSTANTS
    MaxRetry = 2
    MaxDrops = 2
PROPERTIES
    FlagFollowsSession
CHECK_DEADLOCK FALSE

SPECIFICATION BridgeFairSpec
CONSTANTS
    First = First
    Second = Second
    Instances = {First, Second}
    Configs <- SomeConfigs
INVARIANT ServesOnlyWhenReady
PROPERTIES LeavesOnlyUnserved NewWorkReachesMiners ShutdownEnds
CHECK_DEADLOCK FALSE

SPECIFICATION BridgeFairSpec
CONSTANTS
    First = First
    Second = Second
    Instances = {First, Second}
    Configs <- Bootstrap
PROPERTY UnsyncedNodeIsServed
CHECK_DEADLOCK FALSE

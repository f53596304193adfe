SPECIFICATION FairSpec
CONSTANTS
    a = a  x = x  none = none
    Conns = {c1, c2}
    Ids <- MCIds
    NoId <- MCNoId
    Powers <- MCPowers
    MinDiff = 2
    NoSharesWait = 1
    MinElapsed = 1
    SparseElapsed = 2
    MinShares = 2
    Minute = 1
    ExpectedSpm = 1
    Seed = 8
    Ttl = 1
    MaxAge = 2
    MaxShares = 2
    MaxAuths = 3
INVARIANTS CountIsExact CachedDifficultyKept
PROPERTY WorkersAreForgotten
CHECK_DEADLOCK FALSE

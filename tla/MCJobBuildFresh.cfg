SPECIFICATION Spec
CONSTANTS
    Immediates = {i1, i2}
    Block = Block
    Parent = Parent
    Addresses = {k1}
    Pool = Pool
    Diffs = {1}
    Merged = TRUE
    PendingCap = 2
    MaxAuths = 2
    MaxGenerations = 2
    MaxJobs = 3
    MaxTurns = 0
    None = None
INVARIANT WatchdogNeedsFreshJob
CHECK_DEADLOCK FALSE

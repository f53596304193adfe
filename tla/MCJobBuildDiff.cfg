SPECIFICATION Spec
CONSTANTS
    Immediates = {i1}
    Block = Block
    Parent = Parent
    Addresses = {k1}
    Pool = Pool
    Diffs = {1, 2}
    Merged = TRUE
    PendingCap = 2
    MaxAuths = 1
    MaxGenerations = 2
    MaxJobs = 3
    MaxTurns = 1
    None = None
INVARIANT JobHasToldDifficulty
CHECK_DEADLOCK FALSE

SPECIFICATION FairSpec
CONSTANTS
    Immediates = {i1}
    Block = Block
    Parent = Parent
    Addresses = {}
    Pool = Pool
    Diffs = {1}
    Merged = TRUE
    PendingCap = 1
    MaxAuths = 1
    MaxGenerations = 1
    MaxJobs = 2
    MaxTurns = 0
    None = None
PROPERTY WorklessIsCutOff
CHECK_DEADLOCK FALSE

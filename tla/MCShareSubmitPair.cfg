SPECIFICATION Spec
CONSTANTS
    c1 = c1  c2 = c2  w = w  h1 = h1  h2 = h2  p1 = p1  p2 = p2  p3 = p3  n1 = n1  n2 = n2
    Conns = {c1, c2}
    Workers = {w}
    WorkerOf <- MCWorkerOf
    ValidWorkers = {}
    Parents = {p1, p2, p3}
    Lanes = {h1, h2}
    LaneOf <- MCLaneOf
    Nonces = {n1, n2}
    Clears <- MCClears
    Merged = TRUE
    KaspaClient = TRUE
    MaxJobs = 2
    MaxCompat = 2
    PendingCap = 1
    MaxTemplates = 3
    MaxSubmits = 3
    MaxForgets = 0
    None = None
INVARIANT BlockEventsPair
CHECK_DEADLOCK FALSE

SPECIFICATION Spec
CONSTANTS
    Reader = Reader
    Worker = Worker
    Watchdog = Watchdog
    Writers <- AllWriters
    Messages <- HandshakeMessages
    Attempts = 2
    MaxStalls = 1
    Slot = Slot
    Shut = Shut
    None = None
    Kinds <- IcmKind
    MaxExtranonce = 1
    Failover = TRUE
    MaxRequests = 2
    MaxJobs = 1
INVARIANT SettledKnowsExtranonce
CHECK_DEADLOCK FALSE

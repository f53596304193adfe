SPECIFICATION Spec
CONSTANTS
    Reader = Reader
    Worker = Worker
    Watchdog = Watchdog
    Writers <- AllWriters
    Messages <- HandshakeMessages
    Attempts = 2
    MaxStalls = 1
    Slot = Slot
    Shut = Shut
    None = None
    Kinds <- SomeKinds
    MaxExtranonce = 1
    Failover = TRUE
    MaxRequests = 2
    MaxJobs = 2
INVARIANTS TornLinesHaveACause LostMeansClosed ExtranoncesDistinct SettledKnowsExtranonce DifficultyBeforeJob WorklessIsWatched
PROPERTY SilentAfterShutdown
CHECK_DEADLOCK FALSE

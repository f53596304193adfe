SPECIFICATION FairSpec
CONSTANTS
    Reader = Reader
    Worker = Worker
    Watchdog = Watchdog
    Writers <- AllWriters
    Messages <- HandshakeMessages
    Attempts = 2
    MaxStalls = 1
    Slot = Slot
    Shut = Shut
    None = None
    Kinds <- OneKind
    MaxExtranonce = 1
    Failover = TRUE
    MaxRequests = 2
    MaxJobs = 1
INVARIANT TypeOK
PROPERTY HandlersEnd
CHECK_DEADLOCK FALSE

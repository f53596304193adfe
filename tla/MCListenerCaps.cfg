SPECIFICATION FairSpec
CONSTANTS
    c1 = c1
    c2 = c2
    c3 = c3
    p1 = p1
    p2 = p2
    i1 = i1
    i2 = i2
    Ports = {p1, p2}
    Ips = {i1, i2}
    Conns = {c1, c2, c3}
    PortOf <- TwoPorts
    IpOf <- TwoAddresses
    Reportable = {c1, c3}
    MaxConnPerIp = 1
    MaxTrackedIps = 1
    FrameCost = 1
    Burst = 1
    CanShutDown = TRUE
    MaxLines = 1
    MaxFrames = 1
    MaxClock = 0
INVARIANTS TicketsCounted NoGhostClients NamedSessionsClose
PROPERTY DroppedClientsRelease
CHECK_DEADLOCK FALSE

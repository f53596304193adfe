SPECIFICATION Spec
CONSTANTS
    c1 = c1
    c2 = c2
    c3 = c3
    p1 = p1
    p2 = p2
    i1 = i1
    i2 = i2
    Ports = {p1, p2}
    Ips = {i1, i2}
    Conns = {c1, c2}
    PortOf <- PairPorts
    IpOf <- Pair
    Reportable = {c1, c2}
    MaxConnPerIp = 2
    MaxTrackedIps = 2
    FrameCost = 2
    Burst = 3
    CanShutDown = FALSE
    MaxLines = 2
    MaxFrames = 3
    MaxClock = 3
INVARIANT FrameRateIsSustained
CHECK_DEADLOCK FALSE

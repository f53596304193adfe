SPECIFICATION Spec
CONSTANTS
    c1 = c1
    c2 = c2
    c3 = c3
    p1 = p1
    p2 = p2
    i1 = i1
    i2 = i2
    Ports = {p1, p2}
    Ips = {i1, i2}
    Conns = {c1, c2}
    PortOf <- PairPorts
    IpOf <- Pair
    Reportable = {c1, c2}
    MaxConnPerIp = 2
    MaxTrackedIps = 2
    FrameCost = 1
    Burst = 2
    CanShutDown = TRUE
    MaxLines = 1
    MaxFrames = 1
    MaxClock = 0
INVARIANT SessionsAreClosed
CHECK_DEADLOCK FALSE

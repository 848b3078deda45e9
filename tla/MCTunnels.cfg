SPECIFICATION MCSpec
CONSTANTS
    t1 = t1
    t2 = t2
    h1 = h1
    NoProc = NoProc
    Tunnels = {t1, t2}
    Hosts = {h1}
    HostOf <- MCHostOf
    Closers = {c1}
    Reapers = {r1}
    MaxConns = 1
    MaxGeneration = 2
INVARIANTS
    TunnelInv
PROPERTIES
    ClosesReturn
CHECK_DEADLOCK FALSE

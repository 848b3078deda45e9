SPECIFICATION Spec
CONSTANTS
    a1 = a1
    a2 = a2
    s1 = s1
    s2 = s2
    Apps = {a1, a2}
    Callers = {c1, c2}
    States = {s1, s2}
    Hosts <- MCHosts
    MaxPid = 3
    MaxCalls = 3
    None = None
INVARIANTS
    RuntimeInv
PROPERTIES
    KillIsJustified
    CallsEnd
CHECK_DEADLOCK FALSE

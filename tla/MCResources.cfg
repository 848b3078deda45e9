SPECIFICATION Spec
SYMMETRY CallerSymmetry
CONSTANTS
    u1 = u1
    u2 = u2
    Callers = {u1, u2}
    MaxPanes = 1
    MaxChannels = 2
    MaxGeneration = 2
INVARIANTS
    ResourceInv
    NoOrphanChannel
CHECK_DEADLOCK FALSE

SPECIFICATION PtySpec
CONSTANTS
    Callers = {u1, u2}
    MaxSessions = 1
    MaxPending = 2
    EventQueue = 2
    Loads <- MCLoads
    MaxId = 2
    MaxSub = 2
INVARIANTS
    TerminalInv
PROPERTIES
    ClosedReaderEnds
CHECK_DEADLOCK FALSE

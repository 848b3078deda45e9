SPECIFICATION MCSpec
CHECK_DEADLOCK FALSE
CONSTANTS
    NoCaller = NoCaller
    t1 = t1
    t2 = t2
    Users = {u1}
    Attempts = {t1, t2}
    Callers = {u1, t1, t2}
    MaxGeneration = 4
    MaxCandidates = 1
    MaxCommands = 2
INVARIANTS
    TokenHasAttempt
    SingleFlightUntilDisconnect
    LiveIsSupervised
PROPERTIES
    ReconnectingIsRetried
    CommandsReturn

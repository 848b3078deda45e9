SPECIFICATION MCSpec
CHECK_DEADLOCK FALSE
CONSTANTS
    t1 = t1
    t2 = t2
    Transfers = {t1, t2}
    NoTransfer = NoTransfer
    Destinations = {"model.bin"}
    Dest <- OneDestination
    Chunks = 2
    MaxPermits = 2
    MaxRetries = 1
    RetryCalls = {r1}
    PoliteRetry = TRUE
    MaxVersions = 2
    MaxPauses = 1
INVARIANTS
    PublishedIsWhole
    ActiveIsLeased
PROPERTIES
    UnpausedFreesDestination

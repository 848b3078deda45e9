SPECIFICATION SessionSpec
CONSTANTS
    Callers = {c1, c2}
    NoCaller = NoCaller
    MaxGeneration = 3
    MaxCandidates = 2
INVARIANTS
    GuardedWritesAccepted
    ReadyIsCurrent
    NeverStrandedMidConnect
PROPERTIES
    OnlyHolderLeavesConnecting
    ImplementsContract
    PendingDropSurfaces

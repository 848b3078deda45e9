SPECIFICATION PumpSpec
CONSTANTS
    All = All
    None = None
    End = End
    Channels = {c1}
    Subs = {s1, s2}
    MaxGeneration = 2
    Loads <- MCLoads
    QueueSize = 1
    InboxSize = 1
    Headroom = 1
    MaxPending = 1
INVARIANTS
    EventInv
PROPERTIES
    EndPassesPump
CHECK_DEADLOCK FALSE

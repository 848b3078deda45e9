SPECIFICATION DialSpec
CONSTANTS
    PreferTailscale = TRUE
    AllowPublic = TRUE
    Scenarios <- MCScenarios
    Statuses <- MCStatuses
    MaxAddrs = 2
INVARIANTS
    DialInv
    CandidatesAreRight
PROPERTIES
    DialEnds
CHECK_DEADLOCK FALSE

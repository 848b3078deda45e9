SPECIFICATION MCSpec
CONSTANTS
    MaxRuns = 3
    Background <- MCBackground
    Codes <- MCCodes
    NoExit = NoExit
    Limit = 2
    BatchSize = 1
    MaxCrashes = 1
INVARIANTS
    HistoryIsTrue
    CleanedIsSettled
    ObservedIsKept
PROPERTIES
    SettledResultIsFinal
    RecordedIsSettled

CONSTANTS
    None = None
    NScopes = 2
    Metrics <- TheMetrics
    Reported <- TheReported
    PolicySets <- Documents
    Traffics <- AllTraffics
    Window = 2
    MaxDelay = 1
    MaxLag = 1
    MaxEntries = 1
    IdleTtl = 4
    StaleAfter = 5
    Horizon = 5
    Sequences = 2
SPECIFICATION DFairSpec
INVARIANTS EventsAreDetections TrackedUnderItsWinner
PROPERTIES OpensInTime ClosesInTime DetectionsEnd
CHECK_DEADLOCK TRUE

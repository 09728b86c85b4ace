SPECIFICATION DecisionsSpec
CONSTANTS
    None = None
    Nobody = Nobody
    MaxLength <- Bits
    Floor <- Widest
    MinDuration = 1
    MinApprovalWindow = 1
    MaxApprovalWindow = 2
    MaxDuration = 3
    MaxRate = 1
    Files <- AllFiles
    Questions <- AllQuestions
    Askers <- TwoTenants
    MaxBits <- Bits
    PrefixLists <- Lists
    SeenFlows <- TheFlows
    MaxEntries <- Limits
    WINDOW_DURATIONS = {1, 2}
    Ttl = 1
    WindowLength = 1
    MaxScopes <- ScopeLimits
    Slash24Bits = 1
    PolicyDocuments <- AllDocuments
    ScopeKeys <- SomeKeys
    Units <- UnitSizes
    Magnitudes <- SuffixSizes
    MaxU64 = 32
    MAX_WINDOW = 3
    MAX_TIMER = 10
    MAX_POLICIES = 2
    MAX_TENANT_PREFIXES = 1
    DefaultUpdateInterval = 4
    MaxTime = 2
    MaxFlows <- FlowsFor
    Nothing = Nothing
    r1 = r1
    stranger = stranger
    MAX_TEMPLATES = 2
    MAX_TEMPLATE_FIELDS = 4
    MaxCount = 2
    ExporterConfigured = Nothing
    GlobalDefault = 1
    Keys <- Everyone
    Allowed = {r1}
    max_exporters = 1
    queue_capacity = 1
    SeqSpace = 8
    Bodies <- AllBodies
    MaxSends = 4
    MaxLives = 2
    MaxLosses = 2
    MaxInFlight = 1
CHECK_DEADLOCK FALSE
INVARIANTS
    OnlyOwnTraffic
    PoliciesApplyAsWritten
    MostRecentAreKept
    RatesAreOfTheirWindow
    CacheAccounted
    RestartShownIsHeeded

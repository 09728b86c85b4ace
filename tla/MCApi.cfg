SPECIFICATION Spec
CONSTANTS
    None = None
    Slots = {r1, r2}
    Tokens = {t1}
    SessionIds = {s1}
    Sources = {1, 2}
    Callers <- MCCallers
    Lifetimes = {0, 4}
    MAX_LIFETIME = 8
    IDLE_TIMEOUT = 3
    ABSOLUTE_LIFETIME = 6
    TOUCH_INTERVAL = 1
    FAILED_AUTH_QUOTA <- MCQuota
    FAILED_AUTH_MAX_KEYS = 1
    MaxTime = 4
    MaxRequests = 4
    Lines <- MCLines
    CallerRoles = {"noc_lead", "operator"}
    MAX_ATTEMPTS = 3
    MUTATION_QUOTA <- MCQuota
    MaxClock = 2
    MaxElsewhere = 1
    IncidentIds = {1, 2, 3}
    TenantOf <- MCTenantOf
    Reader = "mine"
    Queries <- MCQueries
    Writers = {w1, w2}
    MAX_PAGE_SIZE = 2
    MAX_RANGE = 2
    MaxMoment = 1
    MaxEntries = 3
INVARIANTS InUseStaysIn LockoutEnds RetriedCallIsOneCall WalkIsComplete
CHECK_DEADLOCK FALSE

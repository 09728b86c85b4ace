SPECIFICATION Spec
CONSTANTS
    None = None
    host = host
    w1 = w1
    w2 = w2
    m = m
    o = o
    Events <- Pool
    KeyOf <- HostOf
    DetectionOf <- Episodes
    KindOf <- Kinds
    ClassOf <- Classes
    CriticalOf <- Critical
    SilentAfter = 1
    Confirmation = 1
    ClosureDelay = 1
    Window = 1
    EvidenceMax = 1
    NotesMax = 1
    MaxLag = 1
    Keys <- OneKey
    SlotOf <- OwnSlot
    N = 3
    Workers = {w1, w2}
    Maintainers = {m}
    Operators = {o}
    Offered <- OfEachKind
    Severities = {FALSE}
    Batch = 1
    MaxAttempts = 2
    Reruns = 2
    MaxEvents = 2
    MaxDisturbances = 1
SYMMETRY Symmetric
INVARIANTS
    LedgerMatchesLinks
    ProcessedIsLinked
PROPERTIES
    VersionProtects
    TimersActWhenDue

CONSTANTS
    s1 = s1
    s2 = s2
    acme = acme
    globex = globex
    Scopes = {s1, s2}
    TenantOf <- MCTenantOf
    ModeOf <- MCModeOf
    None = None
    Configurations <- MCConfigurations
    EventBuffer = 1
    QueueCapacity = 2
    BatchSize = 2
    FinalAttempts = 2
    MaxRows = 2
    MaxInterval = 1
    MaxPendingBatches = 1
    InitialBackoff = 1
    MaxBackoff = 1
    MaxWriteAttempts = 2
    MaxTime <- MCMaxTime
    MaxEvents <- MCMaxEvents
    MaxInstances = 2
SPECIFICATION DeliverySpec
INVARIANTS
    InboxInOrder
    RowsAccounted
    LossIsReported
CHECK_DEADLOCK FALSE
PROPERTY BacklogDrains

CONSTANTS
    None = None
    Messages = {1}
    Consumers = {c1, c2}
    c1 = c1
    c2 = c2
    BatchSize = 1
    MaxAttempts = 2
    File <- MCFile
    Content <- MCContent
    RateLimited = TRUE
    REMEMBERED_MESSAGES = 1
    MaxFaults = 2
SPECIFICATION NotifierSpec
PROPERTIES RetriesOnlyTheFailed Promised
CHECK_DEADLOCK FALSE

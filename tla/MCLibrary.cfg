SPECIFICATION LibrarySpec
CONSTANTS
    Week = 50
    Saturation = 3
    FloatOverflow = 5
    Kinds = {"exponential", "fixed", "none", "other"}
    Delays = {0, 1, 3, 7, 60}
    JobIds = {0, 1, 5, 11}
    Budgets = {0, 1, 2, 3, 9}
    QueueName = {"default", "emails", "heavy"}
    Value = {1, 2}
    Default = 1
    None = None
    MaxNames = 2
    MaxCalls = 4
    Thread = {t1, t2}
    Client = {c1}
    Cost = 3
    burst = 2
    Second = 2
    STALE_AFTER = 4
    CLEANUP_INTERVAL = 2
    NoBucket = NoBucket
    MaxTime = 7
    Byte = {"a", "b", "/"}
    Name = {":x", ":y"}
    NoName = ""
    Pattern <- Patterns
    Group <- Groups
    RequestPath <- Paths
    MaxRoutes = 3
    Row <- Rows
    Column <- Columns
    Limit = {0, 1, 2, 9}
    default_per_page = 2
    max_per_page = 3
    NoToken = 0
    Layer = {"trace", "log", "cors", "compress", "timeout", "tower", "limit"}
    MaxLayers = 2
    Sender = {q1, q2}
    Kind <- RequestKinds
INVARIANTS
    ScheduleKept
    QueuesResolved
    RateRespected
    RetryAfterSuffices
    ResolveAgrees
    WalksCover
    AnswersExplained
CHECK_DEADLOCK FALSE

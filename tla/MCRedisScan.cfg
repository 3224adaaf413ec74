SPECIFICATION RedisSpec
CONSTANTS
    Thread = {r1, r2}
    Path <- RedisPath
    Query <- OneQuery
    Mutation <- RedisMutation
    SegmentPrefix = {}
    max_entries = 1
    CleanupInterval = 2
    MaxWrites = 2
    Ttl = {1}
    ScanCount = 1
    Faults = FALSE
    GlobPrefix = {}
    GlobMatch = {}
INVARIANT InvalidatesAll
CHECK_DEADLOCK FALSE

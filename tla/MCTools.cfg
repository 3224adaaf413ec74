SPECIFICATION ToolsSpec
CONSTANTS
    Worker = {w1, w2}
    Request = {q1, q2}
    Server = Server
    Hooks = 2
    MaxBatch = 2
    Task = {r1, r2}
    Discovery = TRUE
    NoKeys = NoKeys
    MaxRotations = 2
    MaxEdits = 2
    Script <- Scripts
    PipeCapacity = 2
    Thread = {r1, r2}
    Path <- MCPath
    Query <- MCQuery
    Mutation <- MCMutation
    SegmentPrefix <- MCSegmentPrefix
    max_entries = 1
    CleanupInterval = 2
    MaxWrites = 2
    Ttl = {1}
    NoField = NoField
    Error = Error
    Output <- Outputs
    ChannelCapacity = 1
    SocketRoom = 1
    KeepAlive = {0, 2}
INVARIANTS
    StopsInOrder
    CacheCoherent
    CapacityRespected
PROPERTIES
    SignalEndsAll
    KeysGoForward
    RotationsReachCache
    FreshEntriesStay
    SettlesFresh
    EventsArrive
    CatchesUp
    TestsEnd
CHECK_DEADLOCK FALSE

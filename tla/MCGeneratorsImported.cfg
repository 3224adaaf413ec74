SPECIFICATION GeneratorsSpec
CONSTANTS
    m1 = m1
    m2 = m2
    m3 = m3
    Operation <- Operations
    Missing = Missing
    ComponentType <- InComponentType
    HandlerType <- InHandlerType
    Tags = {m1, m2}
    MaxOperations = 3
    Name = {"rapina_jobs_index"}
    Jobs = "rapina_jobs"
    JobsLike = {"rapina_jobs", "rapina_jobs_index"}
    MaxTime = 2
    Database <- Databases
    Irregular = {"categories"}
    EndsWith <- TagsAtEnd
    Reserved <- ReservedNames
    Handwritten <- EntityFiles
    MaxCommands = 2
    EntityAttr <- EntityAttrs
    FieldDef <- Fields
    SnakeCase <- InSnakeCase
    MaxFields = 3
    Version <- Versions
    Param <- Segments
    Text <- Texts
    NotGiven = NotGiven
    MaxParent = 1
    MaxChild = 1
    NoBackup = NoBackup
    NoLoad = NoLoad
    Backend = {"sqlite", "postgres", "mysql"}
    Thread = {r1, r2}
    Path <- RedisPath
    Query <- OneQuery
    Mutation <- RedisMutation
    SegmentPrefix = {}
    max_entries = 1
    CleanupInterval = 2
    MaxWrites = 2
    Ttl = {0, 1}
    ScanCount = 1
    Faults = TRUE
    GlobPrefix <- Globs
    GlobMatch <- GlobMatches
INVARIANTS
    ImportedBlocksCompile
CHECK_DEADLOCK FALSE

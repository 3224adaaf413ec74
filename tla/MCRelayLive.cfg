SPECIFICATION FairSpec
CONSTANTS
    Conn = {c1}
    Topic = {t1, t2}
    Channel = {t1}
    max_subscriptions = 1
    topic_capacity = 1
    FunnelCapacity = 1
    NoKey = NoKey
    NoConn = NoConn
    MaxForwarders = 2
    MaxPush = 2
INVARIANTS
    TasksBounded
PROPERTIES
    ReceiversReleased
    PushesArrive
CHECK_DEADLOCK FALSE

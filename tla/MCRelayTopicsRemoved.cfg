SPECIFICATION Spec
CONSTANTS
    Conn = {c1}
    Topic = {t1}
    Channel = {}
    max_subscriptions = 1
    topic_capacity = 1
    FunnelCapacity = 1
    NoKey = NoKey
    NoConn = NoConn
    MaxForwarders = 1
    MaxPush = 1
INVARIANTS
    TopicsRemoved
CHECK_DEADLOCK FALSE

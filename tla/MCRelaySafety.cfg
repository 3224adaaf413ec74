SPECIFICATION Spec
CONSTANTS
    Conn = {c1, c2}
    Topic = {t1}
    Channel = {t1}
    max_subscriptions = 1
    topic_capacity = 1
    FunnelCapacity = 1
    NoKey = NoKey
    NoConn = NoConn
    MaxForwarders = 2
    MaxPush = 2
SYMMETRY Symmetry
INVARIANTS
    TypeOK
    SubscribersReachable
    DeliveredInOrder
    PresenceExact
CHECK_DEADLOCK FALSE

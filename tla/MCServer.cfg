SPECIFICATION SFairSpec
CONSTANTS
    l1 = l1
    ClientIDs = {z, c}
    Addrs = {empty, a}
    NoAddr = NoAddr
    ZeroID = z
    Capacity = 2
    Bindaddrs <- OneBindaddr
    Sessions = {s1}
    Streams = {1}
    Params = {a, junk}
    Empty = empty
    QueueCap = 1
    WithTLS = TRUE
INVARIANTS ListenersSound CurrentIsNewest
PROPERTIES ImplementsRecentAddrs CreditsMostRecent SignalEnds ProxyEnds
CHECK_DEADLOCK FALSE

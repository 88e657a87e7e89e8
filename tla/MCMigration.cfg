SPECIFICATION FairSpec
CONSTANTS
    p1 = p1
    p2 = p2
    Proxies <- MCProxies
    First = p1
    NoProxy = NoProxy
    TransferNow = {TRUE}
    MaxSessions = 2
    MaxConnects = 2
    MaxOrders = 2
    MaxQueue = 1
    MaxFaults = 1
INVARIANTS MakeBeforeBreak OrdersArrive
PROPERTIES HandoverCompletes
CHECK_DEADLOCK FALSE

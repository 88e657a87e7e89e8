SPECIFICATION FairSpec
CONSTANTS
    a = a
    b = b
    w1 = w1
    s1 = s1
    s2 = s2
    Addrs = {a, b}
    Timeout = 1
    MaxTime = 2
    MaxQueues = 4
    Writers = {w1}
    Conns = {s1, s2}
    QueueSize = 1
    MaxPackets = 2
INVARIANTS QueuesServeOwners
PROPERTIES ExpiresExactly WriteLoopEnds
CHECK_DEADLOCK FALSE

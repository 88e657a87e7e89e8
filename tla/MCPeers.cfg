SPECIFICATION FairSpec
CONSTANTS
    t1 = t1
    t2 = t2
    Capacity = 1
    Transfers = {t1, t2}
    MaxPeers = 3
INVARIANTS EndReachesAll CollectSendsOnOpen
PROPERTIES DialLoopStops
CHECK_DEADLOCK FALSE

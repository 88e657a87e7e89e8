SPECIFICATION Spec
CONSTANTS
    a = a
    b = b
    c1 = c1
    c2 = c2
    n1 = n1
    n2 = n2
    r1 = r1
    MaxFlakes = 2
    MaxClients = 2
    NATs = {"unrestricted"}
    IPs = {a, b}
    Cids = {c1, c2}
    ClientNAT <- AllUnrestricted
    Offers = {1}
    Notices = {n1, n2}
    Rescalers = {r1}
    Rooms = {1}
    OldLists <- OldSome
    PollsPerIP = 1
    MaxOffers = 2
    MaxMatches = 2
    MaxRestarts = 1
INVARIANTS PoolConsistent AllClientsMigrated
SYMMETRY Interchangeable
CONSTRAINT RestartedBound
CHECK_DEADLOCK FALSE

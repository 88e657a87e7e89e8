SPECIFICATION Spec
CONSTANTS
    MaxFlakes = 4
    MaxClients = 3
    NATs = {"unrestricted", "restricted"}
    Rescales = FALSE
INVARIANTS PoolIntact TimedOutLeaves
PROPERTIES LeastLoadedFirst
CHECK_DEADLOCK FALSE

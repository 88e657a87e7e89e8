SPECIFICATION RelayFairSpec
CONSTANT Capacities = {0, 2}
INVARIANTS TokensReturned
PROPERTIES SessionEnds NothingLeft
CHECK_DEADLOCK FALSE

SPECIFICATION FairSpec
CONSTANTS
    Tasks = {"nat", "log"}
    Workers = {1, 2}
    MaxStarts = 2
    MaxBytes = 1
    MaxEvents = 1
    ChanCap = 1
INVARIANTS ChainsSound TrafficNotInvented
PROPERTIES ClosedEnds GetsReported
CHECK_DEADLOCK FALSE

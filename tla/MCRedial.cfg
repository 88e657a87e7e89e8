SPECIFICATION RedialFairSpec
CONSTANTS
    QueueSize = 2
    MaxDials = 2
    MaxPackets = 3
INVARIANTS StealsAtMostOne AtMostOneBlocked
PROPERTIES ConnsAreLeft
CHECK_DEADLOCK FALSE

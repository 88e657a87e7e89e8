SPECIFICATION UpFairSpec
CONSTANTS
    Clients = {c1, c2}
    Lengths = {63, 8192, 1048576}
    Paddings = {1088}
    Budgets = {1, 2, 63, 64, 65, 66, 8191, 8192, 8193, 8194, 8195, 1048575}
    MaxWrites = 2
    Buffers = {b1, b2, b3, b4}
    MTU = 1400
    QueueSize = 1
INVARIANTS ChunksSound DeliveredInOrder
PROPERTIES ReadersEnd
CHECK_DEADLOCK FALSE

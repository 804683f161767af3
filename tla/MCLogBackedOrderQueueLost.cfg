SPECIFICATION QueueSpec
CONSTANTS
    o1 = o1
    c1 = c1
    c2 = c2
    Orders = {o1}
    Consumers = {c1}
    MaxLog = 3
    MaxStarts = 2
    MaxCrashes = 1
INVARIANTS NoOrderLost
CHECK_DEADLOCK FALSE

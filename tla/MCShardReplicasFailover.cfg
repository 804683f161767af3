SPECIFICATION Spec
CONSTANTS
    r1 = r1
    r2 = r2
    NoReplica = NoReplica
    Orders = {0, 1}
    Consumers = {r1, r2}
    MaxLog = 3
    MaxStarts = 1
    MaxCrashes = 1
INVARIANTS EveryTradePublished
CHECK_DEADLOCK FALSE

SPECIFICATION FairSpec
CONSTANTS
    r1 = r1
    r2 = r2
    NoReplica = NoReplica
    Orders = {0, 2}
    Consumers = {r1, r2}
    MaxLog = 3
    MaxStarts = 2
    MaxCrashes = 1
INVARIANTS TypeOK OneActive WarmBook ExactBeforeFailover
    ExactUnlessKilled OneLostPerKill DuplicatesBounded
PROPERTIES TakesOver
CHECK_DEADLOCK FALSE

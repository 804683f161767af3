SPECIFICATION FairSpec
CONSTANTS
    g1 = g1
    g2 = g2
    s1 = s1
    Symbols <- MCSymbols
    ShardOf <- MCShardOf
    Gateways = {g1, g2}
    Subscribers = {s1}
    Shards = {0, 1}
    ShardCounts = {1, 2}
    Quantities = {0, 2}
    MaxPush = 3
    MaxSubStarts = 2
    MaxSubKills = 1
INVARIANTS TypeOK ShardingTransparent MismatchWarned HistoryThenLive
PROPERTIES TradesReachSubscribers
CHECK_DEADLOCK FALSE

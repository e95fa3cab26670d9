CONSTANTS
    pair1 = pair1
    shard1 = shard1
    Pairs <- OnePair
    Shards <- OneShard
    ShardOf <- SameShard
    WindowSizes = {1, 3}
    Trades <- ThreeTrades
    Callers = {p1, p2}
    MaxTime = 3
    MaxStarts = 1
SPECIFICATION FairSpec
INVARIANTS WorkerInv EachTradeOnce
PROPERTIES StopReturns EventuallyEmitted
CHECK_DEADLOCK FALSE

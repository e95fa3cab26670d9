SPECIFICATION FairSpec
CONSTANTS
    s1 = s1
    Slots <- OneSlot
    Stream <- Mixed
    PullBatch = 2
    BatchSize = 2
    MaxFaults = 2
    MaxResets = 1
INVARIANTS SinkInv LossBounded CopiesNeedFaults
PROPERTIES EventuallyStored
CHECK_DEADLOCK FALSE

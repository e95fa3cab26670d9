SPECIFICATION Spec
CONSTANTS
    s1 = s1
    Slots <- OneSlot
    Stream <- Mixed
    PullBatch = 2
    BatchSize = 2
    MaxFaults = 1
    MaxResets = 1
INVARIANT ExactlyOnce
CHECK_DEADLOCK FALSE

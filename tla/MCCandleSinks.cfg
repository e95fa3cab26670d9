SPECIFICATION FairSpec
CONSTANTS
    b1 = b1
    b2 = b2
    Bad = Bad
    Buckets <- TwoBuckets
    Streams <- SomeStreams
    PullBatch = 2
    BatchSize = 2
    BatchRows = 2
    MaxStops = 1
    MaxFaults = 2
    MaxResets = 1
INVARIANTS SinksInv LossBounded DuplicatesBounded
 
CHECK_DEADLOCK FALSE

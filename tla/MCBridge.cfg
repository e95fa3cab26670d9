SPECIFICATION FairSpec
CONSTANTS
    i1 = i1
    i2 = i2
    NoId = NoId
    Streams <- TwoStreams
    Traffic <- FourMessages
    Mappings <- TwoRules
    NameLength = 8
    FetchBatch = 2
    MaxFaults = 3
INVARIANT BridgeInv
PROPERTIES ImplementsForwarder RunReturns EventuallySettled
CHECK_DEADLOCK FALSE

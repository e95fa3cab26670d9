CONSTANTS
    NumClients = 2
    ChannelCap = 2
    MaxFailures = 3
SPECIFICATION FailoverSpec
CHECK_DEADLOCK FALSE
INVARIANTS
    FailoverTypeOK
    SingleFeed
PROPERTIES
    ShutdownReturns
    SurvivesOneFailure

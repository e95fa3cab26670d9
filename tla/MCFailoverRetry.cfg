CONSTANTS
    NumClients = 2
    ChannelCap = 1
    MaxFailures = 2
SPECIFICATION FailoverSpec
CHECK_DEADLOCK FALSE
PROPERTY
    KeepsIngesting

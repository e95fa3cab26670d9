SPECIFICATION FairSpec
CONSTANTS
    Feed <- LateFeed
    StartSlots <- ZeroOrKnown
    ReplaySlots = 2
    UpdateCap = 2
    OutCap = 1
    MaxFaults = 2
INVARIANT ClientInv
PROPERTIES DownIsNoticed CloseEnds EventuallySeen
CHECK_DEADLOCK FALSE

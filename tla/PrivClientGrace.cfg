SPECIFICATION FairSpec
CONSTANTS
    MaxOps = 1
    MaxPings = 0
    MaxProgress = 3
    ChanCap = 1
PROPERTIES
    GraceEndsReadLoop
CHECK_DEADLOCK FALSE

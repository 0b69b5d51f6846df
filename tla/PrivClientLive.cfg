SPECIFICATION FairSpec
CONSTANTS
    MaxOps = 1
    MaxPings = 1
    MaxProgress = 1
    ChanCap = 2
PROPERTIES
    CallersComeBack
CHECK_DEADLOCK FALSE

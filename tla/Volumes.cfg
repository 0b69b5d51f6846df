SPECIFICATION Spec
CONSTANTS
    Devices = 4
    SysfsDepth = 2
    DiskutilDepth = 1
    DiskSizes <- Sizes
    MaxDiskSize = 83890176
    Icbs = {1, 2, 3, 4}
    Names <- AllNames
    BadNames = {"nul"}
    Folds <- FoldOf
    MaxEntries = 3
    MaxDepth = 2
INVARIANTS
    
    LayoutIsSound
    OneLayoutAtATime
    ImageIsATree
    ProbeTellsTheUse
    
CHECK_DEADLOCK FALSE

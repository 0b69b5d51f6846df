SPECIFICATION Spec
CONSTANTS
    Hosts = {"linux", "windows", "darwin"}
    FileMax = 3
    PartMax = 3
    WimSizes = {3, 4}
    WimBlobs <- Lists
INVARIANTS
    
    SuccessIsComplete
PROPERTIES
    BadImageCostsNothing
CHECK_DEADLOCK FALSE

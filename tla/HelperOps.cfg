SPECIFICATION FairSpec
CONSTANTS
    Jobs <- AllJobs
    Vols = {"v1", "v2"}
    Chunks = 3
    FlushAt = 2
    UnmountAttempts = 2
    LockAttempts = 2
    Swaps = 1
INVARIANTS
    HeldOnlyWhileNeeded
    OnlyWhatPassedTheGate
    
PROPERTIES
    NoWriteUnderAMount
    ConsentFirst
    
CHECK_DEADLOCK FALSE

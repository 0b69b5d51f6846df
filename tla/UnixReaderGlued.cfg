SPECIFICATION Spec
CONSTANTS
    MaxWrites = 1
    MaxPings = 1
    ChunkCap = 4
INVARIANTS
    ImageReachesItsRequest
CHECK_DEADLOCK FALSE

SPECIFICATION Spec
CONSTANTS
    MaxWrites = 3
    MaxPings = 3
    ChunkCap = 3
INVARIANTS
    NeverAnothersImage
    DescriptorsAccounted
CHECK_DEADLOCK FALSE

SPECIFICATION StoreSpec
CONSTANTS
    Jobs = {j1, j2}
INVARIANTS
    EveryEndIsShown
CHECK_DEADLOCK FALSE

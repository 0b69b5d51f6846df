SPECIFICATION FairSpec
CONSTANTS
    MaxReq = 3
    WireCap = 1
    Requests <- EachRequest
INVARIANTS
    IdleOnlyWhenQuiet
    InflightIsTheRunner
    OutputInOpOrder
    DescriptorsOwned
    NothingOutlivesSession

    
    
CHECK_DEADLOCK FALSE

SPECIFICATION FairSpec
CONSTANTS
    Depth = 2
    DataBits = 2
    TotalTicks = 3
    HalfTicks = 1
    Keys <- TwoKeys
    CR <- Ones
    MaxCount = 2
INVARIANTS FifoHoldsWhatWasTyped RequestMeansCharacter EveryFrameHeardOnce SentWhenResumed
PROPERTIES WaitsEnd

SPECIFICATION FairSpec
CONSTANTS
    Servers = {1, 2, 3}
    kNumReplicas = 2
    kSaturationLatencyUs = 10
    kSaturationLatencyPenaltyUs = 11
    kPeakWriteIOPSPerSSD = 300
    Policies = {"kNoOp", "kRWIsolationStrict", "kRWIsolationWeak", "kAdaptiveRWIsolationWeak", "kProfileGuided", "kProfileGuidedRWIsolation"}
    Models <- MCModels
    Loads <- MCLoads
INVARIANTS
    
    
    ReadsGoToHolders
    PeakLoadIsServable
PROPERTY
    EveryServerTakesWrites

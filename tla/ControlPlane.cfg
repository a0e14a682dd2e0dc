SPECIFICATION FairSpec
CONSTANTS
    NumServers = 2
    Reporters = {1}
    kNumReplicas = 1
    MaxOps = 1
    MaxFailures = 1
INVARIANTS
    
    EachReportCountedOnce
    CommittedModeWasHeld

    

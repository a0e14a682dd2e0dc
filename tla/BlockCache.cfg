SPECIFICATION FairSpec
CONSTANTS
    t1 = t1
    t2 = t2
    t3 = t3
    Threads = {t1, t2, t3}
    NumVolumes = 2
    VolumeOf <- TwoVolumes
    Cores = {c1, c2}
    PerCoreCapacity = 1
    AllocationBatch = 2
    MaxGets = 2
\* the threads stop after MaxGets blocks each
CHECK_DEADLOCK FALSE
INVARIANT EachBlockOnce
PROPERTY GetReturns

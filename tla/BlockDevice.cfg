SPECIFICATION DevFairSpec
CONSTANTS
    t1 = t1
    t2 = t2
    al = al
    q1 = q1
    Sync = {t1, t2, al}
    Async = {}
    NumCores = 2
    kMaxPerRequestConcurrency = 2
    kMaxPerWriteRequestConcurrency = 1
    SectorSize = 4
    Tags = {t1, t2}
    Alloc = al
    Queues = {q1}
    QueueOf <- MCQueueOf
    Sectors <- MCSectors
    NumBatches = 2
    ErrorCodes = {5}
\* the agent may end, and a queue whose caller missed its wakeup may stand still
CHECK_DEADLOCK FALSE
INVARIANTS
    NoStrandedRequest
    OncePerRequest
    TagAnsweredOnce
    EverySectorOnce
    ResultExact
    
PROPERTIES
    StopReturns
    IOEnds

SPECIFICATION Spec
CONSTANTS
    Writers = {w1, w2}
    Readers = {}
    Allocators = {}
    Sectors = {v1}
    Servers = {s1}
    s1 = s1
    s2 = s2
    s3 = s3
    kInvalidServerID = kInvalidServerID
    Affinity = s1
    WriteReplicas <- OneServer
    FailedServers = {}
    MaxAttempts = 2
    MaxRefusals = 1
    MaxBlocks = 8
    GCEnabled = TRUE
    Blank = Blank
    Trimmed = Trimmed
    ENOENT = ENOENT
\* each request is submitted once: the system stops when all have returned
CHECK_DEADLOCK FALSE
SYMMETRY Symmetry
INVARIANTS IInv NoSharedBlock Durable LiveNotDiscarded

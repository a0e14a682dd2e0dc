SPECIFICATION FairSpec
CONSTANTS
    Writers = {w1}
    Readers = {r1}
    Allocators = {}
    Sectors = {v1}
    Servers = {s1, s2, s3}
    s1 = s1
    s2 = s2
    s3 = s3
    kInvalidServerID = kInvalidServerID
    Affinity = kInvalidServerID
    WriteReplicas <- MovingPair
    FailedServers = {s1, s2}
    MaxAttempts = 2
    MaxRefusals = 2
    MaxBlocks = 4
    GCEnabled = FALSE
    Blank = Blank
    Trimmed = Trimmed
    ENOENT = ENOENT
\* each request is submitted once: the system stops when all have returned
CHECK_DEADLOCK FALSE
PROPERTY RejectedReadsResolveAgain

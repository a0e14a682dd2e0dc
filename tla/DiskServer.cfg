SPECIFICATION DSSpec
CONSTANTS
    Backends = {"blk", "mem", "spdk"}
    Threads = {h1, h2}
    NumCores = 2
    MaxOps = 2
    MaxSwitches = 1
SYMMETRY ThreadSymmetry
INVARIANTS
    ReportsAreExact
    AccountedOnce

SPECIFICATION Spec
CONSTANTS
    Sync = {q1}
    Async = {}
    NumCores = 2
CHECK_DEADLOCK FALSE
INVARIANT WakeFollowsArm

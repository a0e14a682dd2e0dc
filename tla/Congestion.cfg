SPECIFICATION CCFairSpec
CONSTANTS
    Window = 2
    kBestUncongestedRateLimit = 4
    kBestCongestedRateLimit = 1
    Callers = {x1}
    MaxReplies = 2
INVARIANT LimitInv
PROPERTIES
    LimitMovesByRule
    RateRecovers
    CongestionIsAnswered

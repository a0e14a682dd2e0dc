SPECIFICATION FairSpec
CONSTANTS
    Callers = {c1, c2, c3}
    EmptyReply = {c3}
    kNumCredits = 2
    CounterRange = 3
    MaxCalls = 2
    MayBreak = TRUE
\* the system stops when the flow is closed or the connection is reset
CHECK_DEADLOCK FALSE
INVARIANTS CreditsExact NoLostWakeup OwnReply
PROPERTIES CallsReturn CloseReturns ServerReaped

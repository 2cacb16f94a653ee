SPECIFICATION FailoverSpec
CONSTANTS
    N = 2
    FailSamples = 2
    RecoverSamples = 2
    Hold = 1
    Freshness = 0
    MaxSessions = 1
    MaxOutside = 1
INVARIANT
    RestoreReported
CHECK_DEADLOCK FALSE

SPECIFICATION PlaneFairSpec
CONSTANTS
    MaxEntries = 2
    MaxRuns = 2
    MaxEpoch = 2
    BacklogCap = 1
    RetentionMaxFiles = 1
    PowerLossPossible = FALSE
    MaxIngestFailures = 1
INVARIANTS
    NoSilentLoss
PROPERTIES
    EventuallyCommitted
    EventuallySettled

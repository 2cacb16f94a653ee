SPECIFICATION PlaneSpec
CONSTANTS
    MaxEntries = 2
    MaxRuns = 3
    MaxEpoch = 2
    BacklogCap = 1
    RetentionMaxFiles = 1
    PowerLossPossible = TRUE
    MaxIngestFailures = 1
INVARIANTS
    RecoveryAlwaysPossible
    ExportedOnce
    ExportedInOrder
PROPERTIES
    ImplementsSettlement

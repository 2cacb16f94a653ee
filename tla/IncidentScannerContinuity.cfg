SPECIFICATION ScannerSpec
CONSTANTS
    Bucket = 2
    Grace = 1
    Baseline = 1
    Discovery = 2
    CloseClean = 1
    MaxBuckets = 3
    MaxTime = 13
    MaxFailures = 1
INVARIANTS
    ContinuityHonest
CHECK_DEADLOCK FALSE

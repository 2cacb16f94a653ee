SPECIFICATION LaneSpec
CONSTANTS
    MaxSamples = 3
    MaxSends = 5
    MaxTime = 2
    MaxCorrupt = 0
    MaxFiles = 3
    FileLines = 2
    MaxLines = 2
    MaxAge = 1
    SavesMayFail = TRUE
    AppendMayFail = TRUE
    ClockMayStepBack = FALSE
    MaxStarts = 2
    MaxFaults = 1
    MaxCuts = 1
    MaxUnknown = 1
    Probes = {1}
    Runs = {1, 2}
    Bodies = {1, 2, 3}
    MaxSeq = 3
    MaxClock = 12
    FutureSkew = 0
    SampleAge = 4
    NewSampleAge = 8
    RunLifetime = 9
    MaxRunsPerProbe = 2
    MaxRunsGlobal = 2
    MaxReceiptsPerProbe = 3
    MaxReceiptsGlobal = 3
    HardBudget = 3
    SoftBudget = 2
    PruneBatch = 1
INVARIANTS
    LeavesOnlyTerminal
CHECK_DEADLOCK FALSE

SPECIFICATION LaneFairSpec
CONSTANTS
    MaxSamples = 2
    MaxSends = 6
    MaxTime = 2
    MaxCorrupt = 0
    MaxFiles = 3
    FileLines = 1
    MaxLines = 2
    MaxAge = 1
    SavesMayFail = TRUE
    AppendMayFail = FALSE
    ClockMayStepBack = FALSE
    MaxStarts = 2
    MaxFaults = 1
    MaxCuts = 1
    MaxUnknown = 2
    Probes = {1}
    Runs = {1, 2}
    Bodies = {1, 2, 3}
    MaxSeq = 3
    MaxClock = 12
    FutureSkew = 0
    SampleAge = 3
    NewSampleAge = 6
    RunLifetime = 7
    MaxRunsPerProbe = 2
    MaxRunsGlobal = 2
    MaxReceiptsPerProbe = 3
    MaxReceiptsGlobal = 3
    HardBudget = 3
    SoftBudget = 2
    PruneBatch = 1
PROPERTIES
    EventuallyTerminal
CHECK_DEADLOCK FALSE

INIT IncidentsInit
NEXT IncidentsNext
CONSTANTS
    Bucket = 2
    Grace = 1
    Baseline = 1
    Discovery = 2
    CloseClean = 1
    MaxBuckets = 3
    MaxTime = 17
    MaxFailures = 1
    Devices = {d1}
    Addresses = {a1, a2}
    NoAddress = NoAddress
    SampleEvery = 1
    HeartbeatEvery = 1
    CleanupEvery = 1
    HistoryAge = 1
    Freshness = 1
    CeilingBytes = 3
    TargetBytes = 2
    SchemaBytes = 1
    BatchRows = 1
    ClockSteps = {1}
    MaxWall = 2
    MarkerAges = {1}
    TargetDocs = {"malformed", "production"}
    MaxRows = 3
    ProbeSlots = {"egress"}
    MaxCycles = 2
INVARIANTS
    GateHonoured
    PhaseTrue
    ContinuityKept
    EgressChangeTrue
    RememberedStored
    AddressOfItsCycle
SYMMETRY Interchangeable
CHECK_DEADLOCK FALSE

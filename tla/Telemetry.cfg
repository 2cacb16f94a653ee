INIT TelemetryInit
NEXT TelemetryNext
CONSTANTS
    Keys = {k1, k2}
    MaxConns = 3
    MaxOpen = 1
    MaxBytes = 1
    MaxQueue = 2
    HistoryCap = 1
    BankedCap = 2
    Probes = {1, 2}
    Runs = {1}
    Bodies = {1, 2}
    MaxSeq = 2
    MaxClock = 3
    FutureSkew = 0
    SampleAge = 0
    NewSampleAge = 1
    RunLifetime = 2
    MaxRunsPerProbe = 1
    MaxRunsGlobal = 2
    MaxReceiptsPerProbe = 2
    MaxReceiptsGlobal = 3
    HardBudget = 2
    SoftBudget = 1
    PruneBatch = 2
    Streams = {s1}
    HealthThreshold = 1
    MaxVersions = 3
    MaxBatches = 1
    RuntimeProfiles = {p1, p2}
    Workers = 1
    Identities <- ConnIdentities
    Unscoped = Unscoped
    AllowedInbounds = {"vless-in", "hy2-in"}
    ReplaySize = 2
    RecentMax = 1
    EvidenceMax = 2
    ClosedTtl = 0
    MaxOld = 2
    MaxTransfer = 1
    MaxSeconds = 1
    OfficeAddresses = {1, 2}
    NoBaseline = NoBaseline
    Roles = {"Reality", "Hysteria2"}
    PlainSlots = {"dns"}
    MaxSamples = 2
INVARIANTS
    NeverOvercounts
    NothingAfterRevocation
    PurgeSparesActive
    NobodyStarves
    PassIsEarned
    BaselineCarried
    NeverReadmitted
SYMMETRY Interchangeable
CHECK_DEADLOCK FALSE

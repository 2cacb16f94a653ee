INIT ControlInit
NEXT ControlNext
CONSTANTS
    One = One
    Two = Two
    Threads = {One, Two}
    Nobody = Nobody
    StatusTtl = 1
    ListTtl = 1
    BreakerFailures = 1
    OpenSeconds = 2
    BundleSlots = 1
    MaxMutations = 1
    Clients = {One, Two}
    NoClient = NoClient
    SessionTtl = 2
    IdleTtl = 1
    StepUpTtl = 1
    MaxFailures = 2
    FailureWindow = 1
    Lockout = 1
    GuardSlots = 1
    GuardAttempts = 2
    MaxVersion = 2
    Slots = {One, Two}
    IdempotencyKeys = {k1, k2}
    Ingests = {i1}
    MaxRecords = 2
    MaxIdentities = 2
    MaxConfirmations = 1
    MaxForeign = 1
    Firewalls = {"nft", "none"}
    Releases = {One, Two, Three}
    Profiles = {p1}
    None = None
    MaxReleases = 3
    MaxProfiles = 1
    Machines = {m1, m2, m3}
    MaxMachines = 2
    Operator = m1
    MaxLeaves = 2
    MaxTokens = 3
    Peers = {One, Two, Three}
    Accounts = {a1, a2}
    Stranger = Stranger
    GlobalSlots = 2
    Window = 3
    MinuteBytes = 3
    AccountBytes = 2
    UploadSizes = {1, 2}
    MaxUptime = 5
    ReceiverPairs = {"old", "rotated", "other"}
    CaOf <- PairCa
    Paths = {"Reality", "Hysteria2"}
INVARIANTS
    ReadYourWrites
    SessionsCurrent
    GuessingBounded
    RevokedLockedOut
    EnrolmentDurable
    OpenIsJournaled
    RetainedWhole
    OldLeafIsMarked
    DeliveredAccepted
    BudgetSliding
    NeverMixed
SYMMETRY Interchangeable
CHECK_DEADLOCK FALSE

SPECIFICATION InstallerSpec
CONSTANTS
    Releases = {r1, r2, r3}
    Profiles = {p1}
    None = None
    MaxReleases = 3
    MaxProfiles = 1
INVARIANT
    IntentRecoverable
CHECK_DEADLOCK FALSE

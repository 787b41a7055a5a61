SPECIFICATION ServiceSpec
CONSTANTS
    m1 = m1  j1 = j1  j2 = j2  r1 = r1  r2 = r2
    None = None
    Mappings = {m1}
    Domains = {"file"}
    Scope <- OneDomain
    Jobs = {j1, j2}
    Rows = {r1, r2}
    MaxAttempts = 1
    DuringPurge = FALSE
    MaxManual = 1
    MaxDeaths = 1
    MaxCloses = 1
INVARIANTS WorkIsVisible
PROPERTIES KeepsPromise ErasureHappens ActiveKeepsSyncing
CHECK_DEADLOCK FALSE

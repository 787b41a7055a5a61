SPECIFICATION ApplySpec
CONSTANTS
    k1 = k1  k2 = k2  c1 = c1  b1 = b1  b2 = b2  j1 = j1  j2 = j2
    Keys = {k1, k2}
    Colls = {c1}
    Contents = {b1, b2}
    None = None
    Theirs = Theirs
    MAX_ITEM_ATTEMPTS = 2
    DELETION_CONFIRMATIONS = 2
    Places <- OneFolderPlaces
    PathKeyed = TRUE
    Unkeyed = {}
    Legacy = {}
    Large = {}
    HasKeyListing = TRUE
    ReportsRemovals = FALSE
    HasBin = TRUE
    ListsBodies = FALSE
    Walkable = TRUE
    OnCollisionFail = FALSE
    Concurrency = 1
    ABORT_AFTER_CONSECUTIVE_FAILURES = 2
    Faults = {"job", "put_lost", "fetch"}
    DuringPass = {}
    MaxSource = 2
    MaxOwner = 1
    MaxOperator = 1
    MaxFaults = 1
    Jobs = {j1, j2}
    MASS_DELETION_MIN_ITEMS = 2
    MASS_DELETION_PERCENT = 50
    DuringJob = {}
INVARIANTS NoSilentRemoval RelocationLeavesItsMark
PROPERTIES NeverDestroysTheirs LastCopyKept
SYMMETRY Interchangeable

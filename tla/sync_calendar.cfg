SPECIFICATION Spec
CONSTANTS
    k1 = k1  k2 = k2  c1 = c1  c2 = c2  b1 = b1  b2 = b2
    Keys = {k1}
    Colls = {c1, c2}
    Contents = {b1, b2}
    None = None
    Theirs = Theirs
    MAX_ITEM_ATTEMPTS = 2
    DELETION_CONFIRMATIONS = 2
    Places <- OneEventPlaces
    PathKeyed = FALSE
    Unkeyed = {}
    Legacy = {}
    Large = {}
    HasKeyListing = FALSE
    ReportsRemovals = TRUE
    HasBin = FALSE
    ListsBodies = TRUE
    Walkable = TRUE
    OnCollisionFail = FALSE
    Concurrency = 1
    ABORT_AFTER_CONSECUTIVE_FAILURES = 2
    Faults = {"no_etag", "head", "list_folders"}
    DuringPass = {"source", "owner"}
    MaxSource = 2
    MaxOwner = 1
    MaxOperator = 1
    MaxFaults = 1
INVARIANTS NoDuplicateCopy
PROPERTIES EventuallyHandled

SPECIFICATION Spec
CONSTANTS
    k1 = k1  k2 = k2  c1 = c1  c2 = c2  b1 = b1  b2 = b2
    Keys = {k1, k2}
    Colls = {c1}
    Contents = {b1, b2}
    None = None
    Theirs = Theirs
    MAX_ITEM_ATTEMPTS = 2
    DELETION_CONFIRMATIONS = 2
    Places <- OneFolderPlaces
    PathKeyed = TRUE
    Unkeyed = {}
    Legacy = {}
    Large = {}
    HasKeyListing = TRUE
    ReportsRemovals = FALSE
    HasBin = TRUE
    ListsBodies = FALSE
    Walkable = TRUE
    OnCollisionFail = FALSE
    Concurrency = 2
    ABORT_AFTER_CONSECUTIVE_FAILURES = 2
    Faults = {"fetch", "put_refused", "put_lost", "crash"}
    DuringPass = {"source"}
    MaxSource = 2
    MaxOwner = 1
    MaxOperator = 1
    MaxFaults = 1
INVARIANTS CursorHidesOnlyHandled DeletionClaimIsCurrent MoveClaimIsCurrent
PROPERTIES NeverOverwritesTheirs
SYMMETRY Interchangeable

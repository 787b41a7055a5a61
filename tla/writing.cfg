SPECIFICATION WritingSpec
CONSTANTS
    k1 = k1  k2 = k2
    Keys = {k1, k2}
    NoKey = NoKey
    Writers = {"jmapMail", "jmapFile", "jmapContact", "imap", "carddav"}
    LIMIT = 1
    SNAPSHOT_MAX_ENTRIES = 1
    ServerDedups = TRUE
    EditsMidWrite = FALSE
    MovesMidApply = FALSE
    MaxIds = 3
    MaxClock = 3
    MaxPasses = 2
    MaxOwner = 2
    MaxFaults = 1
SYMMETRY Symmetric
INVARIANTS NoSecondCopy RemovalIsReal RemovesOnlyItsItem
PROPERTIES KeepsTheirEdit
CHECK_DEADLOCK FALSE

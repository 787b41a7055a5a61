SPECIFICATION ReadingSpec
CONSTANTS
    i1 = i1  i2 = i2
    Items = {i1, i2}
    Odd = {i2}
    Twins = {i2}
    Level <- Nested
    Dialects = {"imap", "webdav", "graphMail", "graphDrive", "graphCalendar", "caldav", "carddav", "drive", "box", "dropbox"}
    Roles = {"content", "bin"}
    HasFallback = TRUE
    MAX_PAGES = 2
    MAX_FOLDER_DEPTH = 3
    MaxChanges = 3
    MaxEpochs = 1
    MaxFaults = 1
    MaxEmpty = 1
INVARIANTS NothingHidden RemovalNotLost
PROPERTIES CatchesUp
CHECK_DEADLOCK FALSE

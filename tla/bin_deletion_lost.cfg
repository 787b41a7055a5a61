SPECIFICATION ReadingSpec
CONSTANTS
    i1 = i1  i2 = i2
    Items = {i1, i2}
    Odd = {}
    Twins = {}
    Level <- Nested
    Dialects = {"imap"}
    Roles = {"bin"}
    HasFallback = FALSE
    MAX_PAGES = 2
    MAX_FOLDER_DEPTH = 3
    MaxChanges = 3
    MaxEpochs = 1
    MaxFaults = 1
    MaxEmpty = 1
INVARIANT DiscardedNotForgotten
CHECK_DEADLOCK FALSE

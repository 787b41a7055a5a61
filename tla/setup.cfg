SPECIFICATION MCSpec
CONSTANTS
    SourceTypes = {"google-calendar", "box"}
    TargetTypes = {"caldav", "webdav"}
    Entries <- MCEntries
    Prefixes = {""}
    MaxConns = 2
    MaxMaps = 2
    MaxEdits = 3
    MaxVisits = 1
    KindOrder <- MCKindOrder
    Folders = {"f1", "f2"}
    Things = {"t1", "t2"}
    keyed = {"t1"}
    Scans = {"s1", "s2"}
    MaxScans = 2
    MaxShifts = 1
INVARIANTS FiguresAreWhole AcceptedOpens ReadsStated
 
CHECK_DEADLOCK FALSE

SPECIFICATION PeopleSpec
CONSTANTS
    People = {ann, bob}
    Verified = {ann, bob}
    Operators = {ann}
    Handlers = {h1, h2}
    Nobody = nobody
    Given = {"owner", "admin"}
    KNOCK_MAX = 1
    RequestsOverlap = FALSE
    MaxRequests = 2
    MaxOrgs = 2
    MaxRows = 3
    Procs = {p1, p2, p3}
    Overlapping = FALSE
SYMMETRY Interchangeable
CHECK_DEADLOCK FALSE
INVARIANTS OwnerRemains ClaimSucceeds SwitchIsApproved OneExecution
PROPERTIES ObeysMachine

SPECIFICATION OutsideSpec
CONSTANTS
    Templates <- TwoLists
    NoPrice = none
    Domains = {"email"}
    Callers = {b1, b2}
    CallsOverlap = FALSE
    Megabytes = {1500}
    CentiHours = {50}
    MaxPasses = 1
    MaxPayments = 2
    MaxMethods = 1
    Workers = {"w1", "w2"}
    Calls = {"c1", "c2", "c3"}
    Home <- MCHome
    Ways <- MCWays
    MaxConcurrent = 1
    MaxRetries = 1
    Rate = 2
    Shared = TRUE
    Lifetimes = {1, 3}
    Buffer = 1
    Asked = {1, 3}
    Patience = 2
    LongestWait = 1
    MaxTime = 2
    MaxMints = 2
    MaxCalls = 3
SYMMETRY Interchangeable
CHECK_DEADLOCK FALSE
INVARIANTS SettledMeansSettled InBudget RefusedNotResent
 

SPECIFICATION OperateSpec
CONSTANTS
  Types = {"mail", "files"}
  TypeOrder <- MCTypeOrder
  Items = {"m1", "m2"}
  typeOf <- MCTypeOf
  Operators = {"o1"}
  minSampleSize = 10
  maxSampleSize = 1000
  MaxRuns = 1
  MaxEvents = 2
  DomainOrder <- MCDomainOrder
  Hosts = {"a", "b"}
  Clients = {"c1", "c2"}
  MaxOrders = 3
  MaxStops = 1
  Grants = {"g1"}
  Owners = {"p1", "p2"}
  MaxAsks = 3
  MaxChanges = 1
  Addresses = {"a1", "a2"}
  Groups = {"list"}
  Passes = {"first", "second"}
  MaxRows = 2
  MailboxOrder <- MCMailboxOrder
  Queues = {"moves"}
  Week = 2
  threshold = 1
  MaxDays = 2
  MaxStirs = 1
  MaxApplied = 1
INVARIANTS GateHolds OneHostAtATime  DigestMissesNothing
PROPERTIES FinishedStops DismissedStays
CHECK_DEADLOCK FALSE

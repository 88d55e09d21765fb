SPECIFICATION FairSpec
CONSTANTS
  Events = {e1, e2}
  Workers = {}
  Relays = {r1}
  None = None
  Stages = 2
  MaxAttempts = 2
  MaxStalled = 1
  Batch = 2
  Poison = {e2}
  DurableQueue = FALSE
  FaultKinds = {"consumer", "database", "relayCrash"}
  MaxFaults = 1
  MaxReplays = 0
  ReplayAnyRow = FALSE
  LeaseOutlivesHandler = FALSE
INVARIANTS PublishedImpliesHandled
PROPERTIES EventuallySettled
CHECK_DEADLOCK FALSE

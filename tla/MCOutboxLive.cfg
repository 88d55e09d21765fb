SPECIFICATION FairSpec
CONSTANTS
  Events = {e1}
  Workers = {w1, w2}
  Relays = {r1}
  None = None
  Stages = 2
  MaxAttempts = 2
  MaxStalled = 2
  Batch = 1
  Poison = {}
  DurableQueue = TRUE
  FaultKinds = {"consumer", "workerCrash", "relayCrash", "stall"}
  MaxFaults = 2
  MaxReplays = 0
  ReplayAnyRow = FALSE
  LeaseOutlivesHandler = TRUE
INVARIANTS ConsumesUnderReceipt
PROPERTIES EventuallySettled
CHECK_DEADLOCK FALSE

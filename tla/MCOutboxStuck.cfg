SPECIFICATION FairSpec
CONSTANTS
  Events = {e1}
  Workers = {w1, w2}
  Relays = {r1}
  None = None
  Stages = 1
  MaxAttempts = 2
  MaxStalled = 1
  Batch = 1
  Poison = {}
  DurableQueue = TRUE
  FaultKinds = {"workerCrash"}
  MaxFaults = 2
  MaxReplays = 0
  ReplayAnyRow = FALSE
  LeaseOutlivesHandler = FALSE
PROPERTIES EventuallySettled
CHECK_DEADLOCK FALSE

SPECIFICATION Spec
CONSTANTS
  Events = {e1}
  Workers = {w1, w2}
  Relays = {r1}
  None = None
  Stages = 2
  MaxAttempts = 2
  MaxStalled = 1
  Batch = 1
  Poison = {}
  DurableQueue = TRUE
  FaultKinds = {"consumer", "database", "redis", "workerCrash", "relayCrash", "stall"}
  MaxFaults = 1
  MaxReplays = 1
  ReplayAnyRow = TRUE
  LeaseOutlivesHandler = FALSE
INVARIANT DeliveryInvariant
PROPERTIES KeepsPromise OnlyFaultsLeaveClaims
CHECK_DEADLOCK FALSE

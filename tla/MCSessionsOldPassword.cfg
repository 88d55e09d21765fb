CONSTANTS
  Devices = {d1}
  Requests = {r1}
  Revokers = {v1}
  None = None
  Cap = 2
  MaxSessions = 2
  MaxTokens = 2
  MaxVersion = 1
  FaultKinds = {}
  MaxFaults = 0
SPECIFICATION Spec
INVARIANTS CurrentPasswordOnly

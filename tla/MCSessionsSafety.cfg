CONSTANTS
  Devices = {d1}
  Requests = {r1, r2}
  Revokers = {v1}
  None = None
  Cap = 1
  MaxSessions = 2
  MaxTokens = 3
  MaxVersion = 1
  FaultKinds = {"timeout", "crash", "redis"}
  MaxFaults = 2
SPECIFICATION Spec
SYMMETRY Symmetry
INVARIANTS OnlyNewestRotates NoSessionOutlivesItsVersion ReuseOnlyAfterLostAnswer
PROPERTIES KeepsKeys

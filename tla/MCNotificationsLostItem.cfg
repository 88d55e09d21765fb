CONSTANTS
  Sources = {s1, s2, s3}
  Batched = {s1, s2}
  Windows = {w1, w2}
  Senders = {p1, p2}
  Digesters = {d1}
  Deliverers = {v1, v2}
  None = None
  MaxItems = 2
  MaxAttempts = 2
  Unreachable = {w2}
  FaultKinds = {}
  MaxFaults = 0
SPECIFICATION Spec
SYMMETRY Symmetry
INVARIANT BatchedItemIsInAWindow

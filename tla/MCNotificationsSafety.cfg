CONSTANTS
  Sources = {s1, s2}
  Batched = {s1, s2}
  Windows = {w1, w2}
  Senders = {p1, p2}
  Digesters = {d1, d2}
  Deliverers = {v1, v2}
  None = None
  MaxItems = 2
  MaxAttempts = 2
  Unreachable = {w2}
  FaultKinds = {"database", "provider", "crash", "slow"}
  MaxFaults = 2
SPECIFICATION Spec
SYMMETRY Symmetry
INVARIANTS OneRowPerSource DigestShowsItsWindow EachItemOnce OneClaimHolder
PROPERTIES SettledStaysSettled

CONSTANTS
  Sources = {s1, s3}
  Batched = {s1}
  Windows = {w1}
  Senders = {p1}
  Digesters = {d1}
  Deliverers = {v1, v2}
  None = None
  MaxItems = 1
  MaxAttempts = 2
  Unreachable = {w1}
  FaultKinds = {"database", "provider", "crash", "slow"}
  MaxFaults = 2
SPECIFICATION FairSpec
PROPERTY EverythingSettles

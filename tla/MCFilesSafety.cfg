CONSTANTS
  u1 = u1
  t1 = t1
  t2 = t2
  f1 = f1
  Files = {f1}
  Contents = {c1, c2}
  Clean = {c1}
  None = None
  Requests = {r1}
  Scanners = {s1, s2}
  Removers = {m1}
  Attachers = {a1}
  Reconcilers = {k1}
  Uploads <- MCUploads
  Uploader <- MCUploader
  TenantOf <- MCTenantOf
  Erased = {f1}
  UserQuota = 1
  TenantQuota = 1
  MaxAttempts = 2
  MaxFaults = 1
SPECIFICATION Spec
SYMMETRY Symmetry
INVARIANTS ServedIsClean NoOrphanedCandidate
PROPERTIES UploadedIsFinal KeepsLifecycle
CHECK_DEADLOCK FALSE

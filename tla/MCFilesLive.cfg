CONSTANTS
  u1 = u1
  t1 = t1
  t2 = t2
  f1 = f1
  Files = {f1, f2}
  Contents = {c1}
  Clean = {c1}
  None = None
  Requests = {r1, r2}
  Scanners = {s1}
  Removers = {m1}
  Attachers = {}
  Reconcilers = {}
  Uploads <- MCUploads
  Uploader <- MCUploader
  TenantOf <- MCTenantOf
  Erased = {f1}
  UserQuota = 1
  TenantQuota = 1
  MaxAttempts = 1
  MaxFaults = 1
SPECIFICATION FairSpec
INVARIANTS QuotaKept
PROPERTIES FilesEndAttachedOrGone
CHECK_DEADLOCK FALSE

CONSTANTS
  Orgs = {o1}
  Users = {u1, u2}
  Invitations = {i1, i2}
  Requests = {r1, r2}
  None = None
  InvitedRoles = {"member"}
SPECIFICATION Spec
SYMMETRY Symmetry
INVARIANTS LockedPathsKeepAnOwner
PROPERTIES JoinsSpendAnInvitation OnlyOwnersMoveOwnership
CHECK_DEADLOCK FALSE

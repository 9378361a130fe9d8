CONSTANTS
  Users = {u1, u2}
  Procs = {p1, p2}
  Ops <- AllOps
  MaxAttempts = 1
  Nobody = Nobody
SPECIFICATION Spec
SYMMETRY Symmetric
INVARIANTS TypeOK CountIsStable PendingDeletionIsAttributed
PROPERTIES CountedUpdateLeavesAdmin AuditFollowsRows

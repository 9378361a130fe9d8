CONSTANTS
  SessionIds = {s1, s2}
  TokenIds = {t1, t2, t3}
  Devices = {}
  Procs = {p1, p2}
  Kinds <- ResetKinds
  MaxCred = 1
  UserRow = UserRow
  CredRow = CredRow
  None = None
SPECIFICATION Spec
SYMMETRY Symmetric
INVARIANT ResetEndsOldSessions
CHECK_DEADLOCK FALSE

CONSTANTS
  SessionIds = {s1, s2}
  TokenIds = {t1, t2}
  Devices = {}
  Procs = {p1, p2}
  Kinds <- AccountKinds
  MaxCred = 1
  UserRow = UserRow
  CredRow = CredRow
  None = None
SPECIFICATION Spec
SYMMETRY Symmetric
INVARIANTS TypeOK RevokedSessionsHaveNoToken
CHECK_DEADLOCK FALSE

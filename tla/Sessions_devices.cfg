CONSTANTS
  SessionIds = {s1, s2}
  TokenIds = {t1, t2, t3}
  Devices = {d1}
  Procs = {p1, p2}
  Kinds <- DeviceKinds
  MaxCred = 0
  UserRow = UserRow
  CredRow = CredRow
  None = None
SPECIFICATION Spec
SYMMETRY Symmetric
INVARIANTS OneSessionPerDevice
PROPERTIES RefinesTokenFamilies
CHECK_DEADLOCK FALSE

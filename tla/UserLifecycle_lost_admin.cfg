CONSTANTS
  Users = {u1, u2}
  Procs = {p1, p2}
  Ops <- AdminOps
  MaxAttempts = 1
  Nobody = Nobody
SPECIFICATION Spec
INVARIANTS SomeActiveAdmin

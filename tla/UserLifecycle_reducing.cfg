CONSTANTS
  Users = {u1, u2}
  Procs = {p1, p2}
  Ops <- ReducingOps
  MaxAttempts = 2
  Nobody = Nobody
SPECIFICATION FairSpec
INVARIANTS SomeActiveAdmin
PROPERTIES RefusalIsHonest RequestsFinish

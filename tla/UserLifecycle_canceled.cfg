CONSTANTS
  Users = {u1, u2}
  Procs = {p1, p2}
  Ops <- DeletionOps
  MaxAttempts = 1
  Nobody = Nobody
SPECIFICATION Spec
PROPERTIES CanceledDeletionIsSkipped

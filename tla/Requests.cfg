CONSTANTS
  Files = {f1, f2}
  Procs = {p1, p2}
  Instances = {p1, p2}
  Kids = {k1, k2}
  AccessTokens = {a1}
  Clients = {c1}
  MaxAttempts = 2
  Ids = {1, 2, 3}
  Values = {1, 2}
  Queries <- AllQueries
  MaxLimit = 2
  None = None
SPECIFICATION SumSpec
SYMMETRY Symmetric
CONSTRAINT Bounded
INVARIANTS TypesOK AttachedIsStored ActiveIsAttached ListsAreExact
PROPERTIES DeletedIsFinal ValidTokensPass AdminRoutesFollowTheRow
CHECK_DEADLOCK FALSE

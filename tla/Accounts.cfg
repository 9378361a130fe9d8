CONSTANTS
  Users = {u1, u2}
  Emails = {e1, e2}
  Subjects = {g1, g2}
  Procs = {p1, p2}
  Tokens = {g1, g2}
  Jobs = {p1, p2}
  JobAttempts = 2
  Sessions = {u1, u2}
  PushTokens = {e1, e2}
  Registrations = {p1, p2}
  Sends = {j1}
  TxAttempts = 2
  Attempts = {p1, p2}
  MaxAttempts = 2
  MaxCount = 4
  None = None
SPECIFICATION SumSpec
SYMMETRY Symmetric
CONSTRAINT Bounded
INVARIANTS TypesOK AccountsAreUnique VerifiedIsProven ErasureIsComplete ResetEndsOlderTokens PushTokensArePlaced CountersExpire OvershootIsBounded
PROPERTIES LiveSessionKeepsToken
CHECK_DEADLOCK FALSE

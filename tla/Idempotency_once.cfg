CONSTANTS
  Calls = {c1, c2, c3, c4}
  Payloads = {h1, h2}
  Faults = {}
  None = None
SPECIFICATION Spec
SYMMETRY Symmetric
INVARIANTS OneHandlerAtATime
PROPERTIES RefinesIdempotentWrite StoredResponseStays
CHECK_DEADLOCK FALSE

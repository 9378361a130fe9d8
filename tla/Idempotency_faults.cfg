CONSTANTS
  Calls = {c1, c2, c3}
  Payloads = {h1, h2}
  Faults <- AllFaults
  None = None
SPECIFICATION FairSpec
INVARIANTS TypeOK ReplaysAreGenuine
PROPERTIES LocksAreReleased
CHECK_DEADLOCK FALSE

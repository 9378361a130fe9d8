CONSTANTS
  Calls = {c1, c2}
  Grace = 2
  MaxAttempts = 2
  MaxStalls = 1
  None = None
SPECIFICATION FairSpec
CONSTRAINT Bounded
INVARIANTS TypeOK
PROPERTIES RequestLeavesJob RunsKeepTheDeletion ErasedWhenDue RemindersAreOnTime DeletionEnds
CHECK_DEADLOCK FALSE

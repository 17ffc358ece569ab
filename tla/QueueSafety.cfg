SPECIFICATION QueueSafeSpec
CONSTANTS
  j1 = j1
  j2 = j2
  j3 = j3
  p1 = p1
  p2 = p2
  Jobs = {j1, j2, j3}
  Unhandled = {j3}
  Polls = {p1, p2}
  MaxAttempts = 3
  ClaimLimit = 2
  MaxRetries = 1
  MaxCrashes = 1
  MaxFaults = 1
INVARIANTS ExclusiveClaim OnlyInterruptionsStrand
PROPERTIES SettledIsStable
SYMMETRY Symmetry
CHECK_DEADLOCK FALSE

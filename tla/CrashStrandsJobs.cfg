SPECIFICATION QueueSpec
CONSTANTS
  j1 = j1
  j2 = j2
  j3 = j3
  p1 = p1
  p2 = p2
  Jobs = {j1, j2, j3}
  Unhandled = {j3}
  Polls = {p1, p2}
  MaxAttempts = 2
  ClaimLimit = 2
  MaxRetries = 1
  MaxCrashes = 1
  MaxFaults = 0
PROPERTY JobsSettle
CHECK_DEADLOCK FALSE

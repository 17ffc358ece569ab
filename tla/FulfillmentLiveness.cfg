SPECIFICATION FulfillmentSpec
CONSTANTS
  j1 = j1
  j2 = j2
  o1 = o1
  o2 = o2
  p1 = p1
  p2 = p2
  app = app
  Jobs = {j1, j2}
  Unhandled = {}
  Polls = {p1, p2}
  Orders = {o1, o2}
  NoOrder = NoOrder
  Callers = {app}
  InProcess = {app}
  MaxAttempts = 2
  ClaimLimit = 2
  MaxRetries = 1
  MaxCrashes = 0
  MaxFaults = 0
  MaxLapses = 0
PROPERTIES
  JobsSettle
  KeepsPromiseInTheEnd
CHECK_DEADLOCK FALSE

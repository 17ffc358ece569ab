SPECIFICATION FulfillmentSafeSpec
CONSTANTS
  j1 = j1
  j2 = j2
  o1 = o1
  o2 = o2
  p1 = p1
  p2 = p2
  app = app
  Jobs = {j1, j2}
  Unhandled = {}
  Polls = {p1, p2}
  Orders = {o1, o2}
  NoOrder = NoOrder
  Callers = {app}
  InProcess = {app}
  MaxAttempts = 3
  ClaimLimit = 2
  MaxRetries = 1
  MaxCrashes = 1
  MaxFaults = 1
  MaxLapses = 2
INVARIANTS
  OneFulfillmentPerOrder
  DuplicateOnlyAfterUnseen
  ExceptionMeansExhausted
  PendingIsExplained
PROPERTIES
  AnswerIsFinal
  KeepsPromise
SYMMETRY Symmetry
CHECK_DEADLOCK FALSE

SPECIFICATION SimulationSpec
CONSTANTS
  j1 = j1
  j2 = j2
  o1 = o1
  p1 = p1
  p2 = p2
  app = app
  Jobs = {j1, j2}
  Unhandled = {}
  Polls = {p1, p2}
  Orders = {o1}
  NoOrder = NoOrder
  Callers = {app}
  CancelledOrders = {}
  InProcess = {app}
  MaxAttempts = 2
  ClaimLimit = 2
  MaxRetries = 1
  MaxCrashes = 1
  MaxFaults = 1
  MaxLapses = 2
  MaxResets = 1
  MaxSetbacks = 2
INVARIANTS
  OldWorkLeavesNoTrace
  DuplicateIsExplained
  UnpaidWasOvertaken
  ToldIsTrue
SYMMETRY Symmetry
CHECK_DEADLOCK FALSE

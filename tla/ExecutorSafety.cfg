SPECIFICATION ExecutorSpec
CONSTANTS
  OrderA = OrderA
  OrderB = OrderB
  Laptop = Laptop
  RefundLimit = 1
  PurchaseLimit = 3
  HardCeiling = 4
  CampaignStep = 2
  ReorderStep = 2
  DailyBudget <- MCBudget
  Cost <- MCCost
  Calls <- MCCalls
  NoCall = NoCall
  Orders = {OrderA, OrderB}
  Total <- MCTotal
  MinimumOrder = 2
  FirstPrice <- MCPrice
  Approvals = {a1, a2, a3}
  NoApproval = NoApproval
  Callers = {c1, c2}
  InProcess = {c1, c2}
  Operators = {o1, o2}
  MaxCalls = 4
  MaxLapses = 1
  MaxCrashes = 1
SYMMETRY Symmetry
INVARIANTS
  OnePendingPerEntity
  ApprovalSpentOnce
  ApprovedIsAnswered
  LargeMovesWereApproved
  WithinAuthority
PROPERTY PriceStepsAreBounded
CHECK_DEADLOCK FALSE

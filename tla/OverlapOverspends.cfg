SPECIFICATION ExecutorSpec
CONSTANTS
  OrderA = OrderA
  OrderB = OrderB
  Laptop = Laptop
  RefundLimit = 1
  PurchaseLimit = 3
  HardCeiling = 4
  CampaignStep = 2
  ReorderStep = 2
  DailyBudget <- MCBudget
  Cost <- MCCost
  Calls <- MCRefunds
  NoCall = NoCall
  Orders = {OrderA, OrderB}
  Total <- MCTotal
  MinimumOrder = 2
  FirstPrice <- MCPrice
  Approvals = {a1}
  NoApproval = NoApproval
  Callers = {c1, c2}
  InProcess = {c1, c2}
  Operators = {o1}
  MaxCalls = 2
  MaxLapses = 0
  MaxCrashes = 0
INVARIANT DailyAuthority
CHECK_DEADLOCK FALSE

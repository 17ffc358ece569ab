SPECIFICATION ReviewsSpec
CONSTANTS
  r1 = r1
  r2 = r2
  Runs = {r1, r2}
  None = None
  Products <- MCProducts
  Suppliers <- MCSuppliers
  Campaigns <- MCCampaigns
  Orders <- MCOrders
  Row <- MCRow
  Cost <- MCCost
  Sold <- MCSold
  Forecast <- MCForecast
  SourceOf <- MCSourceOf
  Quotes <- MCQuotes
  Reliability <- MCReliability
  Spend <- MCSpend
  Newest <- MCNewest
  Theme <- MCTheme
  OrderOf <- MCOrderOf
  OrderTotal <- MCOrderTotal
  TransactionId <- MCTransactionId
  SurgeTickets <- MCSurge
  SeedData <- MCSeed
  DailyBudget <- MCDailyBudget
  RefundLimit = 200000
  PurchaseLimit = 5000000
  HardCeiling = 50000000
  CampaignStep = 1000000
  ReorderStep = 200
  Desks = {"supply", "prices", "campaigns", "service"}
  ClientPrices = {210007, 181500}
  Arrivals = {25}
  ClientRefunds = {50000, 150000}
  ClientReplies = {"damaged"}
  MaxReviews = 3
  MaxScenarios = 1
  MaxClientCalls = 1
INVARIANTS
  RefusalsAreExplained
  RefundsFitTheOrder
  OverlookedReturnsAreExplained
  MoneyFollowsReturns
SYMMETRY Symmetry
CHECK_DEADLOCK FALSE

SPECIFICATION ConsoleSpec
CONSTANTS
  c1 = c1
  c2 = c2
  feed1 = feed1
  feed2 = feed2
  Views = {feed1, feed2}
  Connections = {c1, c2}
  NoConnection = NoConnection
  FeedLimit = 3
  MaxEvents = 3
  MaxDrops = 1
  Tabs = {"tab1", "tab2"}
  Approvals = {"a1", "a2"}
  Products = {"kettle", "lamp"}
  ListPrice <- MCListPrice
  FirstDraft <- MCFirstDraft
  Prices <- MCPrices
  Elasticities = {1, 2}
  NoCall = NoCall
  Pages = {"live", "overview", "simulation", "goals", "agent", "customers", "approvals", "pricing", "memory"}
  MaxCalls = 3
  MaxCutOffs = 1
  MaxThrows = 1
INVARIANTS
  OnlyBrokenPipesLeak
  FeedIsFaithful
  AnswersAreExplained
  ListsAreExplained
  BusyIsExplained
SYMMETRY Symmetry
CHECK_DEADLOCK FALSE

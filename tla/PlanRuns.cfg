SPECIFICATION PlanSpec
CONSTANTS
  MaxTasks = 8
  Requests <- MCRequests
  MaxConcurrent = 1
  MaxSends = 2
  MaxRounds = 2
  MaxTroubles = 2
  Proposals <- MCProposals
  Questions <- MCQuestions
  Entities <- MCEntities
  Advice <- MCAdvice
  MaxAttempts = 2
  MaxExecutions = 1
  MaxWalked = 3
  MaxFaults = 2
  MaxCrashes = 1
INVARIANTS
  SlotsAreCounted
  NobodyWaitsForNothing
  PlansAreRunnable
  PlannedByIsHonest
  DependenciesFirst
  ClosedPlansAreSettled
  RecommendationsAreAccountedFor
PROPERTIES
  KeepsThePromise
  PlanEnds
CHECK_DEADLOCK FALSE

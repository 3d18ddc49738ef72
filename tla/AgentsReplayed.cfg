SPECIFICATION AgentsSpec
CONSTANTS
  Foci = {"cache"}
  Specialists = {"berlin", "tokyo", "rio"}
  Calls <- MCCalls
  Routes = 2
  cost <- MCCost
  actual <- MCActual
  failed <- MCFailed
  HardLimit = 7
  MaxAttempts = 2
  Total <- MCTotal
  MinBudget = 1
  MinAnalysis = 1
  FullBudget = 4
  MaxOpportunities = 2
  Crew <- MCCrew
  replies <- MCReplies
  estimate <- MCEstimate
  Agendas <- MCAgendasTwice
  opportunities <- MCOpportunities
  Limits = {7, 16}
  MaxFound = 4
  Nothing = Nothing
  Changes = {c1, c2}
  PolicyIds = {"p1", "p2"}
  SourceRefs = {"s1"}
  Allocations <- MCAllocations
  FirstPolicy <- MCFirst
  Absent = Absent
  MaxReplacements = 3
  Size = 2
  Plans <- MCPlans
  TaskPolicies <- MCPolicies
  Quotes <- MCQuotes
  Costs = {1, 3}
  RequestEnd = 2
  MaxRuns = 2
  MaxTransitions = 2
  EndOfTime = 2
  Candidates = {"c1"}
  MaxShadow = 1
  MaxActive = 1
  Actives = {0, 1}
  NoDocument = NoDocument
  MaxRevision = 6
INVARIANTS AnsweredRunReplays
CHECK_DEADLOCK FALSE

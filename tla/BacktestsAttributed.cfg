SPECIFICATION BacktestSpec
CONSTANTS
  Roles = 2
  Checkpoints = 1
  Windows = 1
  HistoryLimit = 1
  SidecarLimit = 1
  Earlier = {e1}
  MaxCampaigns = 2
  MaxCalls = 1
  NoOne = NoOne
  FillPrices = {600, 1200}
  Sizes = {1000, 2000}
  FeeBps = 10
  Digits = 3
  setupOf <- MCSetup
  MaxFills = 4
  NoOpportunity = NoOpportunity
  None = None
INVARIANTS EveryTradeAttributed
CHECK_DEADLOCK FALSE

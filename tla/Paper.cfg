SPECIFICATION PaperSpec
CONSTANTS
  None = None
  Symbols = {BTC}
  Prices <- Ticks
  Quantities = {1, 2}
  LimitPrices <- Ticks
  StopPrices <- StopTicks
  InitialBalance = 1000
  MakerBps = 10
  TakerBps = 10
  SlippageBps = 5
  AllowShort = TRUE
  MaxOrders = 3
  Fleet <- MCFleet
  Events = {"e1", "e2"}
  Runs = {r1, r2}
  closeOf <- MCClose
  expiryOf <- MCExpiry
  Plans <- MCPlans
  profileOf <- MCProfile
  marketOf <- MCMarket
  DeskBalance = 100
  DeskShorts = FALSE
  Disturbed = {"alpha"}
  OpenRisks = {4}
  MaxDisturbances = 2
  EndOfTime = 1
  Bars <- MCBars
  Signals <- MCSignals
  replayProfile <- MCReplayProfile
  replayMarket <- MCReplayMarket
  ReplayBalance = 1000
  ReplaySlippage = 500
  ReplayShorts = TRUE
  CandlesPerDay = 2
  PeriodStart = 1
  MaxCandles = 4
  MaxBarriers = 4
  Crews = {"a", "b"}
  Requests <- MCRequests
  request <- MCRequest
  ceiling <- MCCeiling
  equity = 30
  limit <- MCLimit
  Sum <- MCSum
  trade <- MCTrade
  rank <- MCRank
  Rows <- MCRows
  Slip = 1
INVARIANTS BookHolds AccountBalances EntriesHold ProtectionHolds LotsHold
PROPERTIES StopOnlyReduces HaltHolds ExitIsAdverse AdverseFirst JudgedOnTrueAccount ReplayPoolSpec
CHECK_DEADLOCK FALSE
SYMMETRY RunSymmetry

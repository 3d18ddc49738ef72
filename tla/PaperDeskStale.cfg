SPECIFICATION DeskSpec
CONSTANTS
  None = None
  Fleet <- MCFleet
  Events = {"e1", "e2"}
  Runs = {r1, r2}
  closeOf <- MCClose
  expiryOf <- MCExpiry
  Plans <- MCPlans
  profileOf <- MCProfile
  marketOf <- MCMarket
  DeskBalance = 100
  DeskShorts = FALSE
  Disturbed = {"alpha"}
  OpenRisks = {4}
  MaxDisturbances = 0
  EndOfTime = 1
INVARIANT NoEntryPastExpiry
CHECK_DEADLOCK FALSE
SYMMETRY RunSymmetry

----------------------------- MODULE RiskEngine -----------------------------
(***************************************************************************)
(* The deterministic authority over opening risk (trading/risk/engine.py,   *)
(* sizing.py): a pure function of a proposal, the portfolio, the profile,   *)
(* the market's constraints, the kill switch and the time.                  *)
(*                                                                          *)
(* Money and quantities are whole numbers, the profile's limits are whole   *)
(* percentages, so a budget is counted in hundredths of the unit of money.  *)
(* The texts of a decision are left out; the code of a refusal is kept.     *)
(***************************************************************************)
EXTENDS Optional, Integers, FiniteSets

\* A limit that is not set is no number.
ASSUME NoLimitAssumption == None \notin Int

Profile == [{"trade", "daily", "drawdown", "portfolio", "correlated", "positions", "leverage", "minRR"}
              -> Int \cup {None}]
Constraints == [step : Int, minQty : Int, minNotional : Int, maxQty : Int \cup {None},
                leverage : Int \cup {None}, short : BOOLEAN]

Distance(p) == IF p.entry > p.stop THEN p.entry - p.stop ELSE p.stop - p.entry
Lesser(a, b) == IF a < b THEN a ELSE b

Required == {"trade", "daily", "drawdown", "portfolio", "correlated", "positions", "leverage"}
Complete(profile) == \A limit \in Required : profile[limit] # None

ValidProfile(profile) ==
  /\ \A pct \in {"trade", "daily", "drawdown", "portfolio", "correlated"} : profile[pct] \in 0 .. 100
  /\ profile.positions >= 0
  /\ profile.leverage >= 1
  /\ profile.minRR # None => profile.minRR >= 0

ValidPortfolio(f) ==
  /\ f.equity > 0 /\ f.dayStart > 0 /\ f.peak > 0
  /\ f.open >= 0 /\ f.openRisk >= 0 /\ f.correlatedRisk >= 0 /\ f.gross >= 0

ValidMarket(m) ==
  /\ m.step > 0 /\ m.minQty >= 0 /\ m.minNotional >= 0
  /\ m.maxQty # None => m.maxQty > 0
  /\ m.leverage # None => m.leverage >= 1

Leverage(profile, m) ==
  IF m.leverage = None THEN profile.leverage ELSE Lesser(profile.leverage, m.leverage)

WrongSide(p) == IF p.side = "LONG" THEN p.stop >= p.entry ELSE p.stop <= p.entry

\* _preflight_rejection: the first reason to refuse, in the order of the code.
Preflight(p, f, profile, m, killed, now) ==
  IF ~Complete(profile) THEN "PROFILE_INCOMPLETE"
  ELSE IF ~ValidProfile(profile) THEN "PROFILE_INVALID"
  ELSE IF killed THEN "KILL_SWITCH_ACTIVE"
  ELSE IF p.expires <= now THEN "SIGNAL_EXPIRED"
  ELSE IF ~ValidPortfolio(f) THEN "INVALID_PORTFOLIO_STATE"
  ELSE IF p.entry <= 0 THEN "INVALID_ENTRY_PRICE"
  ELSE IF p.stop = None THEN "INVALID_STOP"
  ELSE IF p.stop <= 0 \/ p.stop = p.entry THEN "INVALID_STOP"
  ELSE IF WrongSide(p) THEN "STOP_ON_WRONG_SIDE"
  ELSE IF ~ValidMarket(m) THEN "INVALID_MARKET_CONSTRAINTS"
  ELSE IF p.side = "SHORT" /\ ~m.short THEN "SHORT_NOT_SUPPORTED"
  ELSE IF 100 * f.dailyPnl <= -(f.dayStart * profile.daily) THEN "DAILY_LOSS_LIMIT"
  ELSE IF 100 * (f.peak - f.equity) >= profile.drawdown * f.peak THEN "MAX_DRAWDOWN_LIMIT"
  ELSE IF f.open >= profile.positions THEN "MAX_POSITIONS_LIMIT"
  ELSE IF p.leverage <= 0 \/ p.leverage > Leverage(profile, m) THEN "MAX_LEVERAGE"
  ELSE IF profile.minRR # None /\ (p.rr = None \/ p.rr < profile.minRR) THEN "MIN_EXPECTED_RR"
  ELSE "NONE"

---------------------------------------------------------------------------
(* Budgets, in hundredths.                                                 *)

TradeBudget(f, profile) == f.equity * profile.trade
PortfolioBudget(f, profile) == f.equity * profile.portfolio - 100 * f.openRisk
CorrelatedBudget(f, profile) == f.equity * profile.correlated - 100 * f.correlatedRisk
AllowedRisk(f, profile) ==
  Lesser(TradeBudget(f, profile), Lesser(PortfolioBudget(f, profile), CorrelatedBudget(f, profile)))

\* What may still be bought: gross exposure is deducted, so that positions do not each
\* consume the full leverage.
NotionalLeft(f, profile, m) == f.equity * Leverage(profile, m) - f.gross

\* quantity_from_risk, the exposure cap and cap_and_round_quantity: rounding a
\* minimum down to the step is the minimum of what is rounded down.
Steps(p, f, profile, m) ==
  LET byRisk == AllowedRisk(f, profile) \div (100 * Distance(p) * m.step)
      byNotional == NotionalLeft(f, profile, m) \div (p.entry * m.step)
      either == Lesser(byRisk, byNotional)
  IN  IF m.maxQty = None THEN either ELSE Lesser(either, m.maxQty \div m.step)

Quantity(p, f, profile, m) == Steps(p, f, profile, m) * m.step

Rejected(reason) == [status |-> "REJECTED", reason |-> reason, qty |-> 0]

\* The reason not to open a position of this size, after the preflight.
SizeRefusal(p, f, profile, m) ==
  LET qty == Quantity(p, f, profile, m)
      risk == 100 * qty * Distance(p)
  IN  IF PortfolioBudget(f, profile) <= 0 THEN "MAX_PORTFOLIO_RISK"
      ELSE IF CorrelatedBudget(f, profile) <= 0 THEN "MAX_CORRELATED_EXPOSURE"
      ELSE IF AllowedRisk(f, profile) <= 0 THEN "NO_RISK_BUDGET"
      ELSE IF NotionalLeft(f, profile, m) <= 0 THEN "MAX_LEVERAGE"
      ELSE IF qty <= 0 \/ qty < m.minQty THEN "MIN_QUANTITY"
      ELSE IF qty * p.entry < m.minNotional THEN "MIN_NOTIONAL"
      ELSE IF risk <= 0 \/ risk > TradeBudget(f, profile) THEN "NO_RISK_BUDGET"
      ELSE IF risk > PortfolioBudget(f, profile) THEN "MAX_PORTFOLIO_RISK"
      ELSE IF risk > CorrelatedBudget(f, profile) THEN "MAX_CORRELATED_EXPOSURE"
      ELSE "NONE"

\* Approved as it was sized by the trade's own budget, or cut to a smaller size.
Authorized(p, f, profile, m) ==
  LET qty == Quantity(p, f, profile, m)
  IN  [status |-> IF 100 * qty * Distance(p) = TradeBudget(f, profile) THEN "APPROVED" ELSE "RESIZED",
       reason |-> "NONE", qty |-> qty]

\* RiskEngine.evaluate
Evaluate(p, f, profile, m, killed, now) ==
  LET preflight == Preflight(p, f, profile, m, killed, now)
  IN  IF preflight # "NONE" THEN Rejected(preflight)
      ELSE IF SizeRefusal(p, f, profile, m) # "NONE" THEN Rejected(SizeRefusal(p, f, profile, m))
      ELSE Authorized(p, f, profile, m)

---------------------------------------------------------------------------
(* What a size must satisfy, without saying how it is found.               *)

\* A position of qty opened on this portfolio stays within every limit.
Safe(qty, p, f, profile, m) ==
  /\ 100 * qty * Distance(p) <= TradeBudget(f, profile)
  /\ 100 * (f.openRisk + qty * Distance(p)) <= f.equity * profile.portfolio
  /\ 100 * (f.correlatedRisk + qty * Distance(p)) <= f.equity * profile.correlated
  /\ f.gross + qty * p.entry <= f.equity * Leverage(profile, m)
  /\ m.maxQty # None => qty <= m.maxQty

\* qty is the largest safe multiple of the market's step.
LargestSafe(qty, p, f, profile, m) ==
  /\ qty > 0 /\ qty % m.step = 0
  /\ Safe(qty, p, f, profile, m)
  /\ ~Safe(qty + m.step, p, f, profile, m)

=============================================================================

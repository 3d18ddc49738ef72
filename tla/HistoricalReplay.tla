-------------------------- MODULE HistoricalReplay --------------------------
(***************************************************************************)
(* The replay of one system over historical candles                         *)
(* (services/backtest/runner.py): the lifecycle that protects a position    *)
(* with a stop and targets (lifecycle.py, intrabar.py), the portfolio state *)
(* rebuilt from the broker after every event (portfolio.py), the risk       *)
(* engine and the paper broker.                                             *)
(*                                                                          *)
(* One symbol, as the runner has.  Filled orders are forgotten: no order of *)
(* a replay rests.  Fees are left out, slippage is not.                     *)
(***************************************************************************)
EXTENDS RiskEngine, Sequences, FiniteSetsExt

CONSTANTS
  Bars,            \* the candles there may be: open, high, low, close
  Signals,         \* what agents may propose: side, entry, stop, targets, leverage, rr
  replayProfile,   \* the risk profile
  replayMarket,    \* the market's constraints
  ReplayBalance, ReplaySlippage, ReplayShorts,   \* broker configuration
  CandlesPerDay,
  PeriodStart,     \* decisions are taken from the candle that closes then
  MaxCandles       \* bound: candles of the dataset

\* A candle lies between its low and its high (intrabar.py), a proposal's stop and
\* targets on both sides of its entry (ProfessorFinalDecision).
ASSUME ReplayAssumption ==
  /\ Bars \subseteq [open : Nat \ {0}, high : Nat \ {0}, low : Nat \ {0}, close : Nat \ {0}]
  /\ \A o \in Bars : {o.open, o.close} \subseteq o.low .. o.high
  /\ Signals \subseteq [side : {"LONG", "SHORT"}, entry : Nat \ {0}, stop : Nat \ {0},
                       targets : (SUBSET (Nat \ {0})) \ {{}}, leverage : Nat, rr : Nat]
  /\ \A signal \in Signals : \A t \in signal.targets :
       IF signal.side = "LONG" THEN signal.stop < signal.entry /\ signal.entry < t
       ELSE t < signal.entry /\ signal.entry < signal.stop
  /\ replayProfile \in Profile /\ replayMarket \in Constraints
  /\ ReplayBalance \in Nat /\ ReplaySlippage \in Nat
  /\ CandlesPerDay \in Nat \ {0} /\ PeriodStart \in Nat /\ MaxCandles \in Nat

VARIABLES
  clock,       \* ReplayClock: a candle opens at its index less one, closes at its index
  bar,         \* the candle under way
  step,        \* where the loop is, or how it ended
  account,     \* the broker's book
  mark,        \* the broker's last price
  protection,  \* HistoricalTradeProtection of the position
  folio,       \* BacktestPortfolioStateProvider
  left,        \* the exit of this candle, if there was one
  seen         \* history: the equity last observed at each time

replayVars == <<clock, bar, step, account, mark, protection, folio, left, seen>>

S == "symbol"
EmptyAccount == [orders |-> <<>>, cash |-> ReplayBalance, fees |-> 0, realized |-> 0,
                 pos |-> [s \in {S} |-> [qty |-> 0, avg |-> 0]],
                 stops |-> [s \in {S} |-> [price |-> None, qty |-> None]]]

PB == INSTANCE PaperBroker WITH
  Symbols <- {S}, Prices <- {}, Quantities <- {}, LimitPrices <- {}, StopPrices <- {},
  InitialBalance <- ReplayBalance, MakerBps <- 0, TakerBps <- 0, SlippageBps <- ReplaySlippage,
  AllowShort <- ReplayShorts, MaxOrders <- 0, marks <- [s \in {S} |-> None], book <- EmptyAccount

Unprotected == [side |-> "FLAT", qty |-> 0, avg |-> 0, stop |-> 0, targets |-> {}, opened |-> 0]
NoBar == [open |-> 0, high |-> 0, low |-> 0, close |-> 0]
NoExit == [reason |-> "NONE", price |-> 0]

SideOf(qty) == IF qty > 0 THEN "LONG" ELSE IF qty < 0 THEN "SHORT" ELSE "FLAT"
Held(b) == b.pos[S]
Settled(b) == [b EXCEPT !.orders = <<>>]
Equity(b, m) == b.cash + Held(b).qty * m
Day(t) == t \div CandlesPerDay

ReplayInit ==
  /\ clock = 0
  /\ bar = NoBar
  /\ step = "NEXT"
  /\ account = EmptyAccount
  /\ mark = 0
  /\ protection = Unprotected
  /\ folio = [equity |-> ReplayBalance, dayStart |-> ReplayBalance, peak |-> ReplayBalance,
              dailyPnl |-> 0, open |-> 0, openRisk |-> 0, correlatedRisk |-> 0, gross |-> 0,
              day |-> None]
  /\ left = NoExit
  /\ seen = [t \in 0 .. MaxCandles |-> None]

---------------------------------------------------------------------------
(* Protections and the resolution of one candle.                           *)

\* _sync_positions: a protection follows the quantity and the average entry of
\* its position and goes with it.
Synced(p, b) ==
  IF p.side = SideOf(Held(b).qty) /\ p.side # "FLAT"
  THEN [p EXCEPT !.qty = PB!Magnitude(Held(b).qty), !.avg = Held(b).avg] ELSE Unprotected

OpenRisk(p) == PB!Magnitude(p.avg - p.stop) * p.qty

\* Every target must lie beyond the average entry, or the resolution raises.
TargetsValid(p) == \A t \in p.targets : IF p.side = "LONG" THEN t > p.avg ELSE t < p.avg
FirstTarget(p) == IF p.side = "LONG" THEN Min(p.targets) ELSE Max(p.targets)

\* Does a price reach the level l, in favour (d = 1) or against (d = -1) side?
Reaches(side, d, price, l) ==
  LET up == IF side = "LONG" THEN d ELSE -d IN up * price >= up * l
Best(side) == IF side = "LONG" THEN bar.high ELSE bar.low
Worst(side) == IF side = "LONG" THEN bar.low ELSE bar.high

\* Variant: the target is looked at before the stop.
ResolutionTargetFirst(p) ==
  IF p.side = "FLAT" THEN NoExit
  ELSE IF Reaches(p.side, -1, bar.open, p.stop) THEN [reason |-> "STOP_GAP", price |-> bar.open]
  ELSE IF Reaches(p.side, 1, Best(p.side), FirstTarget(p))
    THEN [reason |-> IF Reaches(p.side, 1, bar.open, FirstTarget(p)) THEN "TARGET_GAP" ELSE "TARGET_INTRABAR",
          price |-> FirstTarget(p)]
  ELSE IF Reaches(p.side, -1, Worst(p.side), p.stop) THEN [reason |-> "STOP_INTRABAR", price |-> p.stop]
  ELSE NoExit

\* resolve_intrabar with STOP_FIRST.
Resolution(p) ==
  IF p.side = "FLAT" THEN NoExit
  ELSE IF Reaches(p.side, -1, bar.open, p.stop) THEN [reason |-> "STOP_GAP", price |-> bar.open]
  ELSE IF p.targets # {} /\ Reaches(p.side, 1, bar.open, FirstTarget(p))
    THEN [reason |-> "TARGET_GAP", price |-> FirstTarget(p)]
  ELSE IF Reaches(p.side, -1, Worst(p.side), p.stop) THEN [reason |-> "STOP_INTRABAR", price |-> p.stop]
  ELSE IF p.targets # {} /\ Reaches(p.side, 1, Best(p.side), FirstTarget(p))
    THEN [reason |-> "TARGET_INTRABAR", price |-> FirstTarget(p)]
  ELSE NoExit

Gaps == {"STOP_GAP", "TARGET_GAP"}

\* What leaves at the open.
LeavesAtOpen(r) == r.reason \in Gaps

\* _target_event: the stop is cancelled, the mark set to the target, a limit
\* order at the target closes the position.
TargetExit(b, price) ==
  LET qty == Held(b).qty
      unstopped == [b EXCEPT !.stops[S] = PB!NoStop]
      ticked == PB!AfterTick(unstopped, S, price)
      order == [sym |-> S, side |-> IF qty > 0 THEN "SELL" ELSE "BUY", kind |-> "LIMIT",
                qty |-> PB!Magnitude(qty), limit |-> price, status |-> "PENDING"]
  IN  PB!FillLimit(PB!Placed(ticked, order), Len(ticked.orders) + 1)

Ticked(b, price) == PB!AfterTick(b, S, price)
StopOrderFilled(b, price) == Len(Ticked(b, price).orders) > Len(b.orders)

---------------------------------------------------------------------------
(* The portfolio state is rebuilt after every event.                       *)

\* refresh_from_broker, at a time.  Variant: a new day starts from its first equity.
AnchorAtFirst(f, equity, t) == IF f.day # None /\ f.day # Day(t) THEN equity ELSE f.dayStart
Anchor(f, equity, t) == IF f.day # None /\ f.day # Day(t) THEN f.equity ELSE f.dayStart

Refreshed(f, b, m, p, t) ==
  LET worth == Equity(b, m)
      dayStart == Anchor(f, worth, t)
  IN  [equity |-> worth, dayStart |-> dayStart, dailyPnl |-> worth - dayStart,
       peak |-> IF worth > f.peak THEN worth ELSE f.peak,
       open |-> IF Held(b).qty = 0 THEN 0 ELSE 1,
       openRisk |-> OpenRisk(p), correlatedRisk |-> OpenRisk(p),
       gross |-> PB!Magnitude(Held(b).qty) * m, day |-> Day(t)]

\* The book, the mark and the protection after an event, and what follows from them.
Becomes(b, m, p, t) ==
  /\ account' = Settled(b)
  /\ mark' = m
  /\ protection' = p
  /\ folio' = Refreshed(folio, b, m, p, t)
  /\ seen' = [seen EXCEPT ![t] = Equity(b, m)]

Abort(reason) ==
  /\ step' = reason
  /\ UNCHANGED <<clock, bar, account, mark, protection, folio, left, seen>>

---------------------------------------------------------------------------
(* The loop of HistoricalReplayRunner.run.                                 *)

NextCandle(o) ==
  /\ step = "NEXT" /\ clock < MaxCandles
  /\ bar' = o
  /\ step' = "OPEN"
  /\ left' = NoExit
  /\ UNCHANGED <<clock, account, mark, protection, folio, seen>>

\* process_candle_open: gaps leave at the open.
CandleOpen ==
  /\ step = "OPEN"
  /\ LET p == Synced(protection, account)
         r == Resolution(p)
         early == LeavesAtOpen(r)
         ticked == Ticked(account, bar.open)
     IN  IF p.side # "FLAT" /\ ~TargetsValid(p) THEN Abort("TARGET_SIDE")
         ELSE IF r.reason = "STOP_GAP" /\ ~StopOrderFilled(account, bar.open) THEN Abort("NO_STOP_ORDER")
         ELSE IF r.reason = "TARGET_GAP" /\ Held(ticked).qty = 0 THEN Abort("NO_POSITION")
         ELSE /\ LET exited == IF early /\ r.reason = "TARGET_GAP" THEN TargetExit(ticked, r.price) ELSE ticked
                     m == IF early /\ r.reason = "TARGET_GAP" THEN r.price ELSE bar.open
                 IN  Becomes(exited, m, Synced(p, exited), clock)
              /\ left' = IF early THEN r ELSE NoExit
              /\ step' = "CLOSE"
              /\ UNCHANGED <<clock, bar>>

\* process_candle_close: the touches within the candle, then the close.
CandleClose ==
  /\ step = "CLOSE"
  /\ LET p == Synced(protection, account)
         r == Resolution(p)
         exited == CASE r.reason = "STOP_INTRABAR" -> Ticked(account, r.price)
                     [] r.reason = "TARGET_INTRABAR" -> TargetExit(account, r.price)
                     [] OTHER -> account
         closed == Ticked(exited, bar.close)
     IN  IF p.side # "FLAT" /\ ~TargetsValid(p) THEN Abort("TARGET_SIDE")
         ELSE IF r.reason \in Gaps THEN Abort("GAP_AT_CLOSE")
         ELSE IF r.reason = "STOP_INTRABAR" /\ ~StopOrderFilled(account, r.price) THEN Abort("NO_STOP_ORDER")
         ELSE /\ Becomes(closed, bar.close, Synced(p, closed), clock + 1)
              /\ left' = IF r.reason = "NONE" THEN left ELSE r
              /\ clock' = clock + 1
              /\ step' = IF clock + 1 >= PeriodStart THEN "DECIDE" ELSE "NEXT"
              /\ UNCHANGED bar

Pass ==
  /\ step = "DECIDE" /\ step' = "NEXT"
  /\ UNCHANGED <<clock, bar, account, mark, protection, folio, left, seen>>

Judged(signal, f) ==
  Evaluate([side |-> signal.side, entry |-> signal.entry, stop |-> signal.stop, rr |-> signal.rr,
            leverage |-> signal.leverage, expires |-> clock + 1], f, replayProfile, replayMarket, FALSE, clock)

OrderFor(signal, qty) == [sym |-> S, side |-> IF signal.side = "LONG" THEN "BUY" ELSE "SELL",
                          kind |-> "MARKET", qty |-> qty, limit |-> None, status |-> "PENDING"]
Allowed(order) ==
  (order.side = "SELL" /\ ~ReplayShorts) =>
    order.qty <= (IF Held(account).qty > 0 THEN Held(account).qty ELSE 0)

\* Variant: the stop is set for what was just bought.
StopSizeOfOrder(b, order) == order.qty
StopSize(b, order) == PB!Magnitude(Held(b).qty)

\* The protection a proposal gives.
Protecting(signal, b) ==
  [side |-> signal.side, qty |-> PB!Magnitude(Held(b).qty), avg |-> Held(b).avg,
   stop |-> signal.stop, targets |-> signal.targets, opened |-> clock]

\* register_execution: a proposal on the position's side protects all of it with
\* its own stop and targets; one that only reduced the position changes nothing.
Register(signal, b, order) ==
  IF SideOf(Held(b).qty) = signal.side
  THEN [book |-> [b EXCEPT !.stops[S] = [price |-> signal.stop, qty |-> StopSize(b, order)]],
        protection |-> Protecting(signal, b)]
  ELSE [book |-> b, protection |-> Synced(protection, b)]

\* The pipeline, the registration of an execution and a last refresh.
Decide(signal) ==
  /\ step = "DECIDE"
  /\ LET d == Judged(signal, folio)
         order == OrderFor(signal, d.qty)
         filled == PB!FillMarket(PB!Placed(Ticked(account, bar.close), order), 1, bar.close)
         registered == Register(signal, filled, order)
         refused == SideOf(Held(filled).qty) = signal.side
                      /\ PB!Hit(Held(filled).qty, signal.stop, bar.close)
     IN  IF d.status = "REJECTED" \/ ~Allowed(order)
         THEN /\ step' = "NEXT"
              /\ UNCHANGED <<clock, bar, account, mark, protection, folio, left, seen>>
         ELSE IF refused   \* set_stop_loss raises: the position stays open, unprotected
         THEN /\ account' = Settled(filled) /\ mark' = bar.close /\ step' = "STOP_REFUSED"
              /\ protection' = Synced(protection, filled)
              /\ UNCHANGED <<clock, bar, folio, left, seen>>
         ELSE /\ Becomes(registered.book, bar.close, registered.protection, clock)
              /\ step' = "NEXT"
              /\ UNCHANGED <<clock, bar, left>>

\* cancel_check, polled at the top of the loop.
CancelReplay ==
  /\ step = "NEXT" /\ step' = "CANCELLED"
  /\ UNCHANGED <<clock, bar, account, mark, protection, folio, left, seen>>

ReplayEnds ==
  /\ step = "NEXT" /\ clock = MaxCandles /\ step' = "COMPLETED"
  /\ UNCHANGED <<clock, bar, account, mark, protection, folio, left, seen>>

ReplayNext ==
  \/ \E o \in Bars : NextCandle(o)
  \/ CandleOpen \/ CandleClose \/ Pass
  \/ \E signal \in Signals : Decide(signal)
  \/ CancelReplay \/ ReplayEnds

ReplaySpec == ReplayInit /\ [][ReplayNext]_replayVars

---------------------------------------------------------------------------
(* Properties.                                                             *)

Aborts == {"TARGET_SIDE", "STOP_REFUSED", "GAP_AT_CLOSE", "NO_STOP_ORDER", "NO_POSITION"}
ReplayTypeOK ==
  /\ step \in {"NEXT", "OPEN", "CLOSE", "DECIDE", "CANCELLED", "COMPLETED"} \cup Aborts
  /\ clock \in 0 .. MaxCandles /\ bar \in Bars \cup {NoBar}
  /\ account.orders = <<>> /\ account.cash \in Int
  /\ protection.side \in {"LONG", "SHORT", "FLAT"} /\ protection.opened \in 0 .. clock

\* The runner, the lifecycle and the broker agree after every event: a position is
\* open exactly when it is protected, the protection has its side, quantity and
\* average entry, and the broker holds a stop at the same price for all of it.  The
\* one exception is a stop that the broker refuses, which ends the replay.
ProtectionMatchesBroker ==
  step # "STOP_REFUSED" =>
    LET p == Held(account) IN
      /\ protection.side = SideOf(p.qty)
      /\ p.qty # 0 => /\ protection.qty = PB!Magnitude(p.qty) /\ protection.avg = p.avg
                      /\ account.stops[S].price = protection.stop
                      /\ account.stops[S].qty >= protection.qty

\* Three of the errors the lifecycle raises cannot happen: a gap never reaches the
\* close, a stop that was touched has its order, a target finds its position.
OnlyKnownAborts == step \notin {"GAP_AT_CLOSE", "NO_STOP_ORDER", "NO_POSITION"}

\* The stop and target the replay remembers are those of the broker's position, and
\* it never gives up for a reason it should not meet.
ProtectionHolds == ReplayTypeOK /\ ProtectionMatchesBroker /\ OnlyKnownAborts

\* An exit leaves nothing behind, and never earns more than the candle allows: at
\* most the stop or the open beyond it when the stop may have come first, at most
\* the nearest target otherwise.
ExitIsAdverse ==
  [][left'.reason # "NONE" /\ left'.reason # left.reason =>
       LET p == protection
           stopped == /\ Reaches(p.side, -1, Worst(p.side), p.stop)
                      /\ ~Reaches(p.side, 1, bar.open, FirstTarget(p))
           worst == IF p.side = "LONG" THEN Lesser(p.stop, bar.open)
                    ELSE IF p.stop > bar.open THEN p.stop ELSE bar.open
           level == IF stopped THEN worst ELSE FirstTarget(p)
       IN  /\ Held(account').qty = 0 /\ account'.stops[S] = PB!NoStop
           /\ account'.cash - account.cash <= Held(account).qty * level]_replayVars

\* The account the risk engine should see: the book at the last price, the risk of
\* the position to its stop, the day's result since the last equity of the day
\* before, the highest equity observed.
Before(t) == {u \in 0 .. t : Day(u) < Day(t) /\ seen[u] # None}
Observed == {seen[u] : u \in DOMAIN seen} \ {None}
TrueAccount ==
  LET worth == Equity(account, mark)
      start == IF Before(clock) = {} THEN ReplayBalance ELSE seen[Max(Before(clock))]
      p == Held(account)
      risk == IF p.qty = 0 THEN 0 ELSE PB!Magnitude(p.avg - account.stops[S].price) * PB!Magnitude(p.qty)
  IN  [equity |-> worth, dayStart |-> start, dailyPnl |-> worth - start,
       peak |-> folio.peak, open |-> IF p.qty = 0 THEN 0 ELSE 1,
       openRisk |-> risk, correlatedRisk |-> risk, gross |-> PB!Magnitude(p.qty) * mark]

\* Every decision is taken on the account as it is: what is bought is what the risk
\* engine allows on the book itself, never on a state from before the last exit,
\* candle, day or entry.
JudgedOnTrueAccount ==
  [][\A signal \in Signals :
       Decide(signal) /\ account' # account =>
         /\ PB!Magnitude(Held(account').qty - Held(account).qty)
              = Judged(signal, TrueAccount).qty
         /\ \A equity \in Observed : equity <= folio.peak]_replayVars

=============================================================================

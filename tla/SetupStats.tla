----------------------------- MODULE SetupStats -----------------------------
(***************************************************************************)
(* What a backtest makes of its fills: the evaluation rebuilds positions    *)
(* and closed trades from them (evaluation/trading.py), the attribution     *)
(* divides each closed trade among the opportunities that built the         *)
(* position (services/backtest/setup_stats.py), and what is known of a      *)
(* setup is frozen for later decisions (denver_prior.py).                   *)
(*                                                                          *)
(* The code reads a run's fills when the run is over; both passes are folds *)
(* over them in their order, taken here a fill at a time.  Amounts are      *)
(* Decimals of Digits significant digits, counted in the smallest unit.     *)
(* Slippage, which is divided as fees are, is left out, and so is the share *)
(* of a sample in its trades' result, which follows that of the quantity.   *)
(***************************************************************************)
EXTENDS Optional, Integers, Sequences, FiniteSets, SequencesExt

CONSTANTS
  FillPrices, Sizes,   \* what a fill may cost and count
  FeeBps,
  Digits,              \* precision of the Decimal context, 28 in the code
  setupOf,             \* the setup of the opportunity behind a fill
  MaxFills,            \* bound: fills of a campaign
  NoOpportunity        \* behind the fill of a stop or a target

StatsAssumption ==
  /\ FillPrices \cup Sizes \subseteq Nat \ {0} /\ FeeBps \in Nat
  /\ Digits \in Nat \ {0} /\ MaxFills \in Nat /\ NoOpportunity \notin 1 .. MaxFills

VARIABLES
  now,      \* fills so far: the time
  role,     \* the period under way
  account,  \* the broker's book
  metrics,  \* _PositionState, and the totals
  trades,   \* the closed trades of the run
  split,    \* the attribution: its lots, its samples, why it gave up
  reports,  \* what each finished run offers
  prior,    \* FrozenDenverPriorCatalog
  held,     \* history: the opportunities in the broker's position
  ended     \* history: when the position an opportunity built was over

statsVars == <<now, role, account, metrics, trades, split, reports, prior, held, ended>>

PeriodRoles == <<"DESIGN", "VALIDATION", "OOS">>
Over == "OVER"
S == "symbol"

EmptyAccount == [orders |-> <<>>, cash |-> 0, fees |-> 0, realized |-> 0,
                 pos |-> [s \in {S} |-> [qty |-> 0, avg |-> 0]],
                 stops |-> [s \in {S} |-> [price |-> None, qty |-> None]]]
PB == INSTANCE PaperBroker WITH
  Symbols <- {S}, Prices <- {}, Quantities <- {}, LimitPrices <- {}, StopPrices <- {},
  InitialBalance <- 0, MakerBps <- FeeBps, TakerBps <- FeeBps, SlippageBps <- 0,
  AllowShort <- TRUE, MaxOrders <- 0, marks <- [s \in {S} |-> None], book <- EmptyAccount

NoTrade == [side |-> "NONE", qty |-> 0, net |-> 0]
Unmeasured == [qty |-> 0, avg |-> 0, fees |-> 0, realized |-> 0, paid |-> 0]
Unsplit == [lots |-> <<>>, samples |-> {}, refusal |-> "NONE"]
NoPrior == [samples |-> {}, cutoff |-> 0, strict |-> TRUE]

StatsInit ==
  /\ now = 0 /\ role = PeriodRoles[1]
  /\ account = EmptyAccount /\ metrics = Unmeasured /\ trades = <<>> /\ split = Unsplit
  /\ reports = [r \in ToSet(PeriodRoles) |-> Unsplit]
  /\ prior = NoPrior
  /\ held = {} /\ ended = [o \in 1 .. MaxFills |-> None]

---------------------------------------------------------------------------
(* Decimals: every result is rounded half-even to Digits digits.           *)

Size(n) == IF n < 0 THEN -n ELSE n
Less(a, b) == IF a < b THEN a ELSE b
Grain(n) == 10 ^ (CHOOSE k \in 0 .. 6 :
                    n < 10 ^ (Digits + k) /\ (k = 0 \/ n >= 10 ^ (Digits + k - 1)))
Nearest(n, d) ==
  LET down == n \div d
      twice == 2 * (n % d)
  IN  IF twice > d \/ (twice = d /\ down % 2 = 1) THEN down + 1 ELSE down

Rounded(n) == LET r == Nearest(Size(n), Grain(Size(n))) * Grain(Size(n)) IN IF n < 0 THEN -r ELSE r

\* a * b / c
Portion(a, b, c) == LET p == Rounded(a * b) IN Nearest(p, c * Grain(p \div c)) * Grain(p \div c)

---------------------------------------------------------------------------
(* calculate_trading_metrics: one fill.                                    *)

Signed(f) == IF f.side = "BUY" THEN f.qty ELSE -f.qty
Opens(m, f) == m.qty = 0 \/ (m.qty > 0) = (f.side = "BUY")
Closing(m, f) == Less(Size(m.qty), f.qty)
Gross(m, f) == (IF m.qty > 0 THEN f.price - m.avg ELSE m.avg - f.price) * Closing(m, f)
EntryFee(m, f) == (m.fees * Closing(m, f)) \div Size(m.qty)
ExitFee(m, f) == (f.fee * Closing(m, f)) \div f.qty

Reopened(f, left) == (f.fee * Size(left)) \div f.qty

TradeOf(m, f) ==
  IF Opens(m, f) THEN NoTrade
  ELSE [side |-> IF m.qty > 0 THEN "LONG" ELSE "SHORT", qty |-> Closing(m, f),
        net |-> Gross(m, f) - EntryFee(m, f) - ExitFee(m, f)]

Measured(m, f) ==
  LET qty == m.qty + Signed(f)
      paid == m.paid + f.fee
      gross == Gross(m, f)
  IN  CASE Opens(m, f) ->
             [qty |-> qty, avg |-> (m.avg * Size(m.qty) + f.price * f.qty) \div (Size(m.qty) + f.qty),
              fees |-> m.fees + f.fee, realized |-> m.realized, paid |-> paid]
        [] ~Opens(m, f) /\ qty = 0 ->
             [qty |-> 0, avg |-> 0, fees |-> 0, realized |-> m.realized + gross, paid |-> paid]
        [] ~Opens(m, f) /\ qty # 0 /\ (qty > 0) = (m.qty > 0) ->
             [m EXCEPT !.qty = qty, !.fees = @ - EntryFee(m, f), !.realized = @ + gross, !.paid = paid]
        [] OTHER ->
             [qty |-> qty, avg |-> f.price, fees |-> Reopened(f, qty),
              realized |-> m.realized + gross, paid |-> paid]

---------------------------------------------------------------------------
(* The attribution of a closed trade to the lots of its position.          *)

Lot(f, qty) == [opp |-> f.opp, side |-> IF f.side = "BUY" THEN "LONG" ELSE "SHORT", left |-> qty]
OpenQuantity(lots) == FoldLeft(LAMBDA s, l : Rounded(s + l.left), 0, lots)
GivesUp(a, why) == [a EXCEPT !.refusal = why]

\* _allocate_closed_trade_to_lots: pro rata, and the last lot takes the rest.
Share(lots, i, rest, closing) ==
  CASE i = Len(lots) -> rest
    [] i # Len(lots) /\ closing = OpenQuantity(lots) -> lots[i].left
    [] OTHER -> Portion(closing, lots[i].left, OpenQuantity(lots))

Allocated(lots, closing) ==
  FoldLeft(LAMBDA acc, i :
             LET share == Share(lots, i, acc.rest, closing) IN
               IF share < 0 \/ share > lots[i].left THEN [acc EXCEPT !.fits = FALSE]
               ELSE [acc EXCEPT !.lots[i].left = Rounded(lots[i].left - share),
                                !.rest = Rounded(@ - share)],
           [lots |-> lots, rest |-> closing, fits |-> TRUE], [i \in 1 .. Len(lots) |-> i])

\* _finalize_closed_lots
Samples(lots) == {[opp |-> l.opp, side |-> l.side, closed |-> now + 1, role |-> role] : l \in ToSet(lots)}

\* Variant: every lot a trade empties becomes a sample at once.
SamplesOfTrade(lots, whole) == Samples(lots)
SamplesOf(lots, whole) == IF whole THEN Samples(lots) ELSE {}

Opening(a, f) ==
  IF f.opp = NoOpportunity THEN GivesUp(a, "NO_SETUP") ELSE [a EXCEPT !.lots = Append(@, Lot(f, f.qty))]

Reversed(a, f, residual) ==
  IF residual <= 0 THEN a
  ELSE IF f.opp = NoOpportunity THEN GivesUp(a, "NO_SETUP") ELSE [a EXCEPT !.lots = <<Lot(f, residual)>>]

\* _observations_from_execution_provenance: one execution.
Attributed(a, f, trade) ==
  LET open == OpenQuantity(a.lots)
      closing == Less(open, f.qty)
      side == a.lots[1].side
      cut == Allocated(a.lots, closing)
      whole == closing = open
      closed == [a EXCEPT !.lots = IF whole THEN <<>> ELSE SelectSeq(cut.lots, LAMBDA l : l.left > 0),
                          !.samples = @ \cup SamplesOf(a.lots, whole)]
  IN  IF a.refusal # "NONE" THEN a
      ELSE IF a.lots = <<>> \/ (side = "LONG") = (f.side = "BUY") THEN Opening(a, f)
      ELSE IF trade = NoTrade THEN GivesUp(a, "NO_TRADE")
      ELSE IF trade.side # side \/ trade.qty # closing THEN GivesUp(a, "MISMATCH")
      ELSE IF ~cut.fits \/ cut.rest # 0 THEN GivesUp(a, "EXCEEDED")
      ELSE IF whole /\ \E i \in DOMAIN cut.lots : cut.lots[i].left # 0 THEN GivesUp(a, "LOT_OPEN")
      ELSE Reversed(closed, f, Rounded(f.qty - open))

---------------------------------------------------------------------------
(* A run: entries its opportunities propose, exits of its stops and targets.*)

Position == account.pos[S]

Filled(f) ==
  LET order == [sym |-> S, side |-> f.side, kind |-> "MARKET", qty |-> f.qty, limit |-> None,
                status |-> "PENDING"]
  IN  [PB!FillMarket(PB!Placed(account, order), 1, f.price) EXCEPT !.orders = <<>>]

Holding(f) ==
  LET qty == Position.qty + Signed(f)
  IN  CASE Position.qty = 0 \/ (qty # 0 /\ (qty > 0) # (Position.qty > 0)) -> {now + 1}
        [] qty = 0 -> {}
        [] Position.qty # 0 /\ (Position.qty > 0) = (f.side = "BUY") -> held \cup {now + 1}
        [] OTHER -> held

Execute(f) ==
  /\ now < MaxFills /\ role # Over
  /\ account' = Filled(f)
  /\ metrics' = Measured(metrics, f)
  /\ trades' = IF TradeOf(metrics, f) = NoTrade THEN trades ELSE Append(trades, TradeOf(metrics, f))
  /\ split' = Attributed(split, f, TradeOf(metrics, f))
  /\ held' = Holding(f)
  /\ ended' = [o \in DOMAIN ended |-> IF o \in held \ held' THEN now + 1 ELSE ended[o]]
  /\ now' = now + 1
  /\ UNCHANGED <<role, reports, prior>>

Fee(price, qty) == (price * qty * FeeBps) \div 10000

Enter(side, qty, price) ==
  Execute([opp |-> now + 1, side |-> side, qty |-> qty, price |-> price, fee |-> Fee(price, qty)])

Exit(price) ==
  /\ Position.qty # 0
  /\ Execute([opp |-> NoOpportunity, side |-> IF Position.qty > 0 THEN "SELL" ELSE "BUY",
              qty |-> Size(Position.qty), price |-> price, fee |-> Fee(price, Size(Position.qty))])

\* The run of a period ends; what is still open is never a sample.
After(r) == CASE r = "DESIGN" -> "VALIDATION" [] r = "VALIDATION" -> "OOS" [] OTHER -> Over
EndRun ==
  /\ role # Over
  /\ reports' = [reports EXCEPT ![role] = split]
  /\ role' = After(role)
  /\ account' = EmptyAccount /\ metrics' = Unmeasured /\ trades' = <<>> /\ split' = Unsplit
  /\ held' = {}
  /\ UNCHANGED <<now, prior, ended>>

\* catalog_from_historical_runs, freeze_denver_prior: a single refusal leaves no catalog.
Available == role = Over /\ \A r \in DOMAIN reports : reports[r].refusal = "NONE"
Catalog == UNION {reports[r].samples : r \in DOMAIN reports}

Kept(s, cutoff, strict) == s.closed <= cutoff /\ (strict => s.role # "OOS")

Freeze(cutoff, strict) ==
  /\ Available /\ prior = NoPrior
  /\ \E s \in Catalog : Kept(s, cutoff, strict)
  /\ prior' = [samples |-> {s \in Catalog : Kept(s, cutoff, strict)}, cutoff |-> cutoff, strict |-> strict]
  /\ UNCHANGED <<now, role, account, metrics, trades, split, reports, held, ended>>

\* validate_for_target, and contexts_for a decision of that run.
Accepted(start, formal) == prior # NoPrior /\ prior.cutoff <= start /\ (formal => prior.strict)
Context(setup) == {s \in prior.samples : setupOf[s.opp] = setup /\ s.closed <= prior.cutoff}

StatsNext ==
  \/ \E side \in {"BUY", "SELL"}, qty \in Sizes, price \in FillPrices : Enter(side, qty, price)
  \/ \E price \in FillPrices : Exit(price)
  \/ EndRun
  \/ \E cutoff \in 0 .. MaxFills, strict \in BOOLEAN : Freeze(cutoff, strict)

StatsSpec == StatsInit /\ [][StatsNext]_statsVars

---------------------------------------------------------------------------
(* Properties.                                                             *)

Net(w) == FoldLeft(LAMBDA s, t : s + t.net, 0, w)

\* The evaluation, which sees fills only, arrives at the broker's account: its
\* position, its realized gains and its fees; and no fee is lost or counted twice
\* when it is divided among the trades and what is still open.
EvaluationAgrees ==
  /\ metrics.qty = Position.qty /\ metrics.avg = Position.avg
  /\ metrics.realized = account.realized /\ metrics.paid = account.fees
  /\ Net(trades) = metrics.realized - metrics.paid + metrics.fees

\* An opportunity is a sample once, and only when the position it built is over;
\* a lot that is left belongs to an opportunity that has none yet.
Known == UNION {reports[r].samples : r \in DOMAIN reports} \cup split.samples
SamplesAreOver ==
  /\ \A s \in Known : ended[s.opp] # None /\ ended[s.opp] <= s.closed
  /\ \A s, t \in Known : s.opp = t.opp => s = t
  /\ \A i \in DOMAIN split.lots : \A s \in Known : s.opp # split.lots[i].opp

\* What a run is told of a setup ended before the run began, and for a formal
\* out-of-sample run, was not seen out of sample either.
NoHindsight ==
  \A start \in 0 .. MaxFills, formal \in BOOLEAN : Accepted(start, formal) =>
    \A o \in DOMAIN ended : \A s \in Context(setupOf[o]) :
      /\ ended[s.opp] # None /\ ended[s.opp] <= start
      /\ formal => s.role # "OOS"

\* The evaluation is right, samples are whole and over, and a decision is told of
\* nothing that came after.
SamplesHold == EvaluationAgrees /\ SamplesAreOver /\ NoHindsight

\* Every position that was scaled, reduced or reversed is attributed: once it is
\* over, each opportunity that built it is a sample.
EveryTradeAttributed ==
  /\ split.refusal = "NONE"
  /\ Position.qty = 0 => split.lots = <<>>

=============================================================================

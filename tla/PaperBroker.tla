---------------------------- MODULE PaperBroker ----------------------------
(***************************************************************************)
(* The simulated broker of paper trading and of historical replays         *)
(* (trading/paper/broker.py): orders, cash, signed positions, one stop per *)
(* symbol.  No method awaits anything, so each runs as one step.           *)
(*                                                                         *)
(* A repeated client order id returns the order it named, or raises, and   *)
(* changes nothing: an order is known here by its place in the list.       *)
(***************************************************************************)
EXTENDS Optional, Integers, Sequences, SequencesExt

CONSTANTS
  Symbols, Prices, Quantities,
  LimitPrices, StopPrices,
  InitialBalance,
  MakerBps, TakerBps, SlippageBps,  \* per ten thousand
  AllowShort,
  MaxOrders                         \* bound: orders the callers submit

ASSUME MoneyAssumption ==
  /\ Prices \cup LimitPrices \cup StopPrices \cup Quantities \subseteq Nat \ {0}
  /\ {MakerBps, TakerBps, SlippageBps} \subseteq Nat
  /\ InitialBalance \in Int
  /\ None \notin Int

VARIABLES
  marks,  \* the last price of each symbol
  book    \* orders, money, positions and stops

vars == <<marks, book>>

Order == [sym : Symbols, side : {"BUY", "SELL"}, kind : {"MARKET", "LIMIT"},
          qty : Nat \ {0}, limit : LimitPrices \cup {None},
          status : {"PENDING", "FILLED", "CANCELED"}]
Position == [qty : Int, avg : Int]
Flat == [qty |-> 0, avg |-> 0]
Stop == [price : StopPrices, qty : (Nat \ {0}) \cup {None}]
NoStop == [price |-> None, qty |-> None]
Book == [orders : Seq(Order), cash : Int, fees : Int, realized : Int,
         pos : [Symbols -> Position], stops : [Symbols -> Stop \cup {NoStop}]]

TypeOK ==
  /\ marks \in [Symbols -> Prices \cup {None}]
  /\ book \in Book

Init ==
  /\ marks = [s \in Symbols |-> None]
  /\ book = [orders |-> <<>>, cash |-> InitialBalance, fees |-> 0, realized |-> 0,
             pos |-> [s \in Symbols |-> Flat], stops |-> [s \in Symbols |-> NoStop]]

---------------------------------------------------------------------------
(* Fills.                                                                  *)

Magnitude(n) == IF n < 0 THEN -n ELSE n
SameSide(a, b) == (a > 0 /\ b > 0) \/ (a < 0 /\ b < 0)
Adds(p, signed) == p.qty = 0 \/ SameSide(p.qty, signed)

\* Adding averages the entry price, reducing keeps it, crossing zero restarts it.
PositionAfter(p, signed, price) ==
  LET qty == p.qty + signed
      total == Magnitude(p.qty) + Magnitude(signed)
  IN [qty |-> qty,
      avg |-> CASE Adds(p, signed) -> (p.avg * Magnitude(p.qty) + price * Magnitude(signed)) \div total
                [] ~Adds(p, signed) /\ SameSide(p.qty, qty) -> p.avg
                [] ~Adds(p, signed) /\ qty = 0 -> 0
                [] OTHER -> price]

\* Variant: a short gains what a long would.
GainOfLong(p, signed, price) ==
  LET closing == IF Magnitude(signed) < Magnitude(p.qty) THEN Magnitude(signed) ELSE Magnitude(p.qty)
  IN  IF Adds(p, signed) THEN 0 ELSE (price - p.avg) * closing

Gain(p, signed, price) ==
  LET closing == IF Magnitude(signed) < Magnitude(p.qty) THEN Magnitude(signed) ELSE Magnitude(p.qty)
  IN  IF Adds(p, signed) THEN 0
      ELSE (price - p.avg) * (IF p.qty > 0 THEN closing ELSE -closing)

\* Variant: a flip keeps the stop.
StopSurvivesFlip(p, signed) == p.qty + signed # 0

\* The stop survives unless the position is closed or flips.
StopSurvives(p, signed) == p.qty + signed # 0 /\ (p.qty = 0 \/ SameSide(p.qty, p.qty + signed))

Signed(o) == IF o.side = "BUY" THEN o.qty ELSE -o.qty

Fill(b, i, price, bps) ==
  LET o == b.orders[i]
      p == b.pos[o.sym]
      fee == (price * o.qty * bps) \div 10000
  IN [b EXCEPT !.orders[i].status = "FILLED",
               !.cash = @ - Signed(o) * price - fee,
               !.fees = @ + fee,
               !.realized = @ + Gain(p, Signed(o), price),
               !.pos[o.sym] = PositionAfter(p, Signed(o), price),
               !.stops[o.sym] = IF StopSurvives(p, Signed(o)) THEN @ ELSE NoStop]

MarketPrice(side, mark) ==
  IF side = "BUY" THEN mark + (mark * SlippageBps) \div 10000
  ELSE mark - (mark * SlippageBps) \div 10000

FillMarket(b, i, mark) == Fill(b, i, MarketPrice(b.orders[i].side, mark), TakerBps)
FillLimit(b, i) == Fill(b, i, b.orders[i].limit, MakerBps)

Crosses(o, mark) == IF o.side = "BUY" THEN mark <= o.limit ELSE mark >= o.limit

---------------------------------------------------------------------------
(* submit_order, for a client order id not seen before.                    *)

Available(s) == IF book.pos[s].qty > 0 THEN book.pos[s].qty ELSE 0

Placed(b, o) == [b EXCEPT !.orders = Append(@, o)]

SubmitOrder(o) ==
  /\ Len(book.orders) < MaxOrders
  /\ (~AllowShort /\ o.side = "SELL") => o.qty <= Available(o.sym)
  /\ LET mark == marks[o.sym]
         placed == Placed(book, o)
         i == Len(placed.orders)
     IN  book' = CASE mark = None -> placed   \* a MARKET order raises here, but stays
                   [] mark # None /\ o.kind = "MARKET" -> FillMarket(placed, i, mark)
                   [] mark # None /\ o.kind = "LIMIT" /\ Crosses(o, mark) -> FillLimit(placed, i)
                   [] OTHER -> placed
  /\ UNCHANGED marks

SubmitMarket(s, side, q) ==
  SubmitOrder([sym |-> s, side |-> side, kind |-> "MARKET", qty |-> q, limit |-> None,
               status |-> "PENDING"])

SubmitLimit(s, side, q, limit) ==
  SubmitOrder([sym |-> s, side |-> side, kind |-> "LIMIT", qty |-> q, limit |-> limit,
               status |-> "PENDING"])

CancelOrder(i) ==
  /\ i \in DOMAIN book.orders /\ book.orders[i].status = "PENDING"
  /\ book' = [book EXCEPT !.orders[i].status = "CANCELED"]
  /\ UNCHANGED marks

---------------------------------------------------------------------------
(* Stops.                                                                  *)

\* Is the price on the far side of the stop of a position of this sign?
Hit(qty, stop, price) == (qty > 0 /\ price <= stop) \/ (qty < 0 /\ price >= stop)

SetStopLoss(s, price, q) ==
  /\ book.pos[s].qty # 0
  /\ q # None => q <= Magnitude(book.pos[s].qty)
  /\ marks[s] # None /\ ~Hit(book.pos[s].qty, price, marks[s])
  /\ book' = [book EXCEPT !.stops[s] = [price |-> price, qty |-> q]]
  /\ UNCHANGED marks

CancelStopLoss(s) ==
  /\ book.stops[s] # NoStop
  /\ book' = [book EXCEPT !.stops[s] = NoStop]
  /\ UNCHANGED marks

---------------------------------------------------------------------------
(* process_price: the mark, then the limits it crosses in the order they   *)
(* were placed, then the stop of what the position has become.             *)

IsCrossed(o, s, price) ==
  o.sym = s /\ o.status = "PENDING" /\ o.kind = "LIMIT" /\ Crosses(o, price)

AfterLimits(b, s, price) ==
  FoldLeft(LAMBDA acc, i : IF IsCrossed(b.orders[i], s, price) THEN FillLimit(acc, i) ELSE acc,
           b, [i \in 1 .. Len(b.orders) |-> i])

\* Variant: a partial stop sells what it was set for, whatever is left.
AfterStopUncapped(b, s, price) ==
  LET qty == b.pos[s].qty
      exit == [sym |-> s, side |-> IF qty > 0 THEN "SELL" ELSE "BUY", kind |-> "MARKET",
               qty |-> IF b.stops[s].qty = None THEN Magnitude(qty) ELSE b.stops[s].qty,
               limit |-> None, status |-> "PENDING"]
      exiting == Placed([b EXCEPT !.stops[s] = NoStop], exit)
  IN  IF b.stops[s] # NoStop /\ Hit(qty, b.stops[s].price, price)
      THEN FillMarket(exiting, Len(exiting.orders), price) ELSE b

AfterStop(b, s, price) ==
  LET p == b.pos[s]
      stop == b.stops[s]
      size == Magnitude(p.qty)
      exit == [sym |-> s, side |-> IF p.qty > 0 THEN "SELL" ELSE "BUY", kind |-> "MARKET",
               qty |-> IF stop.qty = None \/ stop.qty > size THEN size ELSE stop.qty,
               limit |-> None, status |-> "PENDING"]
      exiting == Placed([b EXCEPT !.stops[s] = NoStop], exit)
  IN  IF stop # NoStop /\ Hit(p.qty, stop.price, price)
      THEN FillMarket(exiting, Len(exiting.orders), price) ELSE b

AfterTick(b, s, price) == AfterStop(AfterLimits(b, s, price), s, price)

ProcessPrice(s, price) ==
  /\ marks' = [marks EXCEPT ![s] = price]
  /\ book' = AfterTick(book, s, price)

---------------------------------------------------------------------------
Next ==
  \/ \E s \in Symbols, side \in {"BUY", "SELL"}, q \in Quantities :
       SubmitMarket(s, side, q) \/ \E limit \in LimitPrices : SubmitLimit(s, side, q, limit)
  \/ \E i \in 1 .. Len(book.orders) : CancelOrder(i)
  \/ \E s \in Symbols, price \in StopPrices, q \in Quantities \cup {None} : SetStopLoss(s, price, q)
  \/ \E s \in Symbols : CancelStopLoss(s) \/ \E price \in Prices : ProcessPrice(s, price)

Spec == Init /\ [][Next]_vars

---------------------------------------------------------------------------
(* Properties.                                                             *)

\* The account balances through averaging, partial closes, flips and stops: equity
\* is what was put in, plus realized and unrealized gains, minus fees; and every
\* open position can be marked, as get_account_state requires.
Unrealized(s) ==
  IF book.pos[s].qty = 0 THEN 0 ELSE (marks[s] - book.pos[s].avg) * book.pos[s].qty
Value(s) == IF book.pos[s].qty = 0 THEN 0 ELSE marks[s] * book.pos[s].qty
Total(F(_)) == MapThenFoldSet(LAMBDA a, b : a + b, 0, F, LAMBDA S : CHOOSE s \in S : TRUE, Symbols)

AccountBalances ==
  /\ \A s \in Symbols : book.pos[s].qty # 0 => marks[s] # None
  /\ book.cash + Total(Value) = InitialBalance + book.realized + Total(Unrealized) - book.fees

\* A stop protects an open position from the right side and has not been passed
\* over by the last price: no fill, flip or tick leaves a dead or a late stop.
StopStillArmed ==
  \A s \in Symbols : book.stops[s] # NoStop =>
    /\ book.pos[s].qty # 0
    /\ ~Hit(book.pos[s].qty, book.stops[s].price, marks[s])

\* No limit order rests at a price the market has reached.
NoCrossedLimitRests ==
  \A i \in DOMAIN book.orders :
    LET o == book.orders[i] IN
      o.kind = "LIMIT" /\ o.status = "PENDING" /\ marks[o.sym] # None =>
        ~Crosses(o, marks[o.sym])

\* Its stops protect what is held and were not reached, and no limit rests that the
\* market has crossed.
BookHolds == TypeOK /\ StopStillArmed /\ NoCrossedLimitRests

\* A triggered stop only ever reduces: the exit never turns the position around,
\* even when limits of the same tick had shrunk it.
TickOnlyReduces ==
  \A s \in Symbols, price \in Prices :
    LET mid == AfterLimits(book, s, price).pos[s].qty
    IN  ProcessPrice(s, price) =>
          \/ book'.pos[s].qty = mid
          \/ /\ Magnitude(book'.pos[s].qty) < Magnitude(mid)
             /\ ~SameSide(book'.pos[s].qty, -mid)
StopOnlyReduces == [][TickOnlyReduces]_vars

=============================================================================

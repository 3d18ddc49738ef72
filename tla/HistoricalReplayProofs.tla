----------------------- MODULE HistoricalReplayProofs -----------------------
(* For any candles, proposals and limits: the replay's protection is that of *)
(* the broker's position, an exit is never better than the candle allows,    *)
(* and every decision is taken on the account as it is.                      *)
EXTENDS PaperProofs, HistoricalReplay

-----------------------------------------------------------------------------
(* The inductive invariant *)

Positions == [{S} -> [qty : Int, avg : Int]]
Stops == [price : Nat \ {0}, qty : Nat] \cup {[price |-> None, qty |-> None]}
Account(orders) == [orders : orders, cash : Int, fees : Int, realized : Int,
                    pos : Positions, stops : [{S} -> Stops]]
Protection == [side : {"LONG", "SHORT", "FLAT"}, qty : Nat, avg : Int, stop : Nat,
               targets : SUBSET Nat, opened : Nat]
Folio == [equity : Int, dayStart : Int, peak : Int, dailyPnl : Int, open : Int, openRisk : Int,
          correlatedRisk : Int, gross : Int, day : Int \cup {None}]

ReplayShape ==
  /\ step \in {"NEXT", "OPEN", "CLOSE", "DECIDE", "CANCELLED", "COMPLETED", "TARGET_SIDE", "STOP_REFUSED"}
  /\ clock \in 0 .. MaxCandles
  /\ step \in {"OPEN", "CLOSE"} => clock < MaxCandles
  /\ bar \in Bars \cup {NoBar}
  /\ step \in {"OPEN", "CLOSE", "DECIDE"} => bar \in Bars
  /\ account \in Account({<<>>}) /\ mark \in Nat
  /\ protection \in Protection /\ protection.opened <= clock
  /\ folio \in Folio
  /\ seen \in [0 .. MaxCandles -> Int \cup {None}]

\* Every target of a position lies beyond its stop.
TargetsBeyond(p) ==
  p.targets # {} /\ \A t \in p.targets : IF p.side = "LONG" THEN p.stop < t ELSE t < p.stop

\* A protection is that of a book: of its position's side, quantity and average
\* entry, with a stop of the broker's for all of it.
Covers(p, b) ==
  LET q == Held(b).qty
  IN  /\ p.side = SideOf(q)
      /\ q = 0 => p = Unprotected /\ b.stops[S] = PB!NoStop
      /\ q # 0 => /\ p.qty = PB!Magnitude(q) /\ p.avg = Held(b).avg /\ p.stop # 0
                  /\ b.stops[S].price = p.stop /\ b.stops[S].qty >= p.qty
                  /\ TargetsBeyond(p)

\* Once the open has passed no gap is left, once the close has no stop is reached.
StageHolds ==
  /\ step = "CLOSE" => ~LeavesAtOpen(Resolution(protection))
  /\ step = "DECIDE" => mark = bar.close /\ ~PB!Hit(Held(account).qty, protection.stop, mark)

\* The portfolio state is that of the book, the mark and the protection.
FolioMirrors ==
  /\ folio.equity = Equity(account, mark) /\ folio.dailyPnl = folio.equity - folio.dayStart
  /\ folio.open = (IF Held(account).qty = 0 THEN 0 ELSE 1)
  /\ folio.openRisk = OpenRisk(protection) /\ folio.correlatedRisk = OpenRisk(protection)
  /\ folio.gross = PB!Magnitude(Held(account).qty) * mark

StartOf(t) == IF Before(t) = {} THEN ReplayBalance ELSE seen[Max(Before(t))]

\* Nothing has been observed yet, or everything up to the clock has.
SeenSoFar ==
  \/ /\ clock = 0 /\ folio.day = None /\ step \notin {"CLOSE", "DECIDE"}
     /\ folio.dayStart = ReplayBalance
     /\ \A u \in 0 .. MaxCandles : seen[u] = None
  \/ /\ folio.day = Day(clock) /\ folio.dayStart = StartOf(clock)
     /\ seen[clock] = folio.equity
     /\ \A u \in 0 .. MaxCandles : seen[u] # None <=> u <= clock

PeakIsHighest == \A u \in 0 .. MaxCandles : seen[u] # None => seen[u] <= folio.peak

ReplayInv ==
  /\ ReplayShape
  /\ step # "STOP_REFUSED" =>
       Covers(protection, account) /\ StageHolds /\ FolioMirrors /\ SeenSoFar /\ PeakIsHighest

-----------------------------------------------------------------------------
(* A tick on a book in which no order waits *)

\* One step of process_price's loop over the orders, on the positions up to the last.
LoopStep(b, price, acc, T) ==
  IF T = {} THEN b
  ELSE IF PB!IsCrossed(b.orders[[i \in 1 .. Len(b.orders) |-> i][PB!Max(T)]], S, price)
       THEN PB!FillLimit(acc[T \ {PB!Max(T)}], [i \in 1 .. Len(b.orders) |-> i][PB!Max(T)])
       ELSE acc[T \ {PB!Max(T)}]

LEMMA AfterLimitsIsLoop ==
  ASSUME NEW b, NEW price
  PROVE  LET D == DOMAIN [i \in 1 .. Len(b.orders) |-> i]
         IN  PB!AfterLimits(b, S, price) =
               (CHOOSE acc : acc = [T \in SUBSET D |-> LoopStep(b, price, acc, T)])[D]
BY Zenon DEF PB!AfterLimits, PB!FoldLeft, PB!MapThenFoldSet, LoopStep

\* The loop ends as it began.
LEMMA NothingWaits ==
  ASSUME NEW b, NEW price, Len(b.orders) \in Nat,
         \A i \in 1 .. Len(b.orders) : b.orders[i].status # "PENDING"
  PROVE  PB!AfterLimits(b, S, price) = b
<1> DEFINE n == Len(b.orders)
           D == DOMAIN [i \in 1 .. n |-> i]
           Recursion(acc) == acc = [T \in SUBSET D |-> LoopStep(b, price, acc, T)]
           loop == CHOOSE acc : Recursion(acc)
<1>1. D = 1 .. n /\ n \in Nat
  OBVIOUS
<1>2. ASSUME NEW T \in SUBSET D, T # {}, NEW acc
      PROVE  PB!Max(T) \in T /\ LoopStep(b, price, acc, T) = acc[T \ {PB!Max(T)}]
  <2>1. T \subseteq Nat /\ \A i \in T : i <= n
    BY <1>1
  <2>2. PB!Max(T) \in T
    BY <1>1, <1>2, <2>1, LargestMember DEF Max, PB!Max
  <2>3. ~PB!IsCrossed(b.orders[[i \in 1 .. n |-> i][PB!Max(T)]], S, price)
    BY <1>1, <2>2 DEF PB!IsCrossed
  <2> QED
    BY <1>2, <2>2, <2>3 DEF LoopStep
<1>3. Recursion([T \in SUBSET D |-> b])
  <2> DEFINE same == [T \in SUBSET D |-> b]
  <2>1. ASSUME NEW T \in SUBSET D PROVE LoopStep(b, price, same, T) = b
    <3>1. CASE T = {}
      BY <3>1 DEF LoopStep
    <3>2. CASE T # {}
      <4>1. LoopStep(b, price, same, T) = same[T \ {PB!Max(T)}]
        BY <1>2, <3>2
      <4>2. T \ {PB!Max(T)} \in SUBSET D
        OBVIOUS
      <4> QED
        BY <4>1, <4>2
    <3> QED
      BY <3>1, <3>2
  <2> QED
    BY <2>1
<1> HIDE DEF D
<1>4. Recursion(loop)
  BY <1>3, Zenon
<1> HIDE DEF loop
<1>5. \A T \in SUBSET D : loop[T] = LoopStep(b, price, loop, T)
  BY <1>4
<1>6. loop[D] = b
  <2>1. \A T \in SUBSET (1 .. n) : T # {} => \E i \in T : loop[T] = loop[T \ {i}]
    BY <1>1, <1>2, <1>5
  <2>2. loop[D] = loop[{}]
    BY <1>1, <2>1, DownToNothing
  <2>3. loop[{}] = b
    BY <1>5 DEF LoopStep
  <2> QED
    BY <2>2, <2>3
<1> QED
  BY <1>6, AfterLimitsIsLoop, ZenonT(30) DEF loop, D

-----------------------------------------------------------------------------
(* One order on a book without orders *)

OneOrder(status) == [sym : {S}, side : {"BUY", "SELL"}, kind : {"MARKET", "LIMIT"},
                     qty : Nat \ {0}, limit : Nat \cup {None}, status : {status}]
Executed == {<<o>> : o \in OneOrder("FILLED")}

Rewritten(b, orders, cash, fees, realized, pos, stops) ==
  [b EXCEPT !.orders = orders, !.cash = cash, !.fees = fees, !.realized = realized,
            !.pos = pos, !.stops = stops]

LEMMA AccountUpdate ==
  ASSUME NEW Old, NEW New, NEW b \in Account(Old),
         NEW orders \in New, NEW cash \in Int, NEW fees \in Int, NEW realized \in Int,
         NEW pos \in Positions, NEW stops \in [{S} -> Stops]
  PROVE  Rewritten(b, orders, cash, fees, realized, pos, stops) \in Account(New)
BY DEF Account, Rewritten

\* The parts of a book.
LEMMA AccountParts ==
  ASSUME NEW orders, NEW b \in Account(orders)
  PROVE  /\ b.orders \in orders /\ b.cash \in Int /\ b.fees \in Int /\ b.realized \in Int
         /\ b.pos \in Positions /\ b.stops \in [{S} -> Stops]
         /\ Held(b) \in [qty : Int, avg : Int] /\ b.stops[S] \in Stops
         /\ Settled(b) \in Account({<<>>}) /\ Held(Settled(b)) = Held(b)
         /\ Settled(b).cash = b.cash /\ Settled(b).stops = b.stops
<1>1. /\ b.orders \in orders /\ b.cash \in Int /\ b.fees \in Int /\ b.realized \in Int
      /\ b.pos \in Positions /\ b.stops \in [{S} -> Stops]
  BY DEF Account
<1>2. Held(b) \in [qty : Int, avg : Int] /\ b.stops[S] \in Stops
  BY <1>1 DEF Held, Positions
<1>3. /\ Settled(b) \in Account({<<>>}) /\ Settled(b).pos = b.pos
      /\ Settled(b).cash = b.cash /\ Settled(b).stops = b.stops
  BY DEF Account, Settled
<1> QED
  BY <1>1, <1>2, <1>3 DEF Held

\* Filling an order at a price, without fees.
LEMMA FillOne ==
  ASSUME NEW b \in Account({<<>>}), NEW o \in OneOrder("PENDING"), NEW price \in Int
  PROVE  LET c == PB!Fill(PB!Placed(b, o), 1, price, 0)
             signed == PB!Signed(o)
         IN  /\ c \in Account(Executed)
             /\ c.cash = b.cash - signed * price
             /\ Held(c) = PB!PositionAfter(Held(b), signed, price)
             /\ c.stops[S] = IF PB!StopSurvives(Held(b), signed) THEN b.stops[S] ELSE PB!NoStop
             /\ signed \in Int /\ signed # 0
<1> DEFINE placed == PB!Placed(b, o)
           signed == PB!Signed(o)
           p == placed.pos[S]
           filled == [o EXCEPT !.status = "FILLED"]
           after == PB!Fill(placed, 1, price, 0)
           fee == (price * o.qty * 0) \div 10000
           orders == [placed.orders EXCEPT ![1].status = "FILLED"]
           cash == placed.cash - signed * price - fee
           fees == placed.fees + fee
           realized == placed.realized + PB!Gain(p, signed, price)
           pos == [placed.pos EXCEPT ![S] = PB!PositionAfter(p, signed, price)]
           stops == [placed.stops EXCEPT ![S] = IF PB!StopSurvives(p, signed) THEN @ ELSE PB!NoStop]
<1>1. /\ b.orders = <<>> /\ b.cash \in Int /\ b.fees \in Int /\ b.realized \in Int
      /\ b.pos \in Positions /\ b.stops \in [{S} -> Stops] /\ Held(b) \in [qty : Int, avg : Int]
  <2> DEFINE NoOrders == {<<>>}
  <2>1. b \in Account(NoOrders)
    OBVIOUS
  <2> HIDE DEF NoOrders
  <2>2. /\ b.orders \in NoOrders /\ b.cash \in Int /\ b.fees \in Int /\ b.realized \in Int
        /\ b.pos \in Positions /\ b.stops \in [{S} -> Stops] /\ Held(b) \in [qty : Int, avg : Int]
    BY <2>1, AccountParts
  <2> QED
    BY <2>2 DEF NoOrders
<1>2. o.sym = S /\ o.qty \in Nat \ {0} /\ o.side \in {"BUY", "SELL"} /\ filled \in OneOrder("FILLED")
  BY DEF OneOrder
<1>3. signed \in Int /\ signed # 0
  BY <1>2 DEF PB!Signed
<1>4. /\ placed.orders = <<o>>
      /\ placed.cash = b.cash /\ placed.fees = b.fees /\ placed.realized = b.realized
      /\ placed.pos = b.pos /\ placed.stops = b.stops
      /\ placed \in Account({<<o>>})
  <2>1. Append(b.orders, o) = <<o>>
    BY <1>1
  <2> QED
    BY <2>1 DEF PB!Placed, Account
<1>5. p = Held(b) /\ p \in [qty : Int, avg : Int] /\ placed.orders[1] = o
  BY <1>1, <1>4 DEF Held
<1>6. fee = 0
  <2>1. price * o.qty * 0 = 0
    BY <1>2
  <2> QED
    BY <2>1
<1>7. after = Rewritten(placed, orders, cash, fees, realized, pos, stops)
  <2>1. placed.orders[1] = o /\ o.sym = S
    BY <1>2, <1>5
  <2> HIDE DEF placed, after
  <2> QED
    BY <2>1 DEF PB!Fill, Rewritten, after
<1>8. PB!PositionAfter(p, signed, price) \in [qty : Int, avg : Int]
  <2> DEFINE total == PB!Magnitude(p.qty) + PB!Magnitude(signed)
             worth == p.avg * PB!Magnitude(p.qty) + price * PB!Magnitude(signed)
  <2> HIDE DEF placed, after, p, signed
  <2>1. total \in Nat \ {0} /\ worth \in Int /\ p.qty + signed \in Int /\ p.avg \in Int
    BY <1>3, <1>5, SMTT(25) DEF PB!Magnitude
  <2>2. worth \div total \in Int
    BY <2>1, DivBounds
  <2> HIDE DEF total, worth
  <2> QED
    BY <2>1, <2>2 DEF PB!PositionAfter, total, worth
<1>9. realized \in Int
  <2> HIDE DEF placed, after, p, signed
  <2> DEFINE closing == IF PB!Magnitude(signed) < PB!Magnitude(p.qty)
                        THEN PB!Magnitude(signed) ELSE PB!Magnitude(p.qty)
             sized == IF p.qty > 0 THEN closing ELSE -closing
  <2>1. p.qty \in Int /\ p.avg \in Int /\ price - p.avg \in Int
    BY <1>5
  <2>2. closing \in Int /\ sized \in Int
    BY <1>3, <2>1 DEF PB!Magnitude
  <2>3. PB!Gain(p, signed, price) = IF PB!Adds(p, signed) THEN 0 ELSE (price - p.avg) * sized
    BY DEF PB!Gain
  <2> HIDE DEF closing, sized
  <2>4. (price - p.avg) * sized \in Int
    BY <2>1, <2>2
  <2>5. PB!Gain(p, signed, price) \in Int
    BY <2>3, <2>4
  <2> QED
    BY <1>1, <1>4, <2>5
<1>10. /\ pos \in Positions /\ pos[S] = PB!PositionAfter(p, signed, price)
       /\ stops \in [{S} -> Stops]
       /\ stops[S] = IF PB!StopSurvives(p, signed) THEN b.stops[S] ELSE PB!NoStop
  <2> HIDE DEF placed, after, p, signed
  <2>1. placed.pos \in Positions /\ placed.stops \in [{S} -> Stops] /\ placed.stops = b.stops
    BY <1>1, <1>4
  <2>2. PB!NoStop \in Stops
    BY DEF PB!NoStop, Stops
  <2> QED
    BY <1>8, <2>1, <2>2 DEF Positions
<1>11. cash \in Int /\ fees \in Int /\ cash = b.cash - signed * price
  <2> HIDE DEF placed, after, p, signed, fee
  <2> QED
    BY <1>1, <1>3, <1>4, <1>6
<1>12. orders \in Executed
  <2>1. placed.orders = Append(<<>>, o) /\ <<>> \in Seq({o}) /\ Len(<<>>) + 1 = 1
    BY <1>1, <1>4
  <2>2. orders = Append(<<>>, filled)
    BY <2>1, LastFilled
  <2> HIDE DEF orders, filled
  <2> QED
    BY <1>2, <2>2 DEF Executed
<1>13. /\ after \in Account(Executed) /\ after.cash = cash /\ after.pos = pos /\ after.stops = stops
  <2> DEFINE Old == {<<o>>}
  <2>1. placed \in Account(Old) /\ cash \in Int /\ fees \in Int /\ realized \in Int
    BY <1>4, <1>9, <1>11
  <2> HIDE DEF Old, placed, after, orders, cash, fees, realized, pos, stops
  <2> HIDE DEF p, signed, filled, fee
  <2>2. pos \in Positions /\ stops \in [{S} -> Stops]
    BY <1>10
  <2> DEFINE New == Executed
  <2>3. orders \in New
    BY <1>12
  <2> HIDE DEF New
  <2>4. Rewritten(placed, orders, cash, fees, realized, pos, stops) \in Account(New)
    BY <2>1, <2>2, <2>3, AccountUpdate
  <2>5. /\ Rewritten(placed, orders, cash, fees, realized, pos, stops).cash = cash
        /\ Rewritten(placed, orders, cash, fees, realized, pos, stops).pos = pos
        /\ Rewritten(placed, orders, cash, fees, realized, pos, stops).stops = stops
    BY <2>1, Zenon DEF Account, Rewritten
  <2> QED
    BY <1>7, <2>4, <2>5 DEF New
<1> HIDE DEF placed, after, orders, cash, fees, realized, pos, stops, p, signed
<1> QED
  BY <1>3, <1>5, <1>10, <1>11, <1>13 DEF Held, after, placed, signed

-----------------------------------------------------------------------------
(* Exits *)

\* A book from which the position has left at a price.
Closes(b, c, price) ==
  /\ c \in Account(Executed) /\ Held(c).qty = 0 /\ c.stops[S] = PB!NoStop
  /\ c.cash = b.cash + Held(b).qty * price

\* An order for the whole of the position, on its other side, closes it.
LEMMA ClosingFill ==
  ASSUME NEW b \in Account({<<>>}), NEW o \in OneOrder("PENDING"), NEW price \in Int,
         Held(b).qty # 0, o.qty = PB!Magnitude(Held(b).qty),
         o.side = IF Held(b).qty > 0 THEN "SELL" ELSE "BUY"
  PROVE  Closes(b, PB!Fill(PB!Placed(b, o), 1, price, 0), price)
<1> DEFINE c == PB!Fill(PB!Placed(b, o), 1, price, 0)
           signed == PB!Signed(o)
           p == Held(b)
<1>1. p \in [qty : Int, avg : Int] /\ b.cash \in Int
  <2> DEFINE NoOrders == {<<>>}
  <2>1. b \in Account(NoOrders)
    OBVIOUS
  <2> HIDE DEF NoOrders
  <2> QED
    BY <2>1, AccountParts
<1>2. signed = -p.qty
  BY <1>1 DEF PB!Signed, PB!Magnitude
<1>3. /\ c \in Account(Executed) /\ c.cash = b.cash - signed * price
      /\ Held(c) = PB!PositionAfter(p, signed, price)
      /\ c.stops[S] = IF PB!StopSurvives(p, signed) THEN b.stops[S] ELSE PB!NoStop
  BY FillOne
<1> HIDE DEF c, p, signed
<1>4. p.qty \in Int /\ p.qty + signed = 0
  BY <1>1, <1>2
<1>5. PB!PositionAfter(p, signed, price).qty = 0
  BY <1>4, Zenon DEF PB!PositionAfter
<1>6. ~PB!StopSurvives(p, signed)
  BY <1>4 DEF PB!StopSurvives
<1>7. b.cash - signed * price = b.cash + p.qty * price
  BY <1>1, <1>2, <1>4
<1> QED
  BY <1>3, <1>5, <1>6, <1>7 DEF Closes, c, p

\* A tick that does not reach the stop changes nothing.
LEMMA StopSleeps ==
  ASSUME NEW orders, NEW b \in Account(orders), NEW price,
         orders = {<<>>} \/ orders = Executed,
         b.stops[S] = PB!NoStop \/ ~PB!Hit(Held(b).qty, b.stops[S].price, price)
  PROVE  Ticked(b, price) = b
<1>1. Len(b.orders) \in Nat /\ \A i \in 1 .. Len(b.orders) : b.orders[i].status # "PENDING"
  <2>1. b.orders \in orders
    BY AccountParts
  <2>2. CASE b.orders = <<>>
    BY <2>2
  <2>3. CASE b.orders \in Executed
    <3>1. PICK o \in OneOrder("FILLED") : b.orders = <<o>>
      BY <2>3 DEF Executed
    <3>2. o.status = "FILLED"
      BY DEF OneOrder
    <3> QED
      BY <3>1, <3>2
  <2> QED
    BY <2>1, <2>2, <2>3
<1>2. PB!AfterLimits(b, S, price) = b
  BY <1>1, NothingWaits
<1>3. PB!AfterStop(b, S, price) = b
  BY Zenon DEF PB!AfterStop, Held
<1> QED
  BY <1>2, <1>3 DEF Ticked, PB!AfterTick

\* Its stop sells or buys back the whole of the position.
LEMMA StopFires ==
  ASSUME NEW b \in Account({<<>>}), NEW price \in Nat, Held(b).qty # 0,
         b.stops[S] # PB!NoStop, b.stops[S].qty >= PB!Magnitude(Held(b).qty),
         PB!Hit(Held(b).qty, b.stops[S].price, price)
  PROVE  /\ \E level \in Int : /\ Closes(b, Ticked(b, price), level)
                               /\ Held(b).qty * level <= Held(b).qty * price
         /\ StopOrderFilled(b, price)
<1> DEFINE p == Held(b)
           stop == b.stops[S]
           size == PB!Magnitude(p.qty)
           o == [sym |-> S, side |-> IF p.qty > 0 THEN "SELL" ELSE "BUY", kind |-> "MARKET",
                 qty |-> size, limit |-> None, status |-> "PENDING"]
           free == [b EXCEPT !.stops[S] = PB!NoStop]
           level == PB!MarketPrice(o.side, price)
           slip == (price * ReplaySlippage) \div 10000
<1>1. /\ b.orders = <<>> /\ p \in [qty : Int, avg : Int] /\ stop \in Stops /\ b.cash \in Int
      /\ b.stops \in [{S} -> Stops]
  <2> DEFINE NoOrders == {<<>>}
  <2>1. b \in Account(NoOrders)
    OBVIOUS
  <2> HIDE DEF NoOrders
  <2>2. b.orders \in NoOrders
    BY <2>1, AccountParts
  <2> QED
    BY <2>1, <2>2, AccountParts DEF NoOrders
<1>2. stop.qty \in Nat /\ size \in Nat \ {0}
  <2>1. stop.qty \in Nat
    BY <1>1 DEF Stops, PB!NoStop
  <2>2. size \in Nat \ {0}
    BY <1>1 DEF PB!Magnitude
  <2> QED
    BY <2>1, <2>2
<1>3. o \in OneOrder("PENDING")
  BY <1>2 DEF OneOrder
<1>4. /\ free \in Account({<<>>}) /\ Held(free) = p /\ free.cash = b.cash /\ free.orders = <<>>
  <2>1. PB!NoStop \in Stops
    BY DEF PB!NoStop, Stops
  <2> QED
    BY <1>1, <2>1 DEF Account, Held
<1>5. slip \in Nat /\ level = (IF p.qty > 0 THEN price - slip ELSE price + slip)
  <2>1. price * ReplaySlippage \in Nat
    BY ReplayAssumption
  <2>2. slip \in Nat
    <3> DEFINE n == price * ReplaySlippage
    <3>1. n \in Nat
      BY <2>1
    <3> HIDE DEF n
    <3>2. n \div 10000 \in Nat
      BY <3>1
    <3> QED
      BY <3>2 DEF n
  <2>3. level = (IF p.qty > 0 THEN price - slip ELSE price + slip)
    BY DEF PB!MarketPrice
  <2> QED
    BY <2>2, <2>3
<1>6. level \in Int /\ p.qty * level <= p.qty * price
  <2> HIDE DEF level, slip, p
  <2> QED
    BY <1>1, <1>5
<1>7. PB!AfterLimits(b, S, price) = b
  <2>1. Len(b.orders) \in Nat /\ \A i \in 1 .. Len(b.orders) : b.orders[i].status # "PENDING"
    BY <1>1
  <2> QED
    BY <2>1, NothingWaits
<1> DEFINE placed == PB!Placed(free, o)
<1>8. Len(placed.orders) = 1 /\ placed.orders[1] = o
  <2>1. placed.orders = Append(free.orders, o)
    BY <1>4 DEF PB!Placed, Account
  <2> HIDE DEF placed, o, free
  <2> QED
    BY <1>4, <2>1
<1>9. PB!AfterStop(b, S, price) = PB!FillMarket(placed, 1, price)
  <2>1. ~(stop.qty = None \/ stop.qty > size) \/ stop.qty >= size
    OBVIOUS
  <2>2. (IF stop.qty = None \/ stop.qty > size THEN size ELSE stop.qty) = size
    BY <1>2
  <2> DEFINE exit == [sym |-> S, side |-> IF p.qty > 0 THEN "SELL" ELSE "BUY", kind |-> "MARKET",
                      qty |-> IF stop.qty = None \/ stop.qty > size THEN size ELSE stop.qty,
                      limit |-> None, status |-> "PENDING"]
  <2>3. exit = o
    BY <2>2
  <2>4. PB!AfterStop(b, S, price) =
          LET exiting == PB!Placed(free, exit) IN PB!FillMarket(exiting, Len(exiting.orders), price)
    BY Zenon DEF PB!AfterStop, Held
  <2> QED
    BY <1>8, <2>3, <2>4
<1>10. PB!FillMarket(placed, 1, price) = PB!Fill(placed, 1, level, 0)
  BY <1>8 DEF PB!FillMarket
<1>11. Closes(free, PB!Fill(placed, 1, level, 0), level)
  <2> HIDE DEF level, free
  <2> QED
    BY <1>3, <1>4, <1>6, ClosingFill
<1>12. Ticked(b, price) = PB!Fill(placed, 1, level, 0)
  BY <1>7, <1>9, <1>10 DEF Ticked, PB!AfterTick
<1>13. Closes(b, Ticked(b, price), level)
  BY <1>4, <1>11, <1>12 DEF Closes
<1>14. StopOrderFilled(b, price)
  <2>1. Ticked(b, price).orders \in Executed
    <3>1. Ticked(b, price) \in Account(Executed)
      BY <1>13 DEF Closes
    <3> QED
      BY <3>1, AccountParts
  <2>2. Len(Ticked(b, price).orders) = 1
    BY <2>1 DEF Executed
  <2> QED
    BY <1>1, <2>2 DEF StopOrderFilled
<1> QED
  BY <1>6, <1>13, <1>14

\* The limit order at the target closes the position there.
LEMMA TargetFires ==
  ASSUME NEW b \in Account({<<>>}), NEW price \in Nat, Held(b).qty # 0
  PROVE  Closes(b, TargetExit(b, price), price)
<1> DEFINE q == Held(b).qty
           o == [sym |-> S, side |-> IF q > 0 THEN "SELL" ELSE "BUY", kind |-> "LIMIT",
                 qty |-> PB!Magnitude(q), limit |-> price, status |-> "PENDING"]
           free == [b EXCEPT !.stops[S] = PB!NoStop]
           placed == PB!Placed(free, o)
<1>1. b.orders = <<>> /\ q \in Int
  <2> DEFINE NoOrders == {<<>>}
  <2>1. b \in Account(NoOrders)
    OBVIOUS
  <2> HIDE DEF NoOrders
  <2>2. b.orders \in NoOrders /\ Held(b) \in [qty : Int, avg : Int]
    BY <2>1, AccountParts
  <2> QED
    BY <2>2 DEF NoOrders
<1>2. /\ free \in Account({<<>>}) /\ Held(free) = Held(b) /\ free.cash = b.cash
      /\ free.orders = <<>> /\ free.stops[S] = PB!NoStop
  <2>1. PB!NoStop \in Stops
    BY DEF PB!NoStop, Stops
  <2>2. b.stops \in [{S} -> Stops]
    BY DEF Account
  <2> QED
    BY <1>1, <2>1, <2>2 DEF Account, Held
<1>3. PB!Magnitude(q) \in Nat \ {0}
  BY <1>1 DEF PB!Magnitude
<1>4. o \in OneOrder("PENDING")
  BY <1>3 DEF OneOrder
<1>5. PB!AfterTick(free, S, price) = free
  <2> HIDE DEF free
  <2>1. Ticked(free, price) = free
    BY <1>2, StopSleeps
  <2> QED
    BY <2>1 DEF Ticked
<1>6. Len(placed.orders) = 1 /\ placed.orders[1] = o /\ Len(free.orders) + 1 = 1
  <2>1. placed.orders = Append(free.orders, o)
    BY <1>2 DEF PB!Placed, Account
  <2> HIDE DEF placed, o, free
  <2> QED
    BY <1>2, <2>1
<1>7. TargetExit(b, price) = PB!FillLimit(placed, 1)
  BY <1>5, <1>6 DEF TargetExit
<1>8. PB!FillLimit(placed, 1) = PB!Fill(placed, 1, price, 0)
  BY <1>6 DEF PB!FillLimit
<1>9. Closes(free, PB!Fill(placed, 1, price, 0), price)
  <2>1. Held(free).qty # 0 /\ o.qty = PB!Magnitude(Held(free).qty)
        /\ o.side = IF Held(free).qty > 0 THEN "SELL" ELSE "BUY"
    BY <1>2
  <2> HIDE DEF free, o
  <2> QED
    BY <1>2, <1>4, <2>1, ClosingFill
<1> QED
  BY <1>2, <1>7, <1>8, <1>9 DEF Closes

-----------------------------------------------------------------------------
(* Protections *)

\* The protection of a covered book needs no synchronization.
LEMMA CoveredIsSynced ==
  ASSUME NEW b, NEW p \in Protection, Covers(p, b), Held(b).qty \in Int
  PROVE  Synced(p, b) = p
<1>1. CASE Held(b).qty = 0
  <2>1. p = Unprotected /\ p.side = "FLAT"
    BY <1>1 DEF Covers, Unprotected
  <2> QED
    BY <2>1 DEF Synced
<1>2. CASE Held(b).qty # 0
  <2>1. p.side = SideOf(Held(b).qty) /\ p.side # "FLAT"
    BY <1>2 DEF Covers, SideOf
  <2>2. p.qty = PB!Magnitude(Held(b).qty) /\ p.avg = Held(b).avg
    BY <1>2 DEF Covers
  <2>3. [p EXCEPT !.qty = PB!Magnitude(Held(b).qty), !.avg = Held(b).avg] = p
    BY <2>2 DEF Protection
  <2> QED
    BY <2>1, <2>3 DEF Synced
<1> QED
  BY <1>1, <1>2

\* A position that has left takes its protection with it.
LEMMA GoneIsUncovered ==
  ASSUME NEW c, NEW p, Held(c).qty = 0, c.stops[S] = PB!NoStop
  PROVE  Synced(p, c) = Unprotected /\ Covers(Unprotected, c)
<1>1. SideOf(Held(c).qty) = "FLAT"
  BY DEF SideOf
<1>2. Synced(p, c) = Unprotected
  BY <1>1 DEF Synced
<1> QED
  BY <1>1, <1>2 DEF Covers, Unprotected

\* The side of a position is that of its quantity.
LEMMA Sides ==
  ASSUME NEW b, NEW p, Covers(p, b), Held(b).qty \in Int
  PROVE  /\ p.side = "FLAT" <=> Held(b).qty = 0
         /\ p.side = "LONG" <=> Held(b).qty > 0
         /\ p.side = "SHORT" <=> Held(b).qty < 0
BY DEF Covers, SideOf

\* The nearest target is one of the targets.
LEMMA NearestTarget ==
  ASSUME NEW p \in Protection, TargetsBeyond(p), p.side # "FLAT"
  PROVE  /\ FirstTarget(p) \in Nat /\ p.targets # {}
         /\ p.side = "LONG" => p.stop < FirstTarget(p)
         /\ p.side = "SHORT" => FirstTarget(p) < p.stop
<1>1. p.targets \subseteq Nat /\ p.targets # {} /\ p.stop \in Nat /\ p.side \in {"LONG", "SHORT"}
  BY DEF Protection, TargetsBeyond
<1>2. FirstTarget(p) \in p.targets
  <2>1. CASE p.side = "LONG"
    <3>1. PICK n \in p.targets : \A m \in p.targets : n <= m
      BY <1>1, SmallestMember
    <3>2. Min(p.targets) \in p.targets
      BY <3>1 DEF Min
    <3> QED
      BY <2>1, <3>2 DEF FirstTarget
  <2>2. CASE p.side = "SHORT"
    <3>1. \A t \in p.targets : t <= p.stop
      BY <1>1, <2>2 DEF TargetsBeyond
    <3>2. Max(p.targets) \in p.targets
      BY <1>1, <3>1, LargestMember
    <3> QED
      BY <2>2, <3>2 DEF FirstTarget
  <2> QED
    BY <1>1, <2>1, <2>2
<1> QED
  BY <1>1, <1>2 DEF TargetsBeyond

\* A price reaches the stop of a protection as it hits the broker's.
LEMMA ReachIsHit ==
  ASSUME NEW b, NEW p \in Protection, Covers(p, b), Held(b).qty \in Int, Held(b).qty # 0,
         NEW price \in Int
  PROVE  /\ Reaches(p.side, -1, price, p.stop) <=> PB!Hit(Held(b).qty, p.stop, price)
         /\ b.stops[S].price = p.stop /\ b.stops[S] # PB!NoStop
         /\ b.stops[S].qty >= PB!Magnitude(Held(b).qty)
<1>1. p.stop \in Nat /\ b.stops[S].price = p.stop /\ b.stops[S].qty >= PB!Magnitude(Held(b).qty)
  BY DEF Covers, Protection
<1>2. b.stops[S] # PB!NoStop
  BY <1>1, NoLimitAssumption DEF PB!NoStop
<1>3. (p.side = "LONG" /\ Held(b).qty > 0) \/ (p.side = "SHORT" /\ Held(b).qty < 0)
  BY Sides
<1>4. Reaches(p.side, -1, price, p.stop) <=> PB!Hit(Held(b).qty, p.stop, price)
  <2>1. CASE p.side = "LONG" /\ Held(b).qty > 0
    BY <1>1, <2>1 DEF Reaches, PB!Hit
  <2>2. CASE p.side = "SHORT" /\ Held(b).qty < 0
    BY <1>1, <2>2 DEF Reaches, PB!Hit
  <2> QED
    BY <1>3, <2>1, <2>2
<1> QED
  BY <1>1, <1>2, <1>4

\* What an exit may bring: the bound of ExitIsAdverse.
ExitLevel(p) ==
  LET stopped == /\ Reaches(p.side, -1, Worst(p.side), p.stop)
                 /\ ~Reaches(p.side, 1, bar.open, FirstTarget(p))
      worst == IF p.side = "LONG" THEN Lesser(p.stop, bar.open)
               ELSE IF p.stop > bar.open THEN p.stop ELSE bar.open
  IN  IF stopped THEN worst ELSE FirstTarget(p)

\* At which price each resolution leaves, and how it compares with the bound.
LEMMA Resolved ==
  ASSUME NEW p \in Protection, TargetsBeyond(p), p.side # "FLAT", bar \in Bars
  PROVE  LET r == Resolution(p)
         IN  /\ r.reason \in {"STOP_GAP", "TARGET_GAP", "STOP_INTRABAR", "TARGET_INTRABAR", "NONE"}
             /\ r.reason = "STOP_GAP" =>
                  r.price = bar.open /\ Reaches(p.side, -1, bar.open, p.stop) /\ ExitLevel(p) = bar.open
             /\ r.reason = "TARGET_GAP" => r.price = FirstTarget(p) /\ ExitLevel(p) = r.price
             /\ r.reason = "STOP_INTRABAR" => r.price = p.stop /\ ExitLevel(p) = p.stop
             /\ r.reason = "TARGET_INTRABAR" => r.price = FirstTarget(p) /\ ExitLevel(p) = r.price
             /\ r.reason # "STOP_GAP" => ~Reaches(p.side, -1, bar.open, p.stop)
             /\ r.reason = "NONE" => ~Reaches(p.side, -1, bar.close, p.stop)
<1> DEFINE t == FirstTarget(p)
<1>1. /\ bar.open \in Nat /\ bar.low \in Nat /\ bar.high \in Nat /\ bar.close \in Nat
      /\ bar.low <= bar.open /\ bar.open <= bar.high /\ bar.low <= bar.close /\ bar.close <= bar.high
  BY ReplayAssumption
<1>2. /\ t \in Nat /\ p.targets # {} /\ p.stop \in Nat /\ p.side \in {"LONG", "SHORT"}
      /\ p.side = "LONG" => p.stop < t
      /\ p.side = "SHORT" => t < p.stop
  BY NearestTarget DEF Protection
<1> HIDE DEF t
<1>3. CASE p.side = "LONG"
  <2>1. /\ Reaches(p.side, -1, bar.open, p.stop) <=> bar.open <= p.stop
        /\ Reaches(p.side, -1, bar.close, p.stop) <=> bar.close <= p.stop
        /\ Reaches(p.side, 1, bar.open, t) <=> bar.open >= t
        /\ Reaches(p.side, -1, Worst(p.side), p.stop) <=> bar.low <= p.stop
        /\ Reaches(p.side, 1, Best(p.side), t) <=> bar.high >= t
    BY <1>1, <1>2, <1>3 DEF Reaches, Worst, Best
  <2>2. ExitLevel(p) = IF bar.low <= p.stop /\ ~(bar.open >= t) THEN Lesser(p.stop, bar.open) ELSE t
    BY <1>3, <2>1 DEF ExitLevel, t
  <2>3. Resolution(p) = IF bar.open <= p.stop THEN [reason |-> "STOP_GAP", price |-> bar.open]
                        ELSE IF bar.open >= t THEN [reason |-> "TARGET_GAP", price |-> t]
                        ELSE IF bar.low <= p.stop THEN [reason |-> "STOP_INTRABAR", price |-> p.stop]
                        ELSE IF bar.high >= t THEN [reason |-> "TARGET_INTRABAR", price |-> t]
                        ELSE NoExit
    BY <1>2, <1>3, <2>1 DEF Resolution, t
  <2> QED
    BY <1>1, <1>2, <1>3, <2>1, <2>2, <2>3 DEF NoExit, Lesser, t
<1>4. CASE p.side = "SHORT"
  <2>1. /\ Reaches(p.side, -1, bar.open, p.stop) <=> bar.open >= p.stop
        /\ Reaches(p.side, -1, bar.close, p.stop) <=> bar.close >= p.stop
        /\ Reaches(p.side, 1, bar.open, t) <=> bar.open <= t
        /\ Reaches(p.side, -1, Worst(p.side), p.stop) <=> bar.high >= p.stop
        /\ Reaches(p.side, 1, Best(p.side), t) <=> bar.low <= t
    BY <1>1, <1>2, <1>4 DEF Reaches, Worst, Best
  <2>2. ExitLevel(p) = IF bar.high >= p.stop /\ ~(bar.open <= t)
                       THEN IF p.stop > bar.open THEN p.stop ELSE bar.open ELSE t
    BY <1>4, <2>1 DEF ExitLevel, t
  <2>3. Resolution(p) = IF bar.open >= p.stop THEN [reason |-> "STOP_GAP", price |-> bar.open]
                        ELSE IF bar.open <= t THEN [reason |-> "TARGET_GAP", price |-> t]
                        ELSE IF bar.high >= p.stop THEN [reason |-> "STOP_INTRABAR", price |-> p.stop]
                        ELSE IF bar.low <= t THEN [reason |-> "TARGET_INTRABAR", price |-> t]
                        ELSE NoExit
    BY <1>2, <1>4, <2>1 DEF Resolution, t
  <2> QED
    BY <1>1, <1>2, <1>4, <2>1, <2>2, <2>3 DEF NoExit, t
<1> QED
  BY <1>2, <1>3, <1>4

-----------------------------------------------------------------------------
(* What is observed after an event *)

LEMMA Days ==
  ASSUME NEW s \in Nat, NEW t \in Nat
  PROVE  Day(t) \in Nat /\ (s <= t => Day(s) <= Day(t))
<1> DEFINE C == CandlesPerDay
           a == s \div C
           b == t \div C
<1>1. C \in Nat \ {0}
  BY ReplayAssumption
<1> HIDE DEF C
<1>2. a \in Int /\ a * C <= s /\ b \in Int /\ t < (b + 1) * C
  BY <1>1, DivBounds
<1> HIDE DEF a, b
<1>3. b \in Nat
  <2>1. SUFFICES ASSUME b + 1 <= 0 PROVE FALSE
    BY <1>2
  <2>2. (b + 1) * C <= 0 * C
    BY <1>1, <1>2, <2>1
  <2> QED
    BY <1>1, <1>2, <2>2
<1>4. ASSUME s <= t PROVE a <= b
  <2>1. SUFFICES ASSUME b + 1 <= a PROVE FALSE
    BY <1>2
  <2>2. (b + 1) * C <= a * C
    BY <1>1, <1>2, <2>1
  <2> QED
    BY <1>1, <1>2, <1>4, <2>2
<1> QED
  BY <1>3, <1>4 DEF Day, a, b, C

\* The day's starting equity, at the clock or at the candle's close, is the last
\* observed on a day before.
LEMMA StartFollows ==
  ASSUME SeenSoFar, ReplayShape, NEW t \in 0 .. MaxCandles, NEW worth \in Int,
         t = clock \/ (t = clock + 1 /\ step = "CLOSE"),
         clock' = t, seen' = [seen EXCEPT ![t] = worth]
  PROVE  Anchor(folio, worth, t) = StartOf(t)'
<1>1. /\ clock \in Nat /\ t \in Nat /\ folio.day \in Int \cup {None} /\ MaxCandles \in Nat
      /\ clock \in 0 .. MaxCandles /\ seen \in [0 .. MaxCandles -> Int \cup {None}]
      /\ None \notin Int
  BY ReplayAssumption, NoLimitAssumption DEF ReplayShape, Folio
<1>2. Before(t)' = {u \in 0 .. t : Day(u) < Day(t) /\ seen'[u] # None}
  BY DEF Before, Day
<1>3. \A u \in 0 .. t : u <= t /\ Day(u) \in Nat /\ Day(t) \in Nat /\ u \in 0 .. MaxCandles
  BY <1>1, Days
<1>4. CASE folio.day = None
  <2>1. clock = 0 /\ t = 0 /\ folio.dayStart = ReplayBalance
    <3>1. Day(clock) \in Nat
      BY <1>1, Days
    <3> QED
      BY <1>1, <1>4, <3>1 DEF SeenSoFar
  <2>2. Before(t)' = {}
    BY <1>2, <1>3, <2>1
  <2>3. Anchor(folio, worth, t) = ReplayBalance
    BY <1>4, <2>1 DEF Anchor
  <2> QED
    BY <2>2, <2>3 DEF StartOf
<1>5. CASE folio.day # None
  <2>1. /\ folio.day = Day(clock) /\ folio.dayStart = StartOf(clock) /\ seen[clock] = folio.equity
        /\ \A u \in 0 .. MaxCandles : seen[u] # None <=> u <= clock
    BY <1>5 DEF SeenSoFar
  <2>2. CASE Day(clock) = Day(t)
    <3>1. Anchor(folio, worth, t) = StartOf(clock)
      BY <2>1, <2>2 DEF Anchor
    <3>2. \A u \in Before(t)' : u \in 0 .. clock /\ u # t
      BY <1>1, <1>2, <1>3, <2>2
    <3>3. \A u \in 0 .. clock : u # t => u \in 0 .. t /\ seen'[u] = seen[u]
      BY <1>1
    <3>4. Before(clock) = {u \in 0 .. clock : Day(u) < Day(clock) /\ seen[u] # None}
      BY DEF Before
    <3>5. \A u \in Before(clock) : u \in 0 .. clock /\ u # t
      BY <1>3, <2>2, <3>4
    <3>6. Before(t)' = Before(clock)
      <4>1. ASSUME NEW u \in Before(t)' PROVE u \in Before(clock)
        BY <1>2, <2>2, <3>2, <3>3, <3>4
      <4>2. ASSUME NEW u \in Before(clock) PROVE u \in Before(t)'
        BY <1>2, <2>2, <3>3, <3>4, <3>5
      <4> QED
        BY <4>1, <4>2
    <3>7. CASE Before(clock) = {}
      BY <3>1, <3>6, <3>7 DEF StartOf
    <3>8. CASE Before(clock) # {}
      <4>1. Max(Before(clock)) \in Before(clock)
        <5>1. Before(clock) \subseteq Nat /\ \A u \in Before(clock) : u <= clock
          BY <1>1, <3>4
        <5> QED
          BY <1>1, <3>8, <5>1, LargestMember
      <4>2. seen'[Max(Before(clock))] = seen[Max(Before(clock))]
        BY <3>3, <3>5, <4>1
      <4>3. StartOf(t)' = seen'[Max(Before(t)')]
        BY <3>6, <3>8 DEF StartOf
      <4>4. StartOf(clock) = seen[Max(Before(clock))]
        BY <3>8 DEF StartOf
      <4> QED
        BY <3>1, <3>6, <4>2, <4>3, <4>4
    <3> QED
      BY <3>7, <3>8
  <2>3. CASE Day(clock) # Day(t)
    <3>1. t = clock + 1 /\ Day(clock) < Day(t)
      <4>1. t = clock + 1
        BY <2>3
      <4>2. Day(clock) \in Nat /\ Day(t) \in Nat /\ Day(clock) <= Day(t)
        BY <1>1, <4>1, Days
      <4> QED
        BY <2>3, <4>1, <4>2
    <3>2. Anchor(folio, worth, t) = seen[clock]
      BY <1>5, <2>1, <2>3 DEF Anchor
    <3>3. seen'[clock] = seen[clock] /\ seen[clock] # None
      BY <1>1, <2>1, <3>1
    <3>4. clock \in Before(t)'
      BY <1>1, <1>2, <3>1, <3>3
    <3>5. \A u \in Before(t)' : u \in Nat /\ u <= clock
      BY <1>1, <1>2, <1>3, <3>1
    <3>6. Max(Before(t)') = clock
      <4> DEFINE T == Before(t)'
      <4>1. T \subseteq Nat /\ T # {} /\ clock \in T /\ \A u \in T : u <= clock
        BY <3>4, <3>5
      <4> HIDE DEF T
      <4>2. Max(T) \in T /\ \A u \in T : u <= Max(T)
        BY <1>1, <4>1, LargestMember
      <4>3. Max(T) \in Nat /\ Max(T) <= clock /\ clock <= Max(T)
        BY <4>1, <4>2
      <4>4. Max(T) = clock
        BY <1>1, <4>3
      <4> QED
        BY <4>4 DEF T
    <3>7. StartOf(t)' = seen'[Max(Before(t)')]
      BY <3>4 DEF StartOf
    <3> QED
      BY <3>2, <3>3, <3>6, <3>7
  <2> QED
    BY <2>2, <2>3
<1> QED
  BY <1>4, <1>5

\* After an event the portfolio state, the history of equity and its peak are those
\* of the new book.
LEMMA ObservedOn ==
  ASSUME ReplayShape, SeenSoFar, PeakIsHighest,
         NEW t \in 0 .. MaxCandles, t = clock \/ (t = clock + 1 /\ step = "CLOSE"), clock' = t,
         NEW orders, NEW b \in Account(orders), NEW m \in Nat, NEW p \in Protection,
         Becomes(b, m, p, t)
  PROVE  /\ account' \in Account({<<>>}) /\ Held(account') = Held(b)
         /\ folio' \in Folio /\ seen' \in [0 .. MaxCandles -> Int \cup {None}]
         /\ FolioMirrors' /\ SeenSoFar' /\ PeakIsHighest'
<1> DEFINE worth == Equity(b, m)
           q == Held(b).qty
           start == Anchor(folio, worth, t)
           peak == IF worth > folio.peak THEN worth ELSE folio.peak
<1>1. /\ account' = Settled(b) /\ mark' = m /\ protection' = p
      /\ folio' = Refreshed(folio, b, m, p, t) /\ seen' = [seen EXCEPT ![t] = worth]
  BY DEF Becomes
<1>2. /\ b.cash \in Int /\ q \in Int /\ Settled(b) \in Account({<<>>}) /\ Held(Settled(b)) = Held(b)
      /\ Settled(b).cash = b.cash
  BY AccountParts
<1>3. /\ clock \in Nat /\ t \in Nat /\ MaxCandles \in Nat
      /\ seen \in [0 .. MaxCandles -> Int \cup {None}] /\ None \notin Int
      /\ folio \in Folio /\ folio.equity \in Int /\ folio.dayStart \in Int /\ folio.peak \in Int
  BY ReplayAssumption, NoLimitAssumption DEF ReplayShape, Folio
<1>4. worth \in Int /\ Equity(Settled(b), m) = worth
  BY <1>2 DEF Equity
<1>5. start \in Int /\ peak \in Int
  <2> HIDE DEF worth
  <2> QED
    BY <1>3, <1>4 DEF Anchor
<1>6. start = StartOf(t)'
  <2> HIDE DEF worth
  <2> QED
    BY <1>1, <1>4, StartFollows
<1>7. OpenRisk(p) \in Int /\ PB!Magnitude(q) * m \in Int
  <2>1. p.avg \in Int /\ p.stop \in Int /\ p.qty \in Int
    BY DEF Protection
  <2>2. PB!Magnitude(p.avg - p.stop) \in Int /\ PB!Magnitude(q) \in Int
    BY <1>2, <2>1 DEF PB!Magnitude
  <2> QED
    BY <2>1, <2>2 DEF OpenRisk
<1>8. Day(t) \in Nat
  BY <1>3, Days
<1>9. folio' = [equity |-> worth, dayStart |-> start, dailyPnl |-> worth - start, peak |-> peak,
                open |-> IF q = 0 THEN 0 ELSE 1, openRisk |-> OpenRisk(p), correlatedRisk |-> OpenRisk(p),
                gross |-> PB!Magnitude(q) * m, day |-> Day(t)]
  BY <1>1 DEF Refreshed
<1> HIDE DEF start, peak, worth
<1>10. folio' \in Folio
  BY <1>4, <1>5, <1>7, <1>8, <1>9 DEF Folio
<1>11. FolioMirrors'
  BY <1>1, <1>2, <1>4, <1>9 DEF FolioMirrors, OpenRisk, PB!Magnitude
<1>12. seen' \in [0 .. MaxCandles -> Int \cup {None}] /\ seen'[t] = worth
  BY <1>1, <1>3, <1>4
<1>13. \A u \in 0 .. MaxCandles : seen'[u] # None <=> u <= t
  <2>1. \A u \in 0 .. MaxCandles : seen'[u] = IF u = t THEN worth ELSE seen[u]
    BY <1>1, <1>3
  <2>2. \A u \in 0 .. MaxCandles : u # t => (seen[u] # None <=> u <= clock /\ folio.day # None)
    <3>1. Day(clock) # None
      BY <1>3, Days
    <3> QED
      BY <1>3, <3>1 DEF SeenSoFar
  <2>3. (t # clock => folio.day # None) /\ (folio.day = None => clock = 0)
    <3>1. Day(clock) # None
      BY <1>3, Days
    <3> QED
      BY <1>3, <3>1 DEF SeenSoFar
  <2>4. ASSUME NEW u \in 0 .. MaxCandles PROVE seen'[u] # None <=> u <= t
    <3>1. CASE u = t
      BY <1>3, <1>4, <2>1, <3>1
    <3>2. CASE u # t /\ folio.day = None
      <4>1. clock = 0 /\ t = 0
        BY <2>3, <3>2
      <4> QED
        BY <2>1, <2>2, <3>2, <4>1
    <3>3. CASE u # t /\ folio.day # None
      BY <1>3, <2>1, <2>2, <3>3
    <3> QED
      BY <3>1, <3>2, <3>3
  <2> QED
    BY <2>4
<1>14. SeenSoFar'
  <2>1. folio'.day = Day(t)' /\ folio'.dayStart = StartOf(t)' /\ folio'.equity = worth
    BY <1>6, <1>9 DEF Day
  <2>2. Day(clock)' = Day(t)' /\ StartOf(clock)' = StartOf(t)'
    BY DEF Day, StartOf, Before
  <2> QED
    BY <1>12, <1>13, <2>1, <2>2 DEF SeenSoFar
<1>15. PeakIsHighest'
  <2>1. folio'.peak = peak /\ peak >= folio.peak /\ peak >= worth
    BY <1>3, <1>4, <1>9 DEF peak
  <2>2. ASSUME NEW u \in 0 .. MaxCandles, seen'[u] # None PROVE seen'[u] <= peak
    <3>1. CASE u = t
      BY <1>12, <2>1, <3>1
    <3>2. CASE u # t
      <4>1. seen'[u] = seen[u] /\ seen[u] \in Int
        BY <1>1, <1>3, <2>2, <3>2
      <4>2. seen[u] <= folio.peak
        BY <2>2, <4>1 DEF PeakIsHighest
      <4> QED
        BY <1>3, <1>5, <2>1, <4>1, <4>2
    <3> QED
      BY <3>1, <3>2
  <2> QED
    BY <2>1, <2>2 DEF PeakIsHighest
<1> QED
  BY <1>1, <1>2, <1>10, <1>11, <1>12, <1>14, <1>15

-----------------------------------------------------------------------------
(* The open and the close of a candle *)

\* A book that a position has left, at a price that is no better than its bound.
LeftWell(p, b, c) ==
  /\ c \in Account(Executed) /\ Held(c).qty = 0 /\ c.stops[S] = PB!NoStop
  /\ c.cash - b.cash <= Held(b).qty * ExitLevel(p)

LEMMA ClosedWell ==
  ASSUME NEW b \in Account({<<>>}), NEW c, NEW p, NEW level \in Int, ExitLevel(p) \in Int,
         Closes(b, c, level), Held(b).qty * level <= Held(b).qty * ExitLevel(p)
  PROVE  LeftWell(p, b, c)
<1>1. b.cash \in Int /\ Held(b).qty \in Int
  <2> DEFINE NoOrders == {<<>>}
  <2>1. b \in Account(NoOrders)
    OBVIOUS
  <2> HIDE DEF NoOrders
  <2>2. b.cash \in Int /\ Held(b) \in [qty : Int, avg : Int]
    BY <2>1, AccountParts
  <2> QED
    BY <2>2
<1>2. Held(b).qty * level \in Int /\ Held(b).qty * ExitLevel(p) \in Int
  BY <1>1
<1> QED
  BY <1>1, <1>2 DEF LeftWell, Closes

\* The replay between two events: its book, its protection and the candle.
LEMMA UnderWay ==
  ASSUME ReplayInv, step \in {"OPEN", "CLOSE", "DECIDE"}
  PROVE  /\ Covers(protection, account) /\ account \in Account({<<>>}) /\ protection \in Protection
         /\ Held(account).qty \in Int /\ Synced(protection, account) = protection
         /\ bar \in Bars /\ {bar.open, bar.close} \subseteq Nat \ {0}
<1>1. /\ Covers(protection, account) /\ account \in Account({<<>>}) /\ protection \in Protection
      /\ bar \in Bars
  BY DEF ReplayInv, ReplayShape
<1>2. Held(account).qty \in Int
  <2> DEFINE NoOrders == {<<>>}
  <2>1. account \in Account(NoOrders)
    BY <1>1
  <2> HIDE DEF NoOrders
  <2>2. Held(account) \in [qty : Int, avg : Int]
    BY <2>1, AccountParts
  <2> QED
    BY <2>2
<1>3. Synced(protection, account) = protection
  BY <1>1, <1>2, CoveredIsSynced
<1>4. bar.open \in Nat \ {0} /\ bar.close \in Nat \ {0}
  BY <1>1, ReplayAssumption
<1> QED
  BY <1>1, <1>2, <1>3, <1>4

\* Without a position nothing leaves and no tick changes the book.
LEMMA FlatStays ==
  ASSUME ReplayInv, step \in {"OPEN", "CLOSE", "DECIDE"}, Held(account).qty = 0
  PROVE  /\ Resolution(protection) = NoExit
         /\ \A price \in Nat : Ticked(account, price) = account /\ ~PB!Hit(0, protection.stop, price)
<1>1. Covers(protection, account) /\ account \in Account({<<>>})
  BY UnderWay
<1>2. protection.side = "FLAT" /\ account.stops[S] = PB!NoStop
  BY <1>1 DEF Covers, Unprotected
<1>3. \A price \in Nat : Ticked(account, price) = account
  BY <1>1, <1>2, StopSleeps
<1> QED
  BY <1>2, <1>3 DEF Resolution, PB!Hit

\* At the open, a gap closes the position and everything else leaves the book alone.
LEMMA OpenExits ==
  ASSUME ReplayInv, step = "OPEN"
  PROVE  LET r == Resolution(protection)
             ticked == Ticked(account, bar.open)
             exited == IF r.reason = "TARGET_GAP" THEN TargetExit(ticked, r.price) ELSE ticked
         IN  /\ r.reason = "STOP_GAP" => StopOrderFilled(account, bar.open)
             /\ r.reason = "TARGET_GAP" => Held(ticked).qty # 0 /\ r.price \in Nat
             /\ ~LeavesAtOpen(r) => exited = account
             /\ LeavesAtOpen(r) => LeftWell(protection, account, exited) /\ protection.side # "FLAT"
<1> DEFINE p == protection
           r == Resolution(p)
           q == Held(account).qty
           ticked == Ticked(account, bar.open)
           exited == IF r.reason = "TARGET_GAP" THEN TargetExit(ticked, r.price) ELSE ticked
<1>1. /\ Covers(p, account) /\ account \in Account({<<>>}) /\ p \in Protection /\ q \in Int
      /\ bar \in Bars /\ bar.open \in Nat
  BY UnderWay
<1>2. CASE q = 0
  <2>1. r = NoExit /\ ticked = account
    BY <1>1, <1>2, FlatStays
  <2> HIDE DEF r, ticked
  <2> QED
    BY <2>1 DEF NoExit, LeavesAtOpen, Gaps, r, ticked
<1>3. CASE q # 0
  <2>1. p.side # "FLAT" /\ TargetsBeyond(p)
    BY <1>1, <1>3, Sides DEF Covers
  <2>2. FirstTarget(p) \in Nat
    BY <1>1, <2>1, NearestTarget
  <2>3. /\ r.reason \in {"STOP_GAP", "TARGET_GAP", "STOP_INTRABAR", "TARGET_INTRABAR", "NONE"}
        /\ r.reason = "STOP_GAP" => Reaches(p.side, -1, bar.open, p.stop) /\ ExitLevel(p) = bar.open
        /\ r.reason = "TARGET_GAP" => r.price = FirstTarget(p) /\ ExitLevel(p) = r.price
        /\ r.reason # "STOP_GAP" => ~Reaches(p.side, -1, bar.open, p.stop)
    BY <1>1, <2>1, Resolved
  <2>4. /\ Reaches(p.side, -1, bar.open, p.stop) <=> PB!Hit(q, p.stop, bar.open)
        /\ account.stops[S].price = p.stop /\ account.stops[S] # PB!NoStop
        /\ account.stops[S].qty >= PB!Magnitude(q)
    BY <1>1, <1>3, ReachIsHit
  <2> HIDE DEF p, r, q, ticked
  <2>5. CASE r.reason = "STOP_GAP"
    <3>1. PB!Hit(q, account.stops[S].price, bar.open)
      BY <2>3, <2>4, <2>5
    <3>2. /\ \E level \in Int : Closes(account, ticked, level) /\ q * level <= q * bar.open
          /\ StopOrderFilled(account, bar.open)
      BY <1>1, <1>3, <2>4, <3>1, StopFires DEF q, ticked
    <3>3. PICK level \in Int : Closes(account, ticked, level) /\ q * level <= q * bar.open
      BY <3>2
    <3>4. LeftWell(p, account, ticked)
      BY <1>1, <2>3, <2>5, <3>3, ClosedWell DEF q
    <3> QED
      BY <2>1, <2>5, <3>2, <3>4 DEF LeavesAtOpen, Gaps, p, r, ticked
  <2>6. CASE r.reason = "TARGET_GAP"
    <3>1. ticked = account
      BY <1>1, <2>3, <2>4, <2>6, StopSleeps DEF q, ticked
    <3>2. Closes(account, exited, r.price) /\ r.price \in Nat
      BY <1>1, <1>3, <2>2, <2>3, <2>6, <3>1, TargetFires DEF q
    <3>3. q * r.price <= q * ExitLevel(p) /\ ExitLevel(p) \in Int
      BY <1>1, <2>3, <2>6, <3>2
    <3>4. LeftWell(p, account, exited)
      <4> HIDE DEF exited
      <4> QED
        BY <1>1, <3>2, <3>3, ClosedWell DEF q
    <3> QED
      BY <1>3, <2>1, <2>6, <3>1, <3>2, <3>4 DEF LeavesAtOpen, Gaps, p, r, q, ticked
  <2>7. CASE r.reason \notin {"STOP_GAP", "TARGET_GAP"}
    <3>1. ticked = account
      BY <1>1, <2>3, <2>4, <2>7, StopSleeps DEF q, ticked
    <3> QED
      BY <2>7, <3>1 DEF LeavesAtOpen, Gaps, p, r, ticked
  <2> QED
    BY <2>5, <2>6, <2>7
<1> QED
  BY <1>2, <1>3

\* At the close, a touched stop or target closes the position, and the close itself
\* changes nothing.
LEMMA CloseExits ==
  ASSUME ReplayInv, step = "CLOSE"
  PROVE  LET r == Resolution(protection)
             exited == CASE r.reason = "STOP_INTRABAR" -> Ticked(account, r.price)
                         [] r.reason = "TARGET_INTRABAR" -> TargetExit(account, r.price)
                         [] OTHER -> account
             closed == Ticked(exited, bar.close)
         IN  /\ r.reason \notin Gaps
             /\ r.reason = "STOP_INTRABAR" => StopOrderFilled(account, r.price)
             /\ r.reason = "NONE" => closed = account /\ ~PB!Hit(Held(account).qty, protection.stop, bar.close)
             /\ r.reason # "NONE" => LeftWell(protection, account, closed) /\ protection.side # "FLAT"
<1> DEFINE p == protection
           r == Resolution(p)
           q == Held(account).qty
           exited == CASE r.reason = "STOP_INTRABAR" -> Ticked(account, r.price)
                       [] r.reason = "TARGET_INTRABAR" -> TargetExit(account, r.price)
                       [] OTHER -> account
           closed == Ticked(exited, bar.close)
<1>1. /\ Covers(p, account) /\ account \in Account({<<>>}) /\ p \in Protection /\ q \in Int
      /\ bar \in Bars /\ bar.close \in Nat
  BY UnderWay
<1>2. r.reason \notin Gaps
  BY DEF ReplayInv, StageHolds, LeavesAtOpen
<1>3. CASE q = 0
  <2>1. r.reason = "NONE" /\ Ticked(account, bar.close) = account /\ ~PB!Hit(0, p.stop, bar.close)
    BY <1>1, <1>3, FlatStays DEF NoExit
  <2> HIDE DEF p, r, q
  <2>2. exited = account
    BY <2>1
  <2> HIDE DEF exited
  <2> QED
    BY <1>2, <1>3, <2>1, <2>2 DEF p, r, q, exited
<1>4. CASE q # 0
  <2>1. p.side # "FLAT" /\ TargetsBeyond(p)
    BY <1>1, <1>4, Sides DEF Covers
  <2>2. FirstTarget(p) \in Nat /\ p.stop \in Nat
    BY <1>1, <2>1, NearestTarget DEF Protection
  <2>3. /\ r.reason \in {"STOP_GAP", "TARGET_GAP", "STOP_INTRABAR", "TARGET_INTRABAR", "NONE"}
        /\ r.reason = "STOP_INTRABAR" => r.price = p.stop /\ ExitLevel(p) = p.stop
        /\ r.reason = "TARGET_INTRABAR" => r.price = FirstTarget(p) /\ ExitLevel(p) = r.price
        /\ r.reason = "NONE" => ~Reaches(p.side, -1, bar.close, p.stop)
    BY <1>1, <2>1, Resolved
  <2>4. \A price \in Nat :
          /\ Reaches(p.side, -1, price, p.stop) <=> PB!Hit(q, p.stop, price)
          /\ account.stops[S].price = p.stop /\ account.stops[S] # PB!NoStop
          /\ account.stops[S].qty >= PB!Magnitude(q)
    <3> SUFFICES ASSUME NEW price \in Nat
                 PROVE  /\ Reaches(p.side, -1, price, p.stop) <=> PB!Hit(q, p.stop, price)
                        /\ account.stops[S].price = p.stop /\ account.stops[S] # PB!NoStop
                        /\ account.stops[S].qty >= PB!Magnitude(q)
      OBVIOUS
    <3>1. price \in Int
      OBVIOUS
    <3> QED
      BY <1>1, <1>4, <3>1, ReachIsHit
  <2>5. PB!Hit(q, p.stop, p.stop)
    BY <1>1, <1>4, <2>2 DEF PB!Hit
  <2> HIDE DEF p, r, q
  <2>6. ASSUME LeftWell(p, account, exited) PROVE LeftWell(p, account, closed)
    <3>1. exited \in Account(Executed) /\ exited.stops[S] = PB!NoStop
      BY <2>6 DEF LeftWell
    <3> HIDE DEF exited
    <3>2. closed = exited
      BY <3>1, StopSleeps
    <3> QED
      BY <2>6, <3>2
  <2>7. CASE r.reason = "STOP_INTRABAR"
    <3>1. exited = Ticked(account, p.stop)
      BY <2>3, <2>7
    <3>2. /\ \E level \in Int : Closes(account, Ticked(account, p.stop), level) /\ q * level <= q * p.stop
          /\ StopOrderFilled(account, p.stop)
      BY <1>1, <1>4, <2>2, <2>4, <2>5, StopFires DEF q
    <3>3. PICK level \in Int : Closes(account, Ticked(account, p.stop), level) /\ q * level <= q * p.stop
      BY <3>2
    <3>4. ExitLevel(p) = p.stop /\ ExitLevel(p) \in Int
      BY <2>2, <2>3, <2>7
    <3>5. LeftWell(p, account, exited)
      <4> HIDE DEF exited
      <4> QED
        BY <1>1, <3>1, <3>3, <3>4, ClosedWell DEF q
    <3>6. LeftWell(p, account, closed) /\ StopOrderFilled(account, r.price)
      BY <2>3, <2>6, <2>7, <3>2, <3>5
    <3> HIDE DEF exited
    <3> QED
      BY <1>2, <2>1, <2>7, <3>6 DEF p, r, exited
  <2>8. CASE r.reason = "TARGET_INTRABAR"
    <3>1. exited = TargetExit(account, r.price) /\ r.price \in Nat
      BY <2>2, <2>3, <2>8
    <3>2. Closes(account, exited, r.price)
      BY <1>1, <1>4, <3>1, TargetFires DEF q
    <3>3. q * r.price <= q * ExitLevel(p) /\ ExitLevel(p) \in Int
      BY <1>1, <2>3, <2>8, <3>1
    <3>4. LeftWell(p, account, exited)
      <4> HIDE DEF exited
      <4> QED
        BY <1>1, <3>1, <3>2, <3>3, ClosedWell DEF q
    <3>5. LeftWell(p, account, closed)
      BY <2>6, <3>4
    <3> HIDE DEF exited
    <3> QED
      BY <1>2, <2>1, <2>8, <3>5 DEF p, r, exited
  <2>9. CASE r.reason = "NONE"
    <3>1. exited = account
      BY <2>9
    <3>2. ~PB!Hit(q, p.stop, bar.close) /\ account.stops[S].price = p.stop
      BY <1>1, <2>3, <2>4, <2>9
    <3>3. closed = account
      BY <1>1, <3>1, <3>2, StopSleeps DEF q
    <3> HIDE DEF exited, closed
    <3> QED
      BY <1>2, <2>9, <3>2, <3>3 DEF p, r, q, exited, closed
  <2> QED
    BY <1>2, <2>3, <2>7, <2>8, <2>9 DEF Gaps
<1> QED
  BY <1>3, <1>4

-----------------------------------------------------------------------------
(* One step per action *)

\* The part of the shape that says where the loop is.
At ==
  /\ step \in {"NEXT", "OPEN", "CLOSE", "DECIDE", "CANCELLED", "COMPLETED", "TARGET_SIDE", "STOP_REFUSED"}
  /\ clock \in 0 .. MaxCandles
  /\ step \in {"OPEN", "CLOSE"} => clock < MaxCandles
  /\ bar \in Bars \cup {NoBar}
  /\ step \in {"OPEN", "CLOSE", "DECIDE"} => bar \in Bars

\* An event that leaves a covered book keeps the invariant.
LEMMA EventKeeps ==
  ASSUME ReplayInv, step # "STOP_REFUSED",
         NEW t \in 0 .. MaxCandles, t = clock \/ (t = clock + 1 /\ step = "CLOSE"), clock' = t,
         NEW orders, NEW b \in Account(orders), NEW m \in Nat, NEW p \in Protection,
         p.opened <= t, Covers(p, b), Becomes(b, m, p, t), At', StageHolds'
  PROVE  ReplayInv'
<1>1. ReplayShape /\ SeenSoFar /\ PeakIsHighest
  BY DEF ReplayInv
<1>2. /\ account' \in Account({<<>>}) /\ Held(account') = Held(b)
      /\ folio' \in Folio /\ seen' \in [0 .. MaxCandles -> Int \cup {None}]
      /\ FolioMirrors' /\ SeenSoFar' /\ PeakIsHighest'
  BY <1>1, ObservedOn
<1>3. account' = Settled(b) /\ mark' = m /\ protection' = p
  BY DEF Becomes
<1>4. ReplayShape'
  BY <1>2, <1>3 DEF ReplayShape, At
<1>5. account'.stops[S] = b.stops[S]
  BY <1>3, AccountParts
<1>6. Covers(protection, account)'
  BY <1>2, <1>3, <1>5 DEF Covers, TargetsBeyond, SideOf, PB!Magnitude, Held, PB!NoStop, Unprotected
<1> QED
  BY <1>2, <1>4, <1>6 DEF ReplayInv

\* After an exit nothing is left to leave.
LEMMA UnprotectedStage ==
  ASSUME protection' = Unprotected, step' # "DECIDE" \/ (mark' = bar'.close /\ Held(account').qty = 0)
  PROVE  StageHolds'
<1>1. Resolution(protection)' = NoExit
  BY DEF Resolution, Unprotected, NoExit
<1>2. ~LeavesAtOpen(Resolution(protection))'
  BY <1>1 DEF LeavesAtOpen, NoExit, Gaps
<1>3. step' = "DECIDE" => mark' = bar'.close /\ ~PB!Hit(Held(account').qty, protection'.stop, mark')
  BY DEF PB!Hit
<1> QED
  BY <1>2, <1>3 DEF StageHolds, PB!Hit, Held

\* Giving up changes where the loop is and nothing else.
LEMMA AbortKeeps ==
  ASSUME ReplayInv, NEW reason \in {"NEXT", "CANCELLED", "COMPLETED", "TARGET_SIDE"}, Abort(reason),
         step # "STOP_REFUSED", folio.day # None \/ reason # "NEXT"
  PROVE  ReplayInv'
<1>1. /\ step' = reason /\ clock' = clock /\ bar' = bar /\ account' = account /\ mark' = mark
      /\ protection' = protection /\ folio' = folio /\ left' = left /\ seen' = seen
  BY DEF Abort
<1>2. ReplayShape'
  BY <1>1 DEF ReplayInv, ReplayShape
<1>3. Covers(protection, account)' /\ FolioMirrors' /\ PeakIsHighest'
  BY <1>1 DEF ReplayInv, Covers, TargetsBeyond, FolioMirrors, PeakIsHighest, Held, Equity, OpenRisk
<1>4. StageHolds'
  BY <1>1 DEF StageHolds
<1>5. SeenSoFar'
  <2>1. StartOf(clock)' = StartOf(clock)
    BY <1>1, Zenon DEF StartOf, Before
  <2> QED
    BY <1>1, <2>1 DEF ReplayInv, SeenSoFar
<1> QED
  BY <1>2, <1>3, <1>4, <1>5 DEF ReplayInv

LEMMA NextKeeps ==
  ASSUME ReplayInv, NEW o \in Bars, NextCandle(o)
  PROVE  ReplayInv'
<1>1. /\ step = "NEXT" /\ clock < MaxCandles /\ bar' = o /\ step' = "OPEN"
      /\ clock' = clock /\ account' = account /\ mark' = mark
      /\ protection' = protection /\ folio' = folio /\ seen' = seen
  BY DEF NextCandle
<1>2. ReplayShape'
  BY <1>1 DEF ReplayInv, ReplayShape
<1>3. Covers(protection, account)' /\ FolioMirrors' /\ PeakIsHighest' /\ StageHolds'
  BY <1>1 DEF ReplayInv, Covers, TargetsBeyond, FolioMirrors, PeakIsHighest, StageHolds, Held, Equity, OpenRisk
<1>4. SeenSoFar'
  <2>1. StartOf(clock)' = StartOf(clock)
    BY <1>1, Zenon DEF StartOf, Before
  <2> QED
    BY <1>1, <2>1 DEF ReplayInv, SeenSoFar
<1> QED
  BY <1>2, <1>3, <1>4 DEF ReplayInv

LEMMA UnprotectedShape == Unprotected \in Protection /\ Unprotected.opened = 0
BY DEF Unprotected, Protection

\* The open either gives up, leaves the book alone or closes the position.
LEMMA OpenMoves ==
  ASSUME ReplayInv, CandleOpen
  PROVE  \/ Abort("TARGET_SIDE")
         \/ /\ step' = "CLOSE" /\ clock' = clock /\ bar' = bar
            /\ \/ /\ ~LeavesAtOpen(Resolution(protection)) /\ left' = NoExit
                  /\ Becomes(account, bar.open, protection, clock)
               \/ \E c \in Account(Executed), m \in Nat :
                    LeftWell(protection, account, c) /\ Becomes(c, m, Unprotected, clock)
<1> DEFINE p == protection
           r == Resolution(p)
           ticked == Ticked(account, bar.open)
           exited == IF r.reason = "TARGET_GAP" THEN TargetExit(ticked, r.price) ELSE ticked
           m == IF r.reason = "TARGET_GAP" THEN r.price ELSE bar.open
<1>1. step = "OPEN" /\ Synced(p, account) = p
  BY UnderWay DEF CandleOpen
<1>2. /\ r.reason = "STOP_GAP" => StopOrderFilled(account, bar.open)
      /\ r.reason = "TARGET_GAP" => Held(ticked).qty # 0 /\ r.price \in Nat
      /\ ~LeavesAtOpen(r) => exited = account
      /\ LeavesAtOpen(r) => LeftWell(p, account, exited) /\ p.side # "FLAT"
  BY <1>1, OpenExits
<1>3. r.reason = "TARGET_GAP" => LeavesAtOpen(r)
  BY DEF LeavesAtOpen, Gaps
<1>4. ASSUME ~Abort("TARGET_SIDE")
      PROVE  /\ Becomes(exited, m, Synced(p, exited), clock) /\ step' = "CLOSE"
             /\ left' = IF LeavesAtOpen(r) THEN r ELSE NoExit
             /\ clock' = clock /\ bar' = bar
  <2>1. ~(r.reason = "STOP_GAP" /\ ~StopOrderFilled(account, bar.open))
        /\ ~(r.reason = "TARGET_GAP" /\ Held(ticked).qty = 0)
    BY <1>2
  <2>2. /\ exited = IF LeavesAtOpen(r) /\ r.reason = "TARGET_GAP" THEN TargetExit(ticked, r.price) ELSE ticked
        /\ m = IF LeavesAtOpen(r) /\ r.reason = "TARGET_GAP" THEN r.price ELSE bar.open
    BY <1>3
  <2> HIDE DEF p, r, exited, m
  <2> QED
    BY <1>1, <1>4, <2>1, <2>2 DEF CandleOpen, p, r
<1>5. m \in Nat
  <2>1. bar.open \in Nat
    BY <1>1, UnderWay
  <2> QED
    BY <1>2, <2>1
<1> HIDE DEF p, r, ticked, exited, m
<1>6. CASE ~LeavesAtOpen(r) /\ ~Abort("TARGET_SIDE")
  <2>1. exited = account /\ m = bar.open /\ Synced(p, exited) = p
    BY <1>1, <1>2, <1>3, <1>6 DEF m
  <2> QED
    BY <1>4, <1>6, <2>1 DEF p, r
<1>7. CASE LeavesAtOpen(r) /\ ~Abort("TARGET_SIDE")
  <2>1. LeftWell(p, account, exited)
    BY <1>2, <1>7
  <2>2. exited \in Account(Executed) /\ Held(exited).qty = 0 /\ exited.stops[S] = PB!NoStop
    BY <2>1 DEF LeftWell
  <2>3. Synced(p, exited) = Unprotected
    BY <2>2, GoneIsUncovered
  <2>4. Becomes(exited, m, Unprotected, clock) /\ step' = "CLOSE" /\ clock' = clock /\ bar' = bar
    BY <1>4, <1>7, <2>3
  <2> QED
    BY <1>5, <2>1, <2>2, <2>4 DEF p
<1> QED
  BY <1>6, <1>7

\* So does the close, at the next time.
LEMMA CloseMoves ==
  ASSUME ReplayInv, CandleClose
  PROVE  \/ Abort("TARGET_SIDE")
         \/ /\ step' \in {"DECIDE", "NEXT"} /\ clock' = clock + 1 /\ bar' = bar
            /\ \/ /\ left' = left /\ ~PB!Hit(Held(account).qty, protection.stop, bar.close)
                  /\ Becomes(account, bar.close, protection, clock + 1)
               \/ \E c \in Account(Executed) :
                    LeftWell(protection, account, c) /\ Becomes(c, bar.close, Unprotected, clock + 1)
<1> DEFINE p == protection
           r == Resolution(p)
           exited == CASE r.reason = "STOP_INTRABAR" -> Ticked(account, r.price)
                       [] r.reason = "TARGET_INTRABAR" -> TargetExit(account, r.price)
                       [] OTHER -> account
           closed == Ticked(exited, bar.close)
<1>1. step = "CLOSE" /\ Synced(p, account) = p
  BY UnderWay DEF CandleClose
<1>2. /\ r.reason \notin Gaps
      /\ r.reason = "STOP_INTRABAR" => StopOrderFilled(account, r.price)
      /\ r.reason = "NONE" => closed = account /\ ~PB!Hit(Held(account).qty, p.stop, bar.close)
      /\ r.reason # "NONE" => LeftWell(p, account, closed) /\ p.side # "FLAT"
  BY <1>1, CloseExits
<1>3. ASSUME ~Abort("TARGET_SIDE")
      PROVE  /\ Becomes(closed, bar.close, Synced(p, closed), clock + 1)
             /\ left' = IF r.reason = "NONE" THEN left ELSE r
             /\ clock' = clock + 1 /\ bar' = bar /\ step' \in {"DECIDE", "NEXT"}
  <2>1. ~(r.reason \in Gaps) /\ ~(r.reason = "STOP_INTRABAR" /\ ~StopOrderFilled(account, r.price))
    BY <1>2
  <2> HIDE DEF r, exited
  <2> QED
    BY <1>1, <1>3, <2>1 DEF CandleClose, r, exited
<1> HIDE DEF p, r, exited, closed
<1>4. CASE r.reason = "NONE" /\ ~Abort("TARGET_SIDE")
  <2>1. closed = account /\ Synced(p, closed) = p
    BY <1>1, <1>2, <1>4
  <2> QED
    BY <1>2, <1>3, <1>4, <2>1 DEF p
<1>5. CASE r.reason # "NONE" /\ ~Abort("TARGET_SIDE")
  <2>1. LeftWell(p, account, closed)
    BY <1>2, <1>5
  <2>2. closed \in Account(Executed) /\ Held(closed).qty = 0 /\ closed.stops[S] = PB!NoStop
    BY <2>1 DEF LeftWell
  <2>3. Synced(p, closed) = Unprotected
    BY <2>2, GoneIsUncovered
  <2>4. /\ Becomes(closed, bar.close, Unprotected, clock + 1)
        /\ step' \in {"DECIDE", "NEXT"} /\ clock' = clock + 1 /\ bar' = bar
    BY <1>3, <1>5, <2>3
  <2> QED
    BY <2>1, <2>2, <2>4 DEF p
<1> QED
  BY <1>4, <1>5

LEMMA OpenKeeps ==
  ASSUME ReplayInv, CandleOpen
  PROVE  ReplayInv'
<1>1. /\ step = "OPEN" /\ Covers(protection, account) /\ account \in Account({<<>>})
      /\ protection \in Protection /\ bar \in Bars /\ bar.open \in Nat
  BY UnderWay DEF CandleOpen
<1>2. clock \in 0 .. MaxCandles /\ clock < MaxCandles /\ protection.opened <= clock
  BY <1>1 DEF ReplayInv, ReplayShape
<1>3. CASE Abort("TARGET_SIDE")
  BY <1>1, <1>3, AbortKeeps
<1>4. ASSUME step' = "CLOSE", clock' = clock, bar' = bar PROVE At'
  BY <1>1, <1>2, <1>4 DEF At
<1>5. CASE /\ step' = "CLOSE" /\ clock' = clock /\ bar' = bar
           /\ ~LeavesAtOpen(Resolution(protection))
           /\ Becomes(account, bar.open, protection, clock)
  <2>1. protection' = protection
    BY <1>5 DEF Becomes
  <2>2. Resolution(protection)' = Resolution(protection)
    BY <1>5, <2>1, Zenon DEF Resolution, Reaches, Best, Worst, FirstTarget, NoExit
  <2>3. StageHolds'
    BY <1>5, <2>2 DEF StageHolds, LeavesAtOpen, Gaps
  <2> DEFINE NoOrders == {<<>>}
             m == bar.open
  <2>4. account \in Account(NoOrders) /\ m \in Nat /\ Becomes(account, m, protection, clock)
    BY <1>1, <1>5
  <2> HIDE DEF NoOrders, m
  <2> QED
    BY <1>1, <1>2, <1>4, <1>5, <2>3, <2>4, EventKeeps
<1>6. CASE /\ step' = "CLOSE" /\ clock' = clock /\ bar' = bar
           /\ \E c \in Account(Executed), m \in Nat :
                LeftWell(protection, account, c) /\ Becomes(c, m, Unprotected, clock)
  <2>1. PICK c \in Account(Executed) : \E m \in Nat :
                LeftWell(protection, account, c) /\ Becomes(c, m, Unprotected, clock)
    BY <1>6
  <2>2. PICK m \in Nat : LeftWell(protection, account, c) /\ Becomes(c, m, Unprotected, clock)
    BY <2>1
  <2>3. Covers(Unprotected, c)
    BY <2>2, GoneIsUncovered DEF LeftWell
  <2>4. StageHolds'
    BY <1>6, <2>2, UnprotectedStage DEF Becomes
  <2>5. Unprotected.opened <= clock
    BY <1>2, UnprotectedShape
  <2> QED
    BY <1>1, <1>2, <1>4, <1>6, <2>2, <2>3, <2>4, <2>5, UnprotectedShape, EventKeeps
<1> QED
  BY <1>3, <1>5, <1>6, OpenMoves

LEMMA CloseKeeps ==
  ASSUME ReplayInv, CandleClose
  PROVE  ReplayInv'
<1>1. /\ step = "CLOSE" /\ Covers(protection, account) /\ account \in Account({<<>>})
      /\ protection \in Protection /\ bar \in Bars /\ bar.close \in Nat
  BY UnderWay DEF CandleClose
<1>2. clock \in 0 .. MaxCandles /\ clock + 1 \in 0 .. MaxCandles /\ protection.opened <= clock + 1
  <2>1. clock \in 0 .. MaxCandles /\ clock < MaxCandles /\ protection.opened <= clock
        /\ protection.opened \in Nat /\ MaxCandles \in Nat
    BY <1>1, ReplayAssumption DEF ReplayInv, ReplayShape, Protection
  <2> QED
    BY <2>1
<1>3. CASE Abort("TARGET_SIDE")
  BY <1>1, <1>3, AbortKeeps
<1>4. ASSUME step' \in {"DECIDE", "NEXT"}, clock' = clock + 1, bar' = bar PROVE At'
  BY <1>1, <1>2, <1>4 DEF At
<1>5. CASE /\ step' \in {"DECIDE", "NEXT"} /\ clock' = clock + 1 /\ bar' = bar
           /\ ~PB!Hit(Held(account).qty, protection.stop, bar.close)
           /\ Becomes(account, bar.close, protection, clock + 1)
  <2>1. protection' = protection /\ mark' = bar.close /\ account' = Settled(account)
    BY <1>5 DEF Becomes
  <2>2. Held(account') = Held(account)
    BY <2>1 DEF Held, Settled
  <2>3. StageHolds'
    BY <1>5, <2>1, <2>2 DEF StageHolds, Held, PB!Hit
  <2> DEFINE NoOrders == {<<>>}
             m == bar.close
             t == clock + 1
  <2>4. account \in Account(NoOrders) /\ m \in Nat /\ Becomes(account, m, protection, t)
        /\ t \in 0 .. MaxCandles /\ t = clock + 1 /\ clock' = t /\ protection.opened <= t
    BY <1>1, <1>2, <1>5
  <2> HIDE DEF NoOrders, m, t
  <2> QED
    BY <1>1, <1>4, <1>5, <2>3, <2>4, EventKeeps
<1>6. CASE /\ step' \in {"DECIDE", "NEXT"} /\ clock' = clock + 1 /\ bar' = bar
           /\ \E c \in Account(Executed) :
                LeftWell(protection, account, c) /\ Becomes(c, bar.close, Unprotected, clock + 1)
  <2>1. PICK c \in Account(Executed) :
           LeftWell(protection, account, c) /\ Becomes(c, bar.close, Unprotected, clock + 1)
    BY <1>6
  <2>2. Covers(Unprotected, c)
    BY <2>1, GoneIsUncovered DEF LeftWell
  <2>3. StageHolds'
    <3>1. protection' = Unprotected /\ mark' = bar'.close /\ Held(account').qty = 0
      BY <1>6, <2>1 DEF Becomes, LeftWell, Held, Settled
    <3> QED
      BY <3>1, UnprotectedStage
  <2> DEFINE m == bar.close
             t == clock + 1
  <2>4. m \in Nat /\ Becomes(c, m, Unprotected, t) /\ t \in 0 .. MaxCandles /\ t = clock + 1
        /\ clock' = t /\ Unprotected.opened <= t
    BY <1>1, <1>2, <1>6, <2>1, UnprotectedShape
  <2> HIDE DEF m, t
  <2> QED
    BY <1>1, <1>4, <1>6, <2>2, <2>3, <2>4, UnprotectedShape, EventKeeps
<1> QED
  BY <1>3, <1>5, <1>6, CloseMoves

-----------------------------------------------------------------------------
(* Decisions *)

\* The risk engine looks at eight figures of a portfolio state, and at nothing else.
LEMMA SameFigures ==
  ASSUME NEW p, NEW f, NEW g, NEW profile, NEW m, NEW killed, NEW now,
         f.equity = g.equity, f.dayStart = g.dayStart, f.peak = g.peak, f.dailyPnl = g.dailyPnl,
         f.open = g.open, f.openRisk = g.openRisk, f.correlatedRisk = g.correlatedRisk, f.gross = g.gross
  PROVE  Evaluate(p, f, profile, m, killed, now) = Evaluate(p, g, profile, m, killed, now)
<1>1. Preflight(p, f, profile, m, killed, now) = Preflight(p, g, profile, m, killed, now)
  <2>1. ValidPortfolio(f) <=> ValidPortfolio(g)
    BY DEF ValidPortfolio
  <2> QED
    BY <2>1, Zenon DEF Preflight
<1>2. /\ TradeBudget(f, profile) = TradeBudget(g, profile)
      /\ PortfolioBudget(f, profile) = PortfolioBudget(g, profile)
      /\ CorrelatedBudget(f, profile) = CorrelatedBudget(g, profile)
      /\ NotionalLeft(f, profile, m) = NotionalLeft(g, profile, m)
  BY Zenon DEF TradeBudget, PortfolioBudget, CorrelatedBudget, NotionalLeft
<1>3. AllowedRisk(f, profile) = AllowedRisk(g, profile)
  BY <1>2, Zenon DEF AllowedRisk
<1>4. Quantity(p, f, profile, m) = Quantity(p, g, profile, m)
  BY <1>2, <1>3, Zenon DEF Quantity, Steps
<1>5. SizeRefusal(p, f, profile, m) = SizeRefusal(p, g, profile, m)
  BY <1>2, <1>3, <1>4, Zenon DEF SizeRefusal
<1>6. Authorized(p, f, profile, m) = Authorized(p, g, profile, m)
  BY <1>2, <1>4, Zenon DEF Authorized
<1> QED
  BY <1>1, <1>5, <1>6, Zenon DEF Evaluate

\* When a decision is taken the portfolio state is the true account.
LEMMA FolioIsTrue ==
  ASSUME ReplayInv, step = "DECIDE"
  PROVE  /\ TrueAccount \in Portfolio
         /\ folio.equity = TrueAccount.equity /\ folio.dayStart = TrueAccount.dayStart
         /\ folio.peak = TrueAccount.peak /\ folio.dailyPnl = TrueAccount.dailyPnl
         /\ folio.open = TrueAccount.open /\ folio.openRisk = TrueAccount.openRisk
         /\ folio.correlatedRisk = TrueAccount.correlatedRisk /\ folio.gross = TrueAccount.gross
<1> DEFINE p == Held(account)
           risk == IF p.qty = 0 THEN 0
                   ELSE PB!Magnitude(p.avg - account.stops[S].price) * PB!Magnitude(p.qty)
<1>1. /\ FolioMirrors /\ Covers(protection, account) /\ folio \in Folio /\ p.qty \in Int
      /\ folio.dayStart = StartOf(clock)
  BY UnderWay DEF ReplayInv, SeenSoFar, ReplayShape
<1>2. OpenRisk(protection) = risk
  <2>1. CASE p.qty = 0
    <3>1. protection = Unprotected
      BY <1>1, <2>1 DEF Covers
    <3>2. OpenRisk(Unprotected) = 0
      BY DEF OpenRisk, Unprotected, PB!Magnitude
    <3> QED
      BY <2>1, <3>1, <3>2
  <2>2. CASE p.qty # 0
    <3>1. /\ protection.qty = PB!Magnitude(p.qty) /\ protection.avg = p.avg
          /\ account.stops[S].price = protection.stop
      BY <1>1, <2>2 DEF Covers
    <3> QED
      BY <2>2, <3>1, Zenon DEF OpenRisk
  <2> QED
    BY <2>1, <2>2
<1>3. TrueAccount = [equity |-> Equity(account, mark), dayStart |-> StartOf(clock),
                     dailyPnl |-> Equity(account, mark) - StartOf(clock),
                     peak |-> folio.peak, open |-> IF p.qty = 0 THEN 0 ELSE 1,
                     openRisk |-> risk, correlatedRisk |-> risk,
                     gross |-> PB!Magnitude(p.qty) * mark]
  BY Zenon DEF TrueAccount, StartOf
<1> HIDE DEF p, risk
<1>4. /\ folio.equity = TrueAccount.equity /\ folio.dayStart = TrueAccount.dayStart
      /\ folio.peak = TrueAccount.peak /\ folio.dailyPnl = TrueAccount.dailyPnl
      /\ folio.open = TrueAccount.open /\ folio.openRisk = TrueAccount.openRisk
      /\ folio.correlatedRisk = TrueAccount.correlatedRisk /\ folio.gross = TrueAccount.gross
  BY <1>1, <1>2, <1>3 DEF FolioMirrors, p
<1>5. /\ {folio.equity, folio.dayStart, folio.peak, folio.dailyPnl} \subseteq Int
      /\ {folio.open, folio.openRisk, folio.correlatedRisk, folio.gross} \subseteq Int
  BY <1>1 DEF Folio
<1>6. TrueAccount \in Portfolio
  BY <1>3, <1>4, <1>5 DEF Portfolio
<1> QED
  BY <1>4, <1>6

\* What is judged on the portfolio state is judged on the true account, and a
\* decision that is not a refusal has a size.
LEMMA JudgedTrue ==
  ASSUME ReplayInv, step = "DECIDE", NEW signal \in Signals
  PROVE  /\ Judged(signal, folio) = Judged(signal, TrueAccount)
         /\ Judged(signal, folio).status # "REJECTED" => Judged(signal, folio).qty \in Nat \ {0}
<1> DEFINE p == [side |-> signal.side, entry |-> signal.entry, stop |-> signal.stop, rr |-> signal.rr,
                 leverage |-> signal.leverage, expires |-> clock + 1]
<1>1. p \in Proposal /\ clock \in Int /\ replayProfile \in Profile /\ replayMarket \in Constraints
  <2>1. clock \in Nat
    BY ReplayAssumption DEF ReplayInv, ReplayShape
  <2>2. /\ signal.side \in {"LONG", "SHORT"} /\ signal.entry \in Nat /\ signal.stop \in Nat
        /\ signal.leverage \in Nat /\ signal.rr \in Nat
    BY ReplayAssumption
  <2> QED
    BY <2>1, <2>2, ReplayAssumption DEF Proposal
<1>2. /\ Judged(signal, folio) = Evaluate(p, folio, replayProfile, replayMarket, FALSE, clock)
      /\ Judged(signal, TrueAccount) = Evaluate(p, TrueAccount, replayProfile, replayMarket, FALSE, clock)
  BY DEF Judged
<1> HIDE DEF p
<1>3. Judged(signal, folio) = Judged(signal, TrueAccount)
  <2> DEFINE g == TrueAccount
             killed == FALSE
  <2>1. /\ folio.equity = g.equity /\ folio.dayStart = g.dayStart /\ folio.peak = g.peak
        /\ folio.dailyPnl = g.dailyPnl /\ folio.open = g.open /\ folio.openRisk = g.openRisk
        /\ folio.correlatedRisk = g.correlatedRisk /\ folio.gross = g.gross
    BY FolioIsTrue
  <2> HIDE DEF g, killed
  <2>2. Evaluate(p, folio, replayProfile, replayMarket, killed, clock)
          = Evaluate(p, g, replayProfile, replayMarket, killed, clock)
    BY <2>1, SameFigures
  <2> QED
    BY <1>2, <2>2 DEF g, killed
<1>4. ASSUME Judged(signal, TrueAccount).status # "REJECTED"
      PROVE  Judged(signal, TrueAccount).qty \in Nat \ {0}
  <2> DEFINE f == TrueAccount
             killed == FALSE
             now == clock
  <2>1. f \in Portfolio /\ killed \in BOOLEAN /\ now \in Int
    BY <1>1, FolioIsTrue
  <2>2. Evaluate(p, f, replayProfile, replayMarket, killed, now).status # "REJECTED"
    BY <1>2, <1>4
  <2> HIDE DEF f, killed, now
  <2>3. Evaluate(p, f, replayProfile, replayMarket, killed, now).qty \in Nat \ {0}
    BY <1>1, <2>1, <2>2, SizeIsLargestSafe
  <2> QED
    BY <1>2, <2>3 DEF f, killed, now
<1> QED
  BY <1>3, <1>4

\* What an execution registers covers the position that it leaves.
LEMMA RegisteredCovers ==
  ASSUME ReplayInv, step = "DECIDE", NEW signal \in Signals, NEW order, NEW b \in Account(Executed),
         NEW signed \in Int, signed # 0, signal.side = SideOf(signed), NEW price \in Int,
         Held(b) = PB!PositionAfter(Held(account), signed, price),
         b.stops[S] = IF PB!StopSurvives(Held(account), signed) THEN account.stops[S] ELSE PB!NoStop
  PROVE  /\ Register(signal, b, order).book \in Account(Executed)
         /\ Register(signal, b, order).protection \in Protection
         /\ Register(signal, b, order).protection.opened <= clock
         /\ Covers(Register(signal, b, order).protection, Register(signal, b, order).book)
         /\ Held(Register(signal, b, order).book) = Held(b)
         /\ Synced(protection, b) \in Protection /\ Synced(protection, b).opened <= clock
<1> DEFINE q == Held(account).qty
           n == Held(b).qty
           size == PB!Magnitude(n)
<1>1. /\ Covers(protection, account) /\ protection \in Protection /\ protection.opened <= clock
      /\ clock \in Nat /\ q \in Int
  BY UnderWay, ReplayAssumption DEF ReplayInv, ReplayShape
<1>2. Held(b) \in [qty : Int, avg : Int] /\ n = q + signed /\ n \in Int /\ Held(b).avg \in Int
  <2>1. Held(b) \in [qty : Int, avg : Int]
    BY AccountParts
  <2>2. PB!PositionAfter(Held(account), signed, price).qty = q + signed
    BY Zenon DEF PB!PositionAfter
  <2>3. n = q + signed
    BY <2>2
  <2> HIDE DEF q
  <2> QED
    BY <1>1, <2>1, <2>3
<1>3. size \in Nat
  BY <1>2 DEF PB!Magnitude
<1>4. /\ signal.side \in {"LONG", "SHORT"} /\ signal.stop \in Nat \ {0}
      /\ signal.targets \subseteq Nat /\ TargetsBeyond(signal)
  <2>1. /\ signal.side \in {"LONG", "SHORT"} /\ signal.stop \in Nat \ {0} /\ signal.entry \in Nat
        /\ signal.targets \in (SUBSET (Nat \ {0})) \ {{}}
    BY ReplayAssumption
  <2>2. \A t \in signal.targets : IF signal.side = "LONG" THEN signal.stop < signal.entry /\ signal.entry < t
                                  ELSE t < signal.entry /\ signal.entry < signal.stop
    BY ReplayAssumption
  <2> QED
    BY <2>1, <2>2 DEF TargetsBeyond
<1>5. Synced(protection, b) \in Protection /\ Synced(protection, b).opened <= clock
  <2> HIDE DEF n
  <2>1. CASE protection.side = SideOf(n) /\ protection.side # "FLAT"
    <3>1. Synced(protection, b) = [protection EXCEPT !.qty = size, !.avg = Held(b).avg]
      BY <2>1 DEF Synced, n
    <3> HIDE DEF size
    <3> QED
      BY <1>1, <1>2, <1>3, <3>1 DEF Protection
  <2>2. CASE ~(protection.side = SideOf(n) /\ protection.side # "FLAT")
    <3>1. Synced(protection, b) = Unprotected
      BY <2>2 DEF Synced, n
    <3> QED
      BY <1>1, <3>1, UnprotectedShape
  <2> QED
    BY <2>1, <2>2
<1>6. CASE SideOf(n) = signal.side
  <2> DEFINE kept == [b EXCEPT !.stops[S] = [price |-> signal.stop, qty |-> StopSize(b, order)]]
             given == Protecting(signal, b)
  <2>1. Register(signal, b, order) = [book |-> kept, protection |-> given]
    BY <1>6 DEF Register
  <2>2. StopSize(b, order) = size
    BY DEF StopSize
  <2>3. kept \in Account(Executed) /\ Held(kept) = Held(b) /\ kept.stops[S] = [price |-> signal.stop, qty |-> size]
    <3> HIDE DEF size
    <3>1. [price |-> signal.stop, qty |-> size] \in Stops
      BY <1>3, <1>4 DEF Stops
    <3> QED
      BY <2>2, <3>1 DEF Account, Held
  <2>4. given = [side |-> signal.side, qty |-> size, avg |-> Held(b).avg, stop |-> signal.stop,
                 targets |-> signal.targets, opened |-> clock]
    BY DEF Protecting
  <2> HIDE DEF kept, given
  <2>5. given \in Protection /\ given.opened <= clock
    <3> HIDE DEF size
    <3> QED
      BY <1>1, <1>2, <1>3, <1>4, <2>4 DEF Protection
  <2>6. n # 0 /\ Held(kept).qty = n
    BY <1>4, <1>6, <2>3 DEF SideOf
  <2>7. TargetsBeyond(given)
    BY <1>4, <2>4 DEF TargetsBeyond
  <2>8. Covers(given, kept)
    BY <1>3, <1>4, <1>6, <2>3, <2>4, <2>6, <2>7 DEF Covers
  <2> QED
    BY <1>5, <2>1, <2>3, <2>5, <2>8
<1>7. CASE SideOf(n) # signal.side
  <2> DEFINE given == Synced(protection, b)
  <2>1. Register(signal, b, order) = [book |-> b, protection |-> given]
    BY <1>7 DEF Register
  <2>2. CASE n = 0
    <3>1. ~PB!StopSurvives(Held(account), signed)
      BY <1>2, <2>2 DEF PB!StopSurvives
    <3>2. given = Unprotected /\ Covers(Unprotected, b)
      BY <2>2, <3>1, GoneIsUncovered
    <3> HIDE DEF given
    <3> QED
      BY <1>5, <2>1, <3>2 DEF given
  <2>3. CASE n # 0
    <3>1. \/ n > 0 /\ signed < 0 /\ q > n
          \/ n < 0 /\ signed > 0 /\ q < n
      <4>1. SideOf(n) # SideOf(signed)
        BY <1>7
      <4> HIDE DEF n, q
      <4> QED
        BY <1>1, <1>2, <2>3, <4>1 DEF SideOf
    <3>2. PB!StopSurvives(Held(account), signed)
      BY <1>1, <1>2, <3>1 DEF PB!StopSurvives, PB!SameSide
    <3>3. /\ protection.side = SideOf(q) /\ q # 0 /\ protection.qty = PB!Magnitude(q) /\ protection.stop # 0
          /\ account.stops[S].price = protection.stop /\ account.stops[S].qty >= protection.qty
          /\ TargetsBeyond(protection)
      <4>1. q # 0
        BY <1>1, <1>2, <3>1
      <4> QED
        BY <1>1, <4>1, Zenon DEF Covers
    <3>4. SideOf(q) = SideOf(n) /\ SideOf(q) # "FLAT"
      BY <1>1, <1>2, <3>1 DEF SideOf
    <3>5. given = [protection EXCEPT !.qty = size, !.avg = Held(b).avg]
      BY <3>3, <3>4 DEF Synced
    <3>6. b.stops[S] = account.stops[S]
      BY <3>2
    <3>7. account.stops[S].qty >= size
      <4>1. account.stops[S].qty \in Nat
        <5>1. account.stops[S] \in Stops
          BY DEF ReplayInv, ReplayShape, Account
        <5>2. account.stops[S] # PB!NoStop
          BY <3>3, <1>1, NoLimitAssumption DEF PB!NoStop, Protection
        <5> QED
          BY <5>1, <5>2 DEF Stops, PB!NoStop
      <4>2. PB!Magnitude(q) >= size
        BY <1>1, <1>2, <3>1 DEF PB!Magnitude
      <4>3. PB!Magnitude(q) \in Nat
        BY <1>1 DEF PB!Magnitude
      <4> HIDE DEF size, q
      <4> QED
        BY <1>3, <3>3, <4>1, <4>2, <4>3
    <3> HIDE DEF size
    <3>8. /\ given.side = SideOf(n) /\ given.qty = size /\ given.avg = Held(b).avg
          /\ given.stop = protection.stop /\ given.targets = protection.targets
      BY <1>1, <3>3, <3>4, <3>5 DEF Protection
    <3> HIDE DEF given
    <3>9. TargetsBeyond(given)
      BY <3>3, <3>4, <3>8 DEF TargetsBeyond
    <3>10. Covers(given, b)
      BY <2>3, <3>3, <3>6, <3>7, <3>8, <3>9 DEF Covers, size
    <3> QED
      BY <1>5, <2>1, <3>10 DEF given
  <2> QED
    BY <2>2, <2>3
<1> QED
  BY <1>6, <1>7

\* A decision buys nothing, or exactly what the risk engine allows; then the position
\* is covered, or its stop was refused and the replay ends.
LEMMA DecideMoves ==
  ASSUME ReplayInv, NEW signal \in Signals, Decide(signal)
  PROVE  \/ Abort("NEXT")
         \/ /\ clock' = clock /\ bar' = bar
            /\ Judged(signal, folio).qty \in Nat \ {0}
            /\ PB!Magnitude(Held(account').qty - Held(account).qty) = Judged(signal, folio).qty
            /\ \/ /\ step' = "STOP_REFUSED" /\ account' \in Account({<<>>}) /\ mark' = bar.close
                  /\ protection' \in Protection /\ protection'.opened <= clock
                  /\ folio' = folio /\ left' = left /\ seen' = seen
               \/ /\ step' = "NEXT" /\ left' = left
                  /\ \E b \in Account(Executed), p \in Protection :
                       p.opened <= clock /\ Covers(p, b) /\ Becomes(b, bar.close, p, clock)
<1> DEFINE d == Judged(signal, folio)
           order == OrderFor(signal, d.qty)
           q == Held(account).qty
           ticked == Ticked(account, bar.close)
           level == PB!MarketPrice(order.side, bar.close)
           filled == PB!FillMarket(PB!Placed(ticked, order), 1, bar.close)
           signed == PB!Signed(order)
           registered == Register(signal, filled, order)
           refused == SideOf(Held(filled).qty) = signal.side /\ PB!Hit(Held(filled).qty, signal.stop, bar.close)
<1>1. /\ step = "DECIDE" /\ Covers(protection, account) /\ account \in Account({<<>>})
      /\ protection \in Protection /\ q \in Int /\ bar.close \in Nat
  BY UnderWay DEF Decide
<1>2. /\ d.status = "REJECTED" \/ ~Allowed(order) => Abort("NEXT")
      /\ ~(d.status = "REJECTED" \/ ~Allowed(order)) /\ refused =>
           /\ account' = Settled(filled) /\ mark' = bar.close /\ step' = "STOP_REFUSED"
           /\ protection' = Synced(protection, filled)
           /\ clock' = clock /\ bar' = bar /\ folio' = folio /\ left' = left /\ seen' = seen
      /\ ~(d.status = "REJECTED" \/ ~Allowed(order)) /\ ~refused =>
           /\ Becomes(registered.book, bar.close, registered.protection, clock)
           /\ step' = "NEXT" /\ clock' = clock /\ bar' = bar /\ left' = left
  <2> HIDE DEF d, order, filled
  <2> QED
    BY DEF Decide, Abort, d, order, filled, ticked
<1>3. SUFFICES ASSUME d.status # "REJECTED", Allowed(order)
               PROVE  /\ clock' = clock /\ bar' = bar /\ d.qty \in Nat \ {0}
                      /\ PB!Magnitude(Held(account').qty - q) = d.qty
                      /\ \/ /\ step' = "STOP_REFUSED" /\ account' \in Account({<<>>}) /\ mark' = bar.close
                            /\ protection' \in Protection /\ protection'.opened <= clock
                            /\ folio' = folio /\ left' = left /\ seen' = seen
                         \/ /\ step' = "NEXT" /\ left' = left
                            /\ \E b \in Account(Executed), p \in Protection :
                                 p.opened <= clock /\ Covers(p, b) /\ Becomes(b, bar.close, p, clock)
  BY <1>2
<1>4. d.qty \in Nat \ {0}
  BY <1>1, <1>3, JudgedTrue
<1> HIDE DEF d
<1>5. signal.side \in {"LONG", "SHORT"}
  BY ReplayAssumption
<1>6. order \in OneOrder("PENDING") /\ order.qty = d.qty
      /\ order.side = IF signal.side = "LONG" THEN "BUY" ELSE "SELL"
  BY <1>4, <1>5 DEF OrderFor, OneOrder
<1>7. /\ signed \in Int /\ signed # 0 /\ signal.side = SideOf(signed)
      /\ PB!Magnitude(signed) = d.qty
  <2>1. signed = IF signal.side = "LONG" THEN d.qty ELSE -d.qty
    BY <1>5, <1>6 DEF PB!Signed
  <2> HIDE DEF signed, order
  <2> QED
    BY <1>4, <1>5, <2>1 DEF SideOf, PB!Magnitude
<1>8. ticked = account
  <2>1. CASE q = 0
    BY <1>1, <2>1, FlatStays
  <2>2. CASE q # 0
    <3>1. ~PB!Hit(q, protection.stop, bar.close)
      BY <1>1 DEF ReplayInv, StageHolds
    <3>2. account.stops[S].price = protection.stop
      BY <1>1, <2>2, Zenon DEF Covers
    <3> QED
      BY <1>1, <3>1, <3>2, StopSleeps
  <2> QED
    BY <2>1, <2>2
<1>9. level \in Int
  <2> HIDE DEF order
  <2>1. bar.close * ReplaySlippage \in Nat
    BY <1>1, ReplayAssumption
  <2> DEFINE n == bar.close * ReplaySlippage
  <2> HIDE DEF n
  <2>2. n \div 10000 \in Int
    BY <2>1 DEF n
  <2> QED
    BY <1>1, <2>2 DEF PB!MarketPrice, n
<1>10. filled = PB!Fill(PB!Placed(account, order), 1, level, 0)
  <2>1. PB!Placed(account, order).orders[1] = order
    <3>1. account.orders = <<>> /\ PB!Placed(account, order).orders = Append(account.orders, order)
      BY <1>1 DEF Account, PB!Placed
    <3> HIDE DEF order
    <3> QED
      BY <3>1
  <2> HIDE DEF order
  <2> QED
    BY <1>8, <2>1 DEF PB!FillMarket
<1> HIDE DEF order, q, ticked, level, filled, signed
<1>11. /\ filled \in Account(Executed)
       /\ Held(filled) = PB!PositionAfter(Held(account), signed, level)
       /\ filled.stops[S] = IF PB!StopSurvives(Held(account), signed) THEN account.stops[S] ELSE PB!NoStop
  BY <1>1, <1>6, <1>9, <1>10, FillOne DEF signed
<1>12. /\ registered.book \in Account(Executed) /\ registered.protection \in Protection
       /\ registered.protection.opened <= clock /\ Covers(registered.protection, registered.book)
       /\ Held(registered.book) = Held(filled)
       /\ Synced(protection, filled) \in Protection /\ Synced(protection, filled).opened <= clock
  BY <1>1, <1>7, <1>9, <1>11, RegisteredCovers, SMTT(40)
<1> HIDE DEF registered
<1>13. PB!Magnitude(Held(filled).qty - q) = d.qty
  <2>1. PB!PositionAfter(Held(account), signed, level).qty = q + signed
    BY Zenon DEF PB!PositionAfter, q
  <2>2. Held(filled).qty - q = signed
    BY <1>1, <1>7, <1>11, <2>1
  <2> QED
    BY <1>7, <2>2
<1>14. CASE refused
  <2>1. /\ account' = Settled(filled) /\ mark' = bar.close /\ step' = "STOP_REFUSED"
        /\ protection' = Synced(protection, filled)
        /\ clock' = clock /\ bar' = bar /\ folio' = folio /\ left' = left /\ seen' = seen
    BY <1>2, <1>3, <1>14
  <2>2. Settled(filled) \in Account({<<>>}) /\ Held(Settled(filled)) = Held(filled)
    BY <1>11, AccountParts
  <2>3. account' \in Account({<<>>}) /\ Held(account') = Held(filled)
    BY <2>1, <2>2
  <2> HIDE DEF refused
  <2> QED
    BY <1>4, <1>12, <1>13, <2>1, <2>3
<1>15. CASE ~refused
  <2>1. /\ Becomes(registered.book, bar.close, registered.protection, clock)
        /\ step' = "NEXT" /\ clock' = clock /\ bar' = bar /\ left' = left
    BY <1>2, <1>3, <1>15
  <2>2. account' = Settled(registered.book)
    BY <2>1 DEF Becomes
  <2>3. Held(account') = Held(filled)
    BY <1>12, <2>2, AccountParts
  <2> HIDE DEF refused
  <2> QED
    BY <1>4, <1>12, <1>13, <2>1, <2>3
<1> QED
  BY <1>14, <1>15

LEMMA DecideKeeps ==
  ASSUME ReplayInv, NEW signal \in Signals, Decide(signal)
  PROVE  ReplayInv'
<1>1. /\ step = "DECIDE" /\ bar \in Bars /\ bar.close \in Nat
  BY UnderWay DEF Decide
<1>2. clock \in 0 .. MaxCandles /\ folio.day # None
  <2>1. clock \in 0 .. MaxCandles /\ clock \in Nat /\ None \notin Int
    BY ReplayAssumption, NoLimitAssumption DEF ReplayInv, ReplayShape
  <2>2. Day(clock) \in Nat
    BY <2>1, Days
  <2> QED
    BY <1>1, <2>1, <2>2 DEF ReplayInv, SeenSoFar
<1>3. CASE Abort("NEXT")
  BY <1>1, <1>2, <1>3, AbortKeeps
<1>4. CASE /\ clock' = clock /\ bar' = bar
           /\ step' = "STOP_REFUSED" /\ account' \in Account({<<>>}) /\ mark' = bar.close
           /\ protection' \in Protection /\ protection'.opened <= clock
           /\ folio' = folio /\ left' = left /\ seen' = seen
  BY <1>1, <1>4 DEF ReplayInv, ReplayShape
<1>5. CASE /\ clock' = clock /\ bar' = bar /\ step' = "NEXT"
           /\ \E b \in Account(Executed), p \in Protection :
                p.opened <= clock /\ Covers(p, b) /\ Becomes(b, bar.close, p, clock)
  <2>1. PICK b \in Account(Executed) : \E p \in Protection :
                p.opened <= clock /\ Covers(p, b) /\ Becomes(b, bar.close, p, clock)
    BY <1>5
  <2>2. PICK p \in Protection : p.opened <= clock /\ Covers(p, b) /\ Becomes(b, bar.close, p, clock)
    BY <2>1
  <2>3. At' /\ StageHolds'
    BY <1>1, <1>2, <1>5 DEF At, StageHolds
  <2> DEFINE m == bar.close
  <2>4. m \in Nat /\ Becomes(b, m, p, clock)
    BY <1>1, <2>2
  <2> HIDE DEF m
  <2> QED
    BY <1>1, <1>2, <1>5, <2>2, <2>3, <2>4, EventKeeps
<1> QED
  BY <1>3, <1>4, <1>5, DecideMoves

LEMMA PassKeeps ==
  ASSUME ReplayInv, Pass
  PROVE  ReplayInv'
<1>1. step = "DECIDE" /\ Abort("NEXT")
  BY DEF Pass, Abort
<1>2. folio.day # None
  <2>1. Day(clock) \in Nat /\ None \notin Int
    <3>1. clock \in Nat /\ None \notin Int
      BY ReplayAssumption, NoLimitAssumption DEF ReplayInv, ReplayShape
    <3> QED
      BY <3>1, Days
  <2> QED
    BY <1>1, <2>1 DEF ReplayInv, SeenSoFar
<1> QED
  BY <1>1, <1>2, AbortKeeps

LEMMA EndKeeps ==
  ASSUME ReplayInv, CancelReplay \/ ReplayEnds
  PROVE  ReplayInv'
<1>1. step = "NEXT" /\ (Abort("CANCELLED") \/ Abort("COMPLETED"))
  BY DEF CancelReplay, ReplayEnds, Abort
<1> QED
  BY <1>1, AbortKeeps

LEMMA ReplayKeeps == ReplayInv /\ [ReplayNext]_replayVars => ReplayInv'
<1> SUFFICES ASSUME ReplayInv, [ReplayNext]_replayVars PROVE ReplayInv'
  OBVIOUS
<1>1. ASSUME NEW o \in Bars, NextCandle(o) PROVE ReplayInv'
  BY <1>1, NextKeeps
<1>2. CASE CandleOpen
  BY <1>2, OpenKeeps
<1>3. CASE CandleClose
  BY <1>3, CloseKeeps
<1>4. CASE Pass
  BY <1>4, PassKeeps
<1>5. ASSUME NEW signal \in Signals, Decide(signal) PROVE ReplayInv'
  BY <1>5, DecideKeeps
<1>6. CASE CancelReplay \/ ReplayEnds
  BY <1>6, EndKeeps
<1>7. CASE UNCHANGED replayVars
  <2>1. /\ step' = step /\ clock' = clock /\ bar' = bar /\ account' = account /\ mark' = mark
        /\ protection' = protection /\ folio' = folio /\ left' = left /\ seen' = seen
    BY <1>7 DEF replayVars
  <2>2. ReplayShape'
    BY <2>1 DEF ReplayInv, ReplayShape
  <2>3. StartOf(clock)' = StartOf(clock)
    BY <2>1, Zenon DEF StartOf, Before
  <2>4. Resolution(protection)' = Resolution(protection)
    BY <2>1, Zenon DEF Resolution, Reaches, Best, Worst, FirstTarget, NoExit
  <2>5. step # "STOP_REFUSED" => SeenSoFar'
    BY <2>1, <2>3 DEF ReplayInv, SeenSoFar
  <2>6. step # "STOP_REFUSED" => StageHolds'
    BY <2>1, <2>4 DEF ReplayInv, StageHolds, LeavesAtOpen, Held
  <2>7. step # "STOP_REFUSED" => Covers(protection, account)' /\ FolioMirrors' /\ PeakIsHighest'
    BY <2>1 DEF ReplayInv, Covers, TargetsBeyond, FolioMirrors, PeakIsHighest, Held, Equity, OpenRisk
  <2> QED
    BY <2>1, <2>2, <2>5, <2>6, <2>7 DEF ReplayInv
<1> QED
  BY <1>1, <1>2, <1>3, <1>4, <1>5, <1>6, <1>7 DEF ReplayNext

LEMMA ReplayStarts == ReplayInit => ReplayInv
<1> SUFFICES ASSUME ReplayInit PROVE ReplayInv
  OBVIOUS
<1>1. /\ clock = 0 /\ bar = NoBar /\ step = "NEXT" /\ account = EmptyAccount /\ mark = 0
      /\ protection = Unprotected /\ seen = [t \in 0 .. MaxCandles |-> None]
  BY DEF ReplayInit
<1>2. folio = [equity |-> ReplayBalance, dayStart |-> ReplayBalance, peak |-> ReplayBalance,
               dailyPnl |-> 0, open |-> 0, openRisk |-> 0, correlatedRisk |-> 0, gross |-> 0,
               day |-> None]
  BY DEF ReplayInit
<1>3. ReplayBalance \in Nat /\ MaxCandles \in Nat
  BY ReplayAssumption
<1>4. /\ account.pos = [s \in {S} |-> [qty |-> 0, avg |-> 0]] /\ account.cash = ReplayBalance
      /\ account.stops = [s \in {S} |-> PB!NoStop] /\ PB!NoStop \in Stops
      /\ account \in Account({<<>>})
  <2>1. PB!NoStop \in Stops
    BY DEF PB!NoStop, Stops
  <2>2. /\ account.pos = [s \in {S} |-> [qty |-> 0, avg |-> 0]] /\ account.cash = ReplayBalance
        /\ account.stops = [s \in {S} |-> PB!NoStop] /\ account.orders = <<>>
    BY <1>1 DEF EmptyAccount, PB!NoStop
  <2>3. account.pos \in Positions /\ account.stops \in [{S} -> Stops]
    BY <2>1, <2>2 DEF Positions
  <2>4. account = [orders |-> account.orders, cash |-> account.cash, fees |-> account.fees,
                   realized |-> account.realized, pos |-> account.pos, stops |-> account.stops]
        /\ account.fees = 0 /\ account.realized = 0
    BY <1>1 DEF EmptyAccount
  <2> QED
    BY <1>3, <2>1, <2>2, <2>3, <2>4 DEF Account
<1>5. Held(account).qty = 0 /\ account.stops[S] = PB!NoStop
  BY <1>4 DEF Held
<1>6. ReplayShape
  <2>1. folio \in Folio
    BY <1>2, <1>3 DEF Folio
  <2> QED
    BY <1>1, <1>3, <1>4, <2>1, UnprotectedShape DEF ReplayShape
<1>7. Covers(protection, account)
  BY <1>1, <1>5, GoneIsUncovered
<1>8. FolioMirrors
  <2>1. OpenRisk(Unprotected) = 0
    BY DEF OpenRisk, Unprotected, PB!Magnitude
  <2>2. Equity(account, mark) = ReplayBalance
    BY <1>1, <1>3, <1>4, <1>5 DEF Equity
  <2> QED
    BY <1>1, <1>2, <1>3, <1>5, <2>1, <2>2 DEF FolioMirrors, PB!Magnitude
<1>9. SeenSoFar /\ PeakIsHighest
  BY <1>1, <1>2 DEF SeenSoFar, PeakIsHighest
<1>10. StageHolds
  BY <1>1 DEF StageHolds
<1> QED
  BY <1>6, <1>7, <1>8, <1>9, <1>10 DEF ReplayInv

LEMMA ReplayInvAlways == ReplaySpec => []ReplayInv
<1>1. ReplayInit => ReplayInv
  BY ReplayStarts
<1>2. ReplayInv /\ [ReplayNext]_replayVars => ReplayInv'
  BY ReplayKeeps
<1> QED
  BY <1>1, <1>2, PTL DEF ReplaySpec

-----------------------------------------------------------------------------
(* Theorems *)

\* After every event of a replay the position the runner thinks it has, with its stop
\* and targets, is the one the broker has, and the replay never gives up for one of
\* the reasons its lifecycle should not meet.
THEOREM ProtectionAlwaysHolds == ReplaySpec => []ProtectionHolds
<1>1. ReplayInv => ProtectionHolds
  <2> SUFFICES ASSUME ReplayInv PROVE ProtectionHolds
    OBVIOUS
  <2>1. /\ step \in {"NEXT", "OPEN", "CLOSE", "DECIDE", "CANCELLED", "COMPLETED", "TARGET_SIDE", "STOP_REFUSED"}
        /\ clock \in 0 .. MaxCandles /\ bar \in Bars \cup {NoBar}
        /\ account \in Account({<<>>}) /\ protection \in Protection /\ protection.opened <= clock
    BY DEF ReplayInv, ReplayShape
  <2>2. ReplayTypeOK
    <3>1. account.orders = <<>> /\ account.cash \in Int
      BY <2>1 DEF Account
    <3>2. protection.side \in {"LONG", "SHORT", "FLAT"} /\ protection.opened \in 0 .. clock
      BY <2>1, ReplayAssumption DEF Protection
    <3> QED
      BY <2>1, <3>1, <3>2 DEF ReplayTypeOK, Aborts
  <2>3. ProtectionMatchesBroker
    BY DEF ReplayInv, Covers, ProtectionMatchesBroker
  <2>4. OnlyKnownAborts
    BY <2>1 DEF OnlyKnownAborts
  <2> QED
    BY <2>2, <2>3, <2>4 DEF ProtectionHolds
<1> QED
  BY <1>1, ReplayInvAlways, PTL

\* An exit leaves neither a position nor a stop behind and never earns more than the
\* candle allows.
THEOREM ExitsAlwaysAdverse == ReplaySpec => ExitIsAdverse
<1> DEFINE Exits == left'.reason # "NONE" /\ left'.reason # left.reason
           Adverse ==
             LET p == protection
                 stopped == /\ Reaches(p.side, -1, Worst(p.side), p.stop)
                            /\ ~Reaches(p.side, 1, bar.open, FirstTarget(p))
                 worst == IF p.side = "LONG" THEN Lesser(p.stop, bar.open)
                          ELSE IF p.stop > bar.open THEN p.stop ELSE bar.open
                 level == IF stopped THEN worst ELSE FirstTarget(p)
             IN  /\ Held(account').qty = 0 /\ account'.stops[S] = PB!NoStop
                 /\ account'.cash - account.cash <= Held(account).qty * level
<1>1. ASSUME NEW c, LeftWell(protection, account, c), account' = Settled(c) PROVE Adverse
  <2>1. /\ Held(Settled(c)) = Held(c) /\ Settled(c).stops = c.stops /\ Settled(c).cash = c.cash
    BY <1>1, AccountParts DEF LeftWell
  <2> QED
    BY <1>1, <2>1 DEF LeftWell, ExitLevel
<1> HIDE DEF Adverse
<1>2. ASSUME ReplayInv, [ReplayNext]_replayVars, Exits PROVE Adverse
  <2>1. CASE CandleOpen
    <3>1. ~Abort("TARGET_SIDE") /\ left' # NoExit
      BY <1>2 DEF Abort, NoExit
    <3>2. PICK c \in Account(Executed) : \E m \in Nat :
            LeftWell(protection, account, c) /\ Becomes(c, m, Unprotected, clock)
      BY <1>2, <2>1, <3>1, OpenMoves
    <3> QED
      BY <1>1, <3>2 DEF Becomes
  <2>2. CASE CandleClose
    <3>1. ~Abort("TARGET_SIDE") /\ left' # left
      BY <1>2 DEF Abort
    <3>2. PICK c \in Account(Executed) :
            LeftWell(protection, account, c) /\ Becomes(c, bar.close, Unprotected, clock + 1)
      BY <1>2, <2>2, <3>1, CloseMoves
    <3> QED
      BY <1>1, <3>2 DEF Becomes
  <2>3. ASSUME NEW o \in Bars, NextCandle(o) PROVE FALSE
    BY <1>2, <2>3 DEF NextCandle, NoExit
  <2>4. ASSUME NEW signal \in Signals, Decide(signal) PROVE FALSE
    <3>1. left' = left
      BY <1>2, <2>4, DecideMoves DEF Abort
    <3> QED
      BY <1>2, <3>1
  <2>5. CASE Pass \/ CancelReplay \/ ReplayEnds
    BY <1>2, <2>5 DEF Pass, CancelReplay, ReplayEnds
  <2>6. CASE UNCHANGED replayVars
    BY <1>2, <2>6 DEF replayVars
  <2> QED
    BY <1>2, <2>1, <2>2, <2>3, <2>4, <2>5, <2>6 DEF ReplayNext
<1>3. ReplayInv /\ [ReplayNext]_replayVars => [Exits => Adverse]_replayVars
  BY <1>2
<1> QED
  BY <1>3, ReplayInvAlways, PTL DEF ReplaySpec, ExitIsAdverse, Exits, Adverse

\* Every decision buys what the risk engine allows on the account as it is, with the
\* highest equity observed as its peak.
THEOREM AlwaysJudgedOnTrueAccount == ReplaySpec => JudgedOnTrueAccount
<1> DEFINE Honest ==
             \A signal \in Signals :
               Decide(signal) /\ account' # account =>
                 /\ PB!Magnitude(Held(account').qty - Held(account).qty)
                      = Judged(signal, TrueAccount).qty
                 /\ \A equity \in Observed : equity <= folio.peak
<1>1. ASSUME ReplayInv, NEW signal \in Signals, Decide(signal), account' # account
      PROVE  /\ PB!Magnitude(Held(account').qty - Held(account).qty) = Judged(signal, TrueAccount).qty
             /\ \A equity \in Observed : equity <= folio.peak
  <2>1. step = "DECIDE" /\ ~Abort("NEXT")
    BY <1>1 DEF Decide, Abort
  <2>2. PB!Magnitude(Held(account').qty - Held(account).qty) = Judged(signal, folio).qty
    BY <1>1, <2>1, DecideMoves
  <2>3. Judged(signal, folio) = Judged(signal, TrueAccount)
    BY <1>1, <2>1, JudgedTrue
  <2>4. PeakIsHighest /\ DOMAIN seen = 0 .. MaxCandles
    BY <1>1, <2>1 DEF ReplayInv, ReplayShape
  <2>5. \A equity \in Observed : equity <= folio.peak
    BY <2>4 DEF Observed, PeakIsHighest
  <2> QED
    BY <2>2, <2>3, <2>5
<1>2. ReplayInv /\ [ReplayNext]_replayVars => [Honest]_replayVars
  BY <1>1
<1> QED
  BY <1>2, ReplayInvAlways, PTL DEF ReplaySpec, JudgedOnTrueAccount

=============================================================================

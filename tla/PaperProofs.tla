---------------------------- MODULE PaperProofs ----------------------------
(* What is proved of trading on paper.  The desks, for any fleet, plans,    *)
(* profiles, markets and overlap of runs: an entry is the largest safe      *)
(* size, a signal enters a book once, and nothing is opened while a stop of *)
(* new trades lasts.  The broker, for any symbols, prices and orders: its   *)
(* stops protect what is held, and its limits fill when they are crossed.   *)
EXTENDS PaperBroker, PaperPipeline, SetProofs, SequenceTheorems

-----------------------------------------------------------------------------
(* Division *)

\* What floor division leaves is less than the divisor.
LEMMA DivBounds ==
  ASSUME NEW a \in Int, NEW b \in Nat \ {0}
  PROVE  a \div b \in Int /\ (a \div b) * b <= a /\ a < (a \div b + 1) * b
OBVIOUS

\* A multiple leaves nothing.
LEMMA MultipleMod ==
  ASSUME NEW k \in Int, NEW b \in Nat \ {0}
  PROVE  (k * b) % b = 0
OBVIOUS

\* So many steps of a size cost no more than the budget, one more costs more.
LEMMA StepsOfBudget ==
  ASSUME NEW budget \in Int, NEW unit \in Nat \ {0}, NEW step \in Nat \ {0}, NEW n \in Int
  PROVE  LET steps == budget \div (unit * step)
         IN  /\ steps \in Int
             /\ n <= steps => unit * (n * step) <= budget
             /\ n > steps => unit * (n * step) > budget
<1> DEFINE d == unit * step
           steps == budget \div d
<1>1. d \in Nat \ {0}
  OBVIOUS
<1> HIDE DEF d
<1>2. steps \in Int /\ steps * d <= budget /\ budget < (steps + 1) * d
  BY <1>1, DivBounds
<1>3. unit * (n * step) = n * d
  BY DEF d
<1> HIDE DEF steps
<1>4. ASSUME n <= steps PROVE n * d <= budget
  <2>1. n * d <= steps * d
    BY <1>1, <1>2, <1>4
  <2> QED
    BY <1>1, <1>2, <2>1
<1>5. ASSUME n > steps PROVE n * d > budget
  <2>1. (steps + 1) * d <= n * d
    BY <1>1, <1>2, <1>5
  <2> QED
    BY <1>1, <1>2, <2>1
<1> QED
  BY <1>2, <1>3, <1>4, <1>5 DEF steps, d

-----------------------------------------------------------------------------
(* The size of a position *)

Proposal == [side : {"LONG", "SHORT"}, entry : Nat, stop : Nat, leverage : Nat, rr : Nat, expires : Nat]
Portfolio == [equity : Int, dayStart : Int, peak : Int, dailyPnl : Int, open : Int,
              openRisk : Int, correlatedRisk : Int, gross : Int]

\* What a preflight that refuses nothing has established.
LEMMA PreflightPassed ==
  ASSUME NEW p \in Proposal, NEW f \in Portfolio, NEW profile \in Profile, NEW m \in Constraints,
         NEW killed \in BOOLEAN, NEW now \in Int,
         Preflight(p, f, profile, m, killed, now) = "NONE"
  PROVE  /\ ~killed
         /\ {profile.trade, profile.portfolio, profile.correlated} \subseteq 0 .. 100
         /\ Leverage(profile, m) \in Int
         /\ f.equity \in Nat \ {0}
         /\ p.entry \in Nat \ {0} /\ Distance(p) \in Nat \ {0}
         /\ m.step \in Nat \ {0} /\ m.minQty \in Nat
         /\ m.maxQty # None => m.maxQty \in Nat \ {0}
<1>1. /\ Complete(profile) /\ ValidProfile(profile) /\ ~killed /\ ValidPortfolio(f)
      /\ ~(p.entry <= 0) /\ ~(p.stop <= 0 \/ p.stop = p.entry) /\ ValidMarket(m)
  BY DEF Preflight
<1>2. {profile.trade, profile.portfolio, profile.correlated} \subseteq 0 .. 100
  BY <1>1 DEF ValidProfile
<1>3. profile.leverage \in Int
  BY <1>1 DEF Complete, Required, Profile
<1>4. Leverage(profile, m) \in Int
  BY <1>3 DEF Leverage, Lesser, Constraints
<1>5. p.entry \in Nat \ {0} /\ Distance(p) \in Nat \ {0}
  BY <1>1 DEF Proposal, Distance
<1>6. f.equity \in Nat \ {0}
  BY <1>1 DEF ValidPortfolio, Portfolio
<1>7. /\ m.step \in Nat \ {0} /\ m.minQty \in Nat
      /\ m.maxQty # None => m.maxQty \in Nat \ {0}
  BY <1>1 DEF ValidMarket, Constraints
<1> QED
  BY <1>1, <1>2, <1>4, <1>5, <1>6, <1>7

\* The size found is the largest that keeps every limit, whatever the limits, the
\* market's step and its maximum.
LEMMA SizeIsLargestSafe ==
  ASSUME NEW p \in Proposal, NEW f \in Portfolio, NEW profile \in Profile, NEW m \in Constraints,
         NEW killed \in BOOLEAN, NEW now \in Int,
         Evaluate(p, f, profile, m, killed, now).status # "REJECTED"
  PROVE  /\ ~killed
         /\ Evaluate(p, f, profile, m, killed, now).qty \in Nat \ {0}
         /\ LargestSafe(Evaluate(p, f, profile, m, killed, now).qty, p, f, profile, m)
<1> DEFINE qty == Quantity(p, f, profile, m)
           steps == Steps(p, f, profile, m)
           dist == Distance(p)
           step == m.step
           risk == AllowedRisk(f, profile)
           left == NotionalLeft(f, profile, m)
           byRisk == risk \div (100 * dist * step)
           byNotional == left \div (p.entry * step)
<1>1. /\ Preflight(p, f, profile, m, killed, now) = "NONE"
      /\ SizeRefusal(p, f, profile, m) = "NONE"
      /\ Evaluate(p, f, profile, m, killed, now).qty = qty
  BY DEF Evaluate, Rejected, Authorized
<1>2. /\ ~killed
      /\ {profile.trade, profile.portfolio, profile.correlated} \subseteq 0 .. 100
      /\ Leverage(profile, m) \in Int
      /\ f.equity \in Nat \ {0}
      /\ p.entry \in Nat \ {0} /\ dist \in Nat \ {0}
      /\ step \in Nat \ {0} /\ m.minQty \in Nat
      /\ m.maxQty # None => m.maxQty \in Nat \ {0}
  BY <1>1, PreflightPassed
<1>3. /\ TradeBudget(f, profile) \in Int /\ PortfolioBudget(f, profile) \in Int
      /\ CorrelatedBudget(f, profile) \in Int /\ risk \in Int /\ left \in Int
      /\ f.openRisk \in Int /\ f.correlatedRisk \in Int /\ f.gross \in Int
  <2>1. f.openRisk \in Int /\ f.correlatedRisk \in Int /\ f.gross \in Int
    BY DEF Portfolio
  <2>2. /\ TradeBudget(f, profile) \in Int /\ PortfolioBudget(f, profile) \in Int
        /\ CorrelatedBudget(f, profile) \in Int /\ left \in Int
    BY <1>2, <2>1 DEF TradeBudget, PortfolioBudget, CorrelatedBudget, NotionalLeft
  <2> QED
    BY <2>1, <2>2 DEF AllowedRisk, Lesser
<1>4. /\ qty > 0 /\ 100 * qty * dist <= TradeBudget(f, profile)
      /\ 100 * qty * dist <= PortfolioBudget(f, profile)
      /\ 100 * qty * dist <= CorrelatedBudget(f, profile)
      /\ qty = steps * step /\ steps \in Int /\ qty \in Nat \ {0}
  <2>1. byRisk \in Int /\ byNotional \in Int
    BY <1>2, <1>3, DivBounds
  <2>2. m.maxQty # None => m.maxQty \div step \in Int
    BY <1>2, DivBounds
  <2>3. steps \in Int
    BY <2>1, <2>2 DEF Steps, Lesser
  <2>4. qty = steps * step /\ qty \in Int
    BY <1>2, <2>3 DEF Quantity
  <2>5. /\ ~(qty <= 0) /\ ~(100 * qty * dist > TradeBudget(f, profile))
        /\ ~(100 * qty * dist > PortfolioBudget(f, profile))
        /\ ~(100 * qty * dist > CorrelatedBudget(f, profile))
    BY <1>1 DEF SizeRefusal
  <2>6. 100 * qty * dist \in Int
    BY <1>2, <2>4
  <2> QED
    BY <1>3, <2>3, <2>4, <2>5, <2>6
<1>5. qty % step = 0
  BY <1>2, <1>4, MultipleMod
<1>6. \A n \in Int : /\ n <= byRisk => 100 * dist * (n * step) <= risk
                     /\ n > byRisk => 100 * dist * (n * step) > risk
  <2> TAKE n \in Int
  <2>1. 100 * dist \in Nat \ {0}
    BY <1>2
  <2> QED
    BY <1>2, <1>3, <2>1, StepsOfBudget
<1>7. \A n \in Int : /\ n <= byNotional => p.entry * (n * step) <= left
                     /\ n > byNotional => p.entry * (n * step) > left
  BY <1>2, <1>3, StepsOfBudget
<1>8. m.maxQty # None => \A n \in Int : /\ n <= m.maxQty \div step => n * step <= m.maxQty
                                        /\ n > m.maxQty \div step => n * step > m.maxQty
  <2>1. ASSUME m.maxQty # None, NEW n \in Int
        PROVE  /\ n <= m.maxQty \div step => n * step <= m.maxQty
               /\ n > m.maxQty \div step => n * step > m.maxQty
    <3> DEFINE most == m.maxQty
    <3>1. most \in Int /\ 1 \in Nat \ {0}
      BY <1>2, <2>1
    <3> HIDE DEF most, step
    <3>2. /\ n <= most \div (1 * step) => 1 * (n * step) <= most
          /\ n > most \div (1 * step) => 1 * (n * step) > most
      BY <1>2, <3>1, StepsOfBudget
    <3>3. 1 * step = step /\ 1 * (n * step) = n * step
      BY <1>2
    <3> QED
      BY <3>2, <3>3 DEF most, step
  <2> QED
    BY <2>1
<1>9. /\ steps <= byRisk /\ steps <= byNotional /\ (m.maxQty # None => steps <= m.maxQty \div step)
      /\ steps = byRisk \/ steps = byNotional \/ (m.maxQty # None /\ steps = m.maxQty \div step)
  <2>1. byRisk \in Int /\ byNotional \in Int
    BY <1>2, <1>3, DivBounds
  <2>2. m.maxQty # None => m.maxQty \div step \in Int
    BY <1>2, DivBounds
  <2>3. steps = IF m.maxQty = None THEN Lesser(byRisk, byNotional)
                ELSE Lesser(Lesser(byRisk, byNotional), m.maxQty \div step)
    BY DEF Steps
  <2> HIDE DEF byRisk, byNotional, steps
  <2> QED
    BY <2>1, <2>2, <2>3 DEF Lesser
<1> HIDE DEF steps, qty, dist, step, risk, left, byRisk, byNotional
<1>10. 100 * qty * dist = 100 * dist * (steps * step) /\ qty * p.entry = p.entry * (steps * step)
  BY <1>2, <1>4
<1>11. qty * p.entry <= left /\ (m.maxQty # None => qty <= m.maxQty)
  BY <1>4, <1>7, <1>8, <1>9, <1>10
<1>12. \A q \in Int :
         Safe(q, p, f, profile, m) <=>
           /\ 100 * q * dist <= TradeBudget(f, profile)
           /\ 100 * q * dist <= PortfolioBudget(f, profile)
           /\ 100 * q * dist <= CorrelatedBudget(f, profile)
           /\ q * p.entry <= left
           /\ m.maxQty # None => q <= m.maxQty
  <2> TAKE q \in Int
  <2>1. 100 * (f.openRisk + q * dist) <= f.equity * profile.portfolio <=>
          100 * q * dist <= PortfolioBudget(f, profile)
    BY <1>2, <1>3 DEF PortfolioBudget
  <2>2. 100 * (f.correlatedRisk + q * dist) <= f.equity * profile.correlated <=>
          100 * q * dist <= CorrelatedBudget(f, profile)
    BY <1>2, <1>3 DEF CorrelatedBudget
  <2>3. f.gross + q * p.entry <= f.equity * Leverage(profile, m) <=> q * p.entry <= left
    BY <1>2, <1>3 DEF NotionalLeft, left
  <2> QED
    BY <2>1, <2>2, <2>3 DEF Safe, dist
<1>13. Safe(qty, p, f, profile, m)
  BY <1>4, <1>11, <1>12
<1>14. ~Safe(qty + step, p, f, profile, m)
  <2>1. /\ qty + step \in Int /\ qty + step = (steps + 1) * step
        /\ 100 * (qty + step) * dist = 100 * dist * ((steps + 1) * step)
        /\ (qty + step) * p.entry = p.entry * ((steps + 1) * step)
    BY <1>2, <1>4
  <2>2. CASE steps = byRisk
    <3>1. 100 * dist * ((steps + 1) * step) > risk
      BY <1>4, <1>6, <2>2
    <3>2. \/ risk = TradeBudget(f, profile) \/ risk = PortfolioBudget(f, profile)
          \/ risk = CorrelatedBudget(f, profile)
      BY DEF risk, AllowedRisk, Lesser
    <3>3. 100 * dist * ((steps + 1) * step) \in Int
      BY <1>2, <1>4
    <3> QED
      BY <1>3, <1>12, <2>1, <3>1, <3>2, <3>3
  <2>3. CASE steps = byNotional
    <3>1. p.entry * ((steps + 1) * step) > left
      BY <1>4, <1>7, <2>3
    <3>2. p.entry * ((steps + 1) * step) \in Int
      BY <1>2, <1>4
    <3> QED
      BY <1>3, <1>12, <2>1, <3>1, <3>2
  <2>4. CASE m.maxQty # None /\ steps = m.maxQty \div step
    <3>1. (steps + 1) * step > m.maxQty
      BY <1>4, <1>8, <2>4
    <3> QED
      BY <1>2, <1>12, <2>1, <2>4, <3>1
  <2> QED
    BY <1>9, <2>2, <2>3, <2>4
<1> QED
  BY <1>1, <1>2, <1>4, <1>5, <1>13, <1>14 DEF LargestSafe, step

-----------------------------------------------------------------------------
(* A tick on a book in which no limit order rests *)

LEMMA LastMember ==
  ASSUME NEW n \in Nat, NEW T \in SUBSET (1 .. n), T # {}
  PROVE  Broker!Max(T) \in T
<1>1. T \subseteq Nat /\ \A i \in T : i <= n
  OBVIOUS
<1>2. Max(T) \in T
  BY <1>1, LargestMember
<1> QED
  BY <1>2 DEF Max, Broker!Max

\* What does not change when any member is taken away is what it is on nothing.
LEMMA DownToNothing ==
  ASSUME NEW n \in Nat, NEW f,
         \A T \in SUBSET (1 .. n) : T # {} => \E i \in T : f[T] = f[T \ {i}]
  PROVE  f[1 .. n] = f[{}]
<1> DEFINE D == 1 .. n
           Bad == {k \in Nat : \E T \in SUBSET D : Cardinality(T) = k /\ f[T] # f[{}]}
<1>1. \A T \in SUBSET D : IsFiniteSet(T) /\ Cardinality(T) \in Nat
  <2>1. IsFiniteSet(D)
    BY FS_Interval
  <2> HIDE DEF D
  <2> SUFFICES ASSUME NEW T \in SUBSET D PROVE IsFiniteSet(T) /\ Cardinality(T) \in Nat
    OBVIOUS
  <2>2. IsFiniteSet(T)
    BY <2>1, FS_Subset, Zenon
  <2> QED
    BY <2>2, FS_CardinalityType, Zenon
<1>2. SUFFICES ASSUME f[D] # f[{}] PROVE FALSE
  OBVIOUS
<1>3. Cardinality(D) \in Bad
  BY <1>1, <1>2
<1>4. PICK k \in Bad : \A j \in Bad : k <= j
  BY <1>3, SmallestMember
<1>5. PICK T \in SUBSET D : Cardinality(T) = k /\ f[T] # f[{}]
  OBVIOUS
<1>6. PICK i \in T : f[T] = f[T \ {i}]
  BY <1>5
<1> DEFINE R == T \ {i}
<1>7. R \in SUBSET D /\ Cardinality(R) = k - 1 /\ Cardinality(R) \in Nat
  BY <1>1, <1>5, FS_RemoveElement
<1>8. Cardinality(R) \in Bad
  BY <1>5, <1>6, <1>7
<1>9. k <= Cardinality(R) /\ k \in Nat
  BY <1>4, <1>8
<1> QED
  BY <1>7, <1>9

\* One step of process_price's loop over the orders, on the positions up to the last.
TickStep(b, price, acc, T) ==
  IF T = {} THEN b
  ELSE IF Broker!IsCrossed(b.orders[[i \in 1 .. Len(b.orders) |-> i][Broker!Max(T)]], "symbol", price)
       THEN Broker!FillLimit(acc[T \ {Broker!Max(T)}], [i \in 1 .. Len(b.orders) |-> i][Broker!Max(T)])
       ELSE acc[T \ {Broker!Max(T)}]

LEMMA AfterLimitsIsFold ==
  ASSUME NEW b, NEW price
  PROVE  LET D == DOMAIN [i \in 1 .. Len(b.orders) |-> i]
         IN  Broker!AfterLimits(b, "symbol", price) =
               (CHOOSE acc : acc = [T \in SUBSET D |-> TickStep(b, price, acc, T)])[D]
BY Zenon DEF Broker!AfterLimits, Broker!FoldLeft, Broker!MapThenFoldSet, TickStep

\* The loop ends as it began.
LEMMA NoLimitNoFill ==
  ASSUME NEW b, NEW price, Len(b.orders) \in Nat,
         \A i \in 1 .. Len(b.orders) : b.orders[i].kind = "MARKET"
  PROVE  Broker!AfterLimits(b, "symbol", price) = b
<1> DEFINE n == Len(b.orders)
           D == DOMAIN [i \in 1 .. n |-> i]
           Recursion(acc) == acc = [T \in SUBSET D |-> TickStep(b, price, acc, T)]
           loop == CHOOSE acc : Recursion(acc)
<1>1. D = 1 .. n /\ n \in Nat
  OBVIOUS
<1>2. ASSUME NEW T \in SUBSET D, T # {}, NEW acc
      PROVE  Broker!Max(T) \in T /\ TickStep(b, price, acc, T) = acc[T \ {Broker!Max(T)}]
  <2>1. Broker!Max(T) \in T
    BY <1>1, <1>2, LastMember
  <2>2. ~Broker!IsCrossed(b.orders[[i \in 1 .. n |-> i][Broker!Max(T)]], "symbol", price)
    BY <1>1, <2>1 DEF Broker!IsCrossed
  <2> QED
    BY <1>2, <2>1, <2>2 DEF TickStep
<1>3. Recursion([T \in SUBSET D |-> b])
  <2> DEFINE same == [T \in SUBSET D |-> b]
  <2>1. ASSUME NEW T \in SUBSET D PROVE TickStep(b, price, same, T) = b
    <3>1. CASE T = {}
      BY <3>1 DEF TickStep
    <3>2. CASE T # {}
      <4>1. TickStep(b, price, same, T) = same[T \ {Broker!Max(T)}]
        BY <1>2, <3>2
      <4>2. T \ {Broker!Max(T)} \in SUBSET D
        OBVIOUS
      <4> QED
        BY <4>1, <4>2
    <3> QED
      BY <3>1, <3>2
  <2> QED
    BY <2>1
<1> HIDE DEF D
<1>4. Recursion(loop)
  BY <1>3, Zenon
<1> HIDE DEF loop
<1>5. \A T \in SUBSET D : loop[T] = TickStep(b, price, loop, T)
  BY <1>4
<1>6. loop[D] = b
  <2>1. \A T \in SUBSET (1 .. n) : T # {} => \E i \in T : loop[T] = loop[T \ {i}]
    BY <1>1, <1>2, <1>5
  <2>2. loop[D] = loop[{}]
    BY <1>1, <2>1, DownToNothing
  <2>3. loop[{}] = b
    BY <1>5 DEF TickStep
  <2> QED
    BY <2>2, <2>3
<1> QED
  BY <1>6, AfterLimitsIsFold, ZenonT(30) DEF loop, D

-----------------------------------------------------------------------------
(* The inductive invariant *)

Orders == [sym : {"symbol"}, side : {"BUY", "SELL"}, kind : {"MARKET"}, qty : Nat \ {0},
           limit : {None}, status : {"FILLED"}]
Places == [{"symbol"} -> [qty : Int, avg : Int]]
NoStops == [{"symbol"} -> {[price |-> None, qty |-> None]}]
DeskBook == [orders : Seq(Orders), cash : Int, fees : Int, realized : Int, pos : Places, stops : NoStops]
Entry == [event : Events, run : Runs, plan : Plans, qty : Nat \ {0}, folio : Portfolio, at : Nat]
Switch == [newTrades : BOOLEAN, ai : BOOLEAN, emergency : BOOLEAN]
Claims == [opportunities : SUBSET Events, proposals : SUBSET (Runs \X Events)]
Desk == [book : DeskBook, folio : Portfolio, switch : Switch, journal : BOOLEAN,
         claimed : Claims, entries : Seq(Entry)]

DeskShape ==
  /\ desks \in [Systems -> Desk]
  /\ runs \in [Runs -> RunState]
  /\ time \in 0 .. EndOfTime
  /\ halted \subseteq Systems

\* A run that is under way has an event; until it has ended it is at one of the systems.
RunPlaced ==
  \A r \in Runs : /\ runs[r].stage \in {"BRANCH", "AGENTS", "EVALUATE"} => runs[r].event \in Events
                  /\ runs[r].stage \notin {"RAISED", "RETURNED"} => runs[r].at \in 1 .. Len(Fleet)

\* A claim names an opportunity that no later run can claim, and an entry its claim.
Orderly(s, d) ==
  /\ \A c \in d.claimed.proposals : c[2] \in d.claimed.opportunities
  /\ \A c1, c2 \in d.claimed.proposals : c1[2] = c2[2] => c1 = c2
  /\ \A i \in 1 .. Len(d.entries) : <<d.entries[i].run, d.entries[i].event>> \in d.claimed.proposals
  /\ \A i, j \in 1 .. Len(d.entries) : d.entries[i].event = d.entries[j].event => i = j
  /\ Len(d.entries) = Len(d.book.orders)
  /\ \A i \in 1 .. Len(d.entries) :
       LargestSafe(d.entries[i].qty, Proposed(d.entries[i].plan, d.entries[i].event),
                   d.entries[i].folio, profileOf[s], marketOf[s])

HaltedAreStopped == \A s \in halted : Blocks(desks[s].switch)

DeskInv == DeskShape /\ RunPlaced /\ HaltedAreStopped /\ \A s \in Systems : Orderly(s, desks[s])

-----------------------------------------------------------------------------
(* The broker's book *)

Books(orders) == [orders : orders, cash : Int, fees : Int, realized : Int, pos : Places, stops : NoStops]

Updated(b, orders, cash, fees, realized, pos, stops) ==
  [b EXCEPT !.orders = orders, !.cash = cash, !.fees = fees, !.realized = realized,
            !.pos = pos, !.stops = stops]

LEMMA BookUpdate ==
  ASSUME NEW Old, NEW New, NEW b \in Books(Old),
         NEW orders \in New, NEW cash, NEW fees, NEW realized, {cash, fees, realized} \subseteq Int,
         NEW pos \in Places, NEW stops \in NoStops
  PROVE  /\ Updated(b, orders, cash, fees, realized, pos, stops) \in Books(New)
         /\ Updated(b, orders, cash, fees, realized, pos, stops).orders = orders
BY DEF Books, Updated

\* Filling the order just placed is as placing it filled.
LEMMA LastFilled ==
  ASSUME NEW T, NEW s \in Seq(T), NEW o
  PROVE  [Append(s, o) EXCEPT ![Len(s) + 1].status = "FILLED"] = Append(s, [o EXCEPT !.status = "FILLED"])
<1> DEFINE n == Len(s) + 1
           filled == [o EXCEPT !.status = "FILLED"]
           L == [Append(s, o) EXCEPT ![n].status = "FILLED"]
           R == Append(s, filled)
<1>1. /\ Append(s, o) \in Seq(T \cup {o}) /\ Len(Append(s, o)) = n /\ n \in Nat
      /\ \A i \in 1 .. n : Append(s, o)[i] = IF i = n THEN o ELSE s[i]
  OBVIOUS
<1>2. /\ R \in Seq(T \cup {filled}) /\ Len(R) = n
      /\ \A i \in 1 .. n : R[i] = IF i = n THEN filled ELSE s[i]
  OBVIOUS
<1>3. DOMAIN Append(s, o) = 1 .. n /\ DOMAIN R = 1 .. n /\ R = [i \in 1 .. n |-> R[i]]
      /\ Append(s, o) = [i \in 1 .. n |-> Append(s, o)[i]]
  <2>1. Append(s, o) \in [1 .. n -> T \cup {o}] /\ R \in [1 .. n -> T \cup {filled}]
    BY <1>1, <1>2, LenProperties
  <2> QED
    BY <2>1
<1>4. L = [i \in 1 .. n |-> IF i = n THEN [Append(s, o)[n] EXCEPT !.status = "FILLED"] ELSE Append(s, o)[i]]
  BY <1>1, <1>3
<1>5. n \in 1 .. n /\ Append(s, o)[n] = o
  BY <1>1
<1> HIDE DEF filled, n
<1>6. L = [i \in 1 .. n |-> IF i = n THEN filled ELSE s[i]]
  BY <1>1, <1>4, <1>5 DEF filled
<1>7. R = [i \in 1 .. n |-> IF i = n THEN filled ELSE s[i]]
  BY <1>2, <1>3
<1> QED
  BY <1>6, <1>7 DEF n, filled

\* A market order filled after a tick leaves a book of filled market orders, one more.
LEMMA BookAfterFill ==
  ASSUME NEW d \in Desk, NEW e \in Events, NEW plan \in Plans, NEW qty \in Nat \ {0}
  PROVE  /\ BookAfter(d, e, OrderOf(plan, qty)) \in DeskBook
         /\ Len(BookAfter(d, e, OrderOf(plan, qty)).orders) = Len(d.book.orders) + 1
<1> DEFINE b == d.book
           price == closeOf[e]
           o == OrderOf(plan, qty)
           placed == Broker!Placed(b, o)
           n == Len(b.orders) + 1
           signed == Broker!Signed(o)
           p == placed.pos["symbol"]
           filled == [o EXCEPT !.status = "FILLED"]
<1>1. /\ b \in Books(Seq(Orders)) /\ b.orders \in Seq(Orders) /\ price \in Int
      /\ b.pos \in Places /\ b.stops \in NoStops
      /\ b.cash \in Int /\ b.fees \in Int /\ b.realized \in Int
  BY DeskAssumption, SMTT(25) DEF Desk, DeskBook, Places, Books
<1>2. /\ o.sym = "symbol" /\ o.side \in {"BUY", "SELL"} /\ o.kind = "MARKET" /\ o.qty = qty
      /\ filled \in Orders
  BY DEF OrderOf, Orders
<1>3. signed \in Int /\ signed # 0
  BY <1>2 DEF Broker!Signed
<1>4. Broker!AfterTick(b, "symbol", price) = b
  <2>1. Len(b.orders) \in Nat /\ \A i \in 1 .. Len(b.orders) : b.orders[i] \in Orders
    BY <1>1
  <2>2. \A x \in Orders : x.kind = "MARKET"
    BY DEF Orders
  <2>3. Broker!AfterLimits(b, "symbol", price) = b
    BY <2>1, <2>2, NoLimitNoFill
  <2>4. b.stops["symbol"] = Broker!NoStop
    BY <1>1 DEF NoStops, Broker!NoStop
  <2> QED
    BY <2>3, <2>4 DEF Broker!AfterTick, Broker!AfterStop
<1>5. /\ placed.orders = Append(b.orders, o)
      /\ placed.cash = b.cash /\ placed.fees = b.fees /\ placed.realized = b.realized
      /\ placed.pos = b.pos /\ placed.stops = b.stops
      /\ placed \in Books({Append(b.orders, o)}) /\ p \in [qty : Int, avg : Int]
  BY <1>1 DEF Broker!Placed, Books, Places
<1>6. Len(placed.orders) = n /\ placed.orders[n] = o /\ n \in Nat
  BY <1>1, <1>5
<1> DEFINE after == Broker!FillMarket(placed, n, price)
           fee == (price * o.qty * 0) \div 10000
           orders == [placed.orders EXCEPT ![n].status = "FILLED"]
           cash == placed.cash - signed * price - fee
           fees == placed.fees + fee
           realized == placed.realized + Broker!Gain(p, signed, price)
           pos == [placed.pos EXCEPT !["symbol"] = Broker!PositionAfter(p, signed, price)]
           stops == [placed.stops EXCEPT !["symbol"] =
                       IF Broker!StopSurvives(p, signed) THEN @ ELSE Broker!NoStop]
<1>7. Broker!MarketPrice(o.side, price) = price
  BY <1>1, <1>2 DEF Broker!MarketPrice
<1>8. fee \in Int
  BY <1>1, <1>2
<1>9. after = Broker!Fill(placed, n, price, 0)
  BY <1>6, <1>7 DEF Broker!FillMarket
<1>10. after = Updated(placed, orders, cash, fees, realized, pos, stops)
  <2> HIDE DEF b, price, o, placed, n, after
  <2> QED
    BY <1>2, <1>6, <1>9 DEF Broker!Fill, Updated
<1>11. Broker!PositionAfter(p, signed, price) \in [qty : Int, avg : Int]
  <2> DEFINE total == Broker!Magnitude(p.qty) + Broker!Magnitude(signed)
             worth == p.avg * Broker!Magnitude(p.qty) + price * Broker!Magnitude(signed)
  <2> HIDE DEF b, price, o, placed, n, after, p, signed
  <2>1. total \in Nat \ {0} /\ worth \in Int /\ p.qty + signed \in Int /\ p.avg \in Int
    BY <1>1, <1>3, <1>5, SMTT(25) DEF Broker!Magnitude
  <2>2. worth \div total \in Int
    BY <2>1, DivBounds
  <2> HIDE DEF total, worth
  <2> QED
    BY <1>1, <2>1, <2>2 DEF Broker!PositionAfter, total, worth
<1>12. realized \in Int
  <2> HIDE DEF b, price, o, placed, n, after, p, signed
  <2> DEFINE closing == IF Broker!Magnitude(signed) < Broker!Magnitude(p.qty)
                        THEN Broker!Magnitude(signed) ELSE Broker!Magnitude(p.qty)
             sized == IF p.qty > 0 THEN closing ELSE -closing
  <2>1. p.qty \in Int /\ p.avg \in Int /\ price - p.avg \in Int
    BY <1>1, <1>5
  <2>2. closing \in Int /\ sized \in Int
    BY <1>3, <2>1 DEF Broker!Magnitude
  <2>3. Broker!Gain(p, signed, price) = IF Broker!Adds(p, signed) THEN 0 ELSE (price - p.avg) * sized
    BY DEF Broker!Gain
  <2> HIDE DEF closing, sized
  <2>4. (price - p.avg) * sized \in Int
    BY <2>1, <2>2
  <2>5. Broker!Gain(p, signed, price) \in Int
    BY <2>3, <2>4
  <2> QED
    BY <1>1, <1>5, <2>5
<1>13. pos \in Places /\ stops \in NoStops
  <2> HIDE DEF b, price, o, placed, n, after, p, signed
  <2>1. placed.pos \in Places /\ placed.stops \in NoStops
    BY <1>1, <1>5
  <2> QED
    BY <1>11, <2>1 DEF Places, NoStops, Broker!NoStop
<1>14. cash \in Int /\ fees \in Int
  <2> HIDE DEF b, price, o, placed, n, after, p, signed, fee
  <2> QED
    BY <1>1, <1>3, <1>5, <1>8
<1>15. orders \in Seq(Orders) /\ Len(orders) = n
  <2>1. orders = Append(b.orders, filled)
    BY <1>1, <1>5, LastFilled
  <2> HIDE DEF b, filled, orders
  <2> QED
    BY <1>1, <1>2, <2>1 DEF n
<1>16. after \in Books(Seq(Orders)) /\ after.orders = orders
  <2> DEFINE Old == {Append(b.orders, o)}
             New == Seq(Orders)
  <2>1. placed \in Books(Old) /\ orders \in New /\ {cash, fees, realized} \subseteq Int
    BY <1>5, <1>12, <1>14, <1>15
  <2> HIDE DEF Old, New, placed, after, orders, cash, fees, realized, pos, stops
  <2>2. after \in Books(New) /\ after.orders = orders
    BY <2>1, <1>10, <1>13, BookUpdate
  <2> QED
    BY <2>2 DEF New
<1>17. BookAfter(d, e, OrderOf(plan, qty)) = after
  BY <1>4, <1>6 DEF BookAfter
<1> QED
  BY <1>15, <1>16, <1>17 DEF Books, DeskBook

-----------------------------------------------------------------------------
(* The claim and the execution                                             *)

LEMMA FleetShape ==
  Len(Fleet) \in Nat \ {0} /\ \A i \in 1 .. Len(Fleet) : Fleet[i] \in Systems
BY DeskAssumption

\* A run whose agents are asked is at a system, whose parts have their types.
LEMMA AtSystem ==
  ASSUME DeskInv, NEW r \in Runs, runs[r].stage \in {"BRANCH", "AGENTS", "EVALUATE"}
  PROVE  /\ System(r) \in Systems /\ desks[System(r)] \in Desk /\ Orderly(System(r), desks[System(r)])
         /\ runs[r].event \in Events /\ runs[r].at \in 1 .. Len(Fleet) /\ runs[r] \in RunState
<1>1. runs[r].event \in Events /\ runs[r].at \in 1 .. Len(Fleet) /\ runs[r] \in RunState
  BY DEF DeskInv, DeskShape, RunPlaced
<1>2. System(r) \in Systems
  BY <1>1, FleetShape DEF System
<1> QED
  BY <1>1, <1>2 DEF DeskInv, DeskShape

LEMMA AnswerPlans ==
  ASSUME NEW e \in Events, NEW answer \in Answers(e)
  PROVE  answer.plan \in Plans
<1>1. AnyPlan \in Plans
  BY DeskAssumption DEF AnyPlan
<1> QED
  BY <1>1 DEF Answers

\* What a run that claims has got past.
LEMMA VerdictPassed ==
  ASSUME NEW r, NEW answer,
         Verdict(r, answer)[1] = "EXECUTED" \/ Verdict(r, answer) = <<"FAILED", "paper_broker">>
  PROVE  /\ ~Claimed(desks[System(r)], r, runs[r].event)
         /\ marketOf[System(r)] # None
         /\ Decision(r, answer.plan).status # "REJECTED"
BY DEF Verdict

\* What the risk engine lets pass is of the largest safe size, and no stop is set.
LEMMA DecisionPassed ==
  ASSUME DeskInv, NEW r \in Runs, runs[r].stage = "AGENTS", NEW plan \in Plans,
         marketOf[System(r)] # None, Decision(r, plan).status # "REJECTED"
  PROVE  LET d == desks[System(r)]
         IN  /\ ~Blocks(d.switch)
             /\ Decision(r, plan).qty \in Nat \ {0}
             /\ LargestSafe(Decision(r, plan).qty, Proposed(plan, runs[r].event), d.folio,
                            profileOf[System(r)], marketOf[System(r)])
<1> DEFINE s == System(r)
           d == desks[s]
           e == runs[r].event
<1>1. s \in Systems /\ d \in Desk /\ e \in Events /\ runs[r] \in RunState
  BY AtSystem
<1>2. Proposed(plan, e) \in Proposal
  BY <1>1, DeskAssumption DEF Proposed, Proposal
<1>3. /\ d.folio \in Portfolio /\ Blocks(d.switch) \in BOOLEAN /\ runs[r].now \in Int
      /\ profileOf[s] \in Profile /\ marketOf[s] \in Constraints
  BY <1>1, DeskAssumption, SMTT(25) DEF Desk, Switch, Blocks, RunState
<1>4. Decision(r, plan) = Evaluate(Proposed(plan, e), d.folio, profileOf[s], marketOf[s],
                                   Blocks(d.switch), runs[r].now)
  BY DEF Decision
<1> QED
  BY <1>2, <1>3, <1>4, SizeIsLargestSafe

\* The first claim of an opportunity keeps the claims apart; no entry is for it yet.
LEMMA ClaimIsOrderly ==
  ASSUME NEW s, NEW d \in Desk, Orderly(s, d), NEW r \in Runs, NEW e \in Events, ~Claimed(d, r, e)
  PROVE  LET c == Claiming(d, r, e)
         IN  /\ c \in Desk /\ Orderly(s, c) /\ ~Repeated(c, e)
             /\ <<r, e>> \in c.claimed.proposals
             /\ c.entries = d.entries /\ c.switch = d.switch /\ c.folio = d.folio
<1> DEFINE c == Claiming(d, r, e)
           ops == d.claimed.opportunities \cup {e}
           props == d.claimed.proposals \cup {<<r, e>>}
<1>1. d.claimed \in Claims
  BY DEF Desk
<1>2. /\ c.claimed.opportunities = ops /\ c.claimed.proposals = props
      /\ c.claimed \in Claims
  <2>1. c.claimed = [d.claimed EXCEPT !.opportunities = ops, !.proposals = props]
    BY DEF Claiming, Desk
  <2>2. ops \subseteq Events /\ props \subseteq Runs \X Events
    BY <1>1 DEF Claims
  <2> HIDE DEF c, ops, props
  <2> QED
    BY <1>1, <2>1, <2>2 DEF Claims
<1>3. /\ c \in Desk /\ c.entries = d.entries /\ c.switch = d.switch /\ c.folio = d.folio
      /\ c.book = d.book
  BY <1>2 DEF Claiming, Desk
<1>4. d.entries \in Seq(Entry) /\ DOMAIN d.entries = 1 .. Len(d.entries)
  BY DEF Desk
<1>5. e \notin d.claimed.opportunities
  BY DEF Claimed
<1> HIDE DEF c
<1>6. Orderly(s, c)
  <2>1. \A x \in props : x[2] \in ops
    BY DEF Orderly
  <2>2. \A x, y \in props : x[2] = y[2] => x = y
    BY <1>5 DEF Orderly
  <2>3. \A i \in 1 .. Len(d.entries) : <<d.entries[i].run, d.entries[i].event>> \in props
    BY DEF Orderly
  <2> QED
    BY <1>2, <1>3, <2>1, <2>2, <2>3 DEF Orderly
<1>7. ~Repeated(c, e)
  <2>1. ASSUME NEW i \in 1 .. Len(d.entries) PROVE d.entries[i].event # e
    <3>1. <<d.entries[i].run, d.entries[i].event>>[2] \in d.claimed.opportunities
      BY DEF Orderly
    <3> QED
      BY <1>5, <3>1
  <2> QED
    BY <1>3, <1>4, <2>1 DEF Repeated
<1> QED
  BY <1>2, <1>3, <1>6, <1>7 DEF c

\* The order filled is entered with what it was decided on.
LEMMA ExecutionIsOrderly ==
  ASSUME NEW s, NEW d \in Desk, Orderly(s, d), NEW r \in Runs, NEW e \in Events, NEW plan \in Plans,
         NEW qty \in Nat \ {0}, ~Repeated(d, e), <<r, e>> \in d.claimed.proposals, time \in Nat,
         LargestSafe(qty, Proposed(plan, e), d.folio, profileOf[s], marketOf[s])
  PROVE  LET x == Executing(d, r, e, plan, qty)
         IN  x \in Desk /\ Orderly(s, x) /\ x.switch = d.switch
<1> DEFINE x == Executing(d, r, e, plan, qty)
           entry == [event |-> e, run |-> r, plan |-> plan, qty |-> qty, folio |-> d.folio, at |-> time]
           bought == BookAfter(d, e, OrderOf(plan, qty))
           n == Len(d.entries)
           entries == Append(d.entries, entry)
<1>1. d.entries \in Seq(Entry) /\ DOMAIN d.entries = 1 .. n /\ n \in Nat /\ d.folio \in Portfolio
  BY DEF Desk
<1>2. entry \in Entry
  BY <1>1 DEF Entry
<1>3. /\ entries \in Seq(Entry) /\ Len(entries) = n + 1
      /\ \A i \in 1 .. n + 1 : entries[i] = IF i = n + 1 THEN entry ELSE d.entries[i]
  <2> HIDE DEF entry
  <2> QED
    BY <1>1, <1>2
<1>4. bought \in DeskBook /\ Len(bought.orders) = Len(d.book.orders) + 1
  BY BookAfterFill
<1>5. x = [d EXCEPT !.book = bought, !.entries = entries]
  BY DEF Executing
<1>6. entry.run = r /\ entry.event = e /\ entry.plan = plan /\ entry.qty = qty /\ entry.folio = d.folio
  OBVIOUS
<1> HIDE DEF x, bought, entries, entry
<1>7. /\ x \in Desk /\ x.book = bought /\ x.entries = entries /\ x.switch = d.switch
      /\ x.claimed = d.claimed
  BY <1>3, <1>4, <1>5 DEF Desk
<1>8. Orderly(s, x)
  <2>1. \A i \in 1 .. n + 1 : <<entries[i].run, entries[i].event>> \in d.claimed.proposals
    <3> TAKE i \in 1 .. n + 1
    <3>1. CASE i = n + 1
      BY <1>1, <1>3, <1>6, <3>1
    <3>2. CASE i # n + 1
      <4>1. i \in 1 .. n /\ entries[i] = d.entries[i]
        BY <1>1, <1>3, <3>2
      <4> QED
        BY <4>1 DEF Orderly
    <3> QED
      BY <3>1, <3>2
  <2>2. \A i \in 1 .. n : d.entries[i].event # e
    BY <1>1 DEF Repeated
  <2>3. \A i, j \in 1 .. n + 1 : entries[i].event = entries[j].event => i = j
    <3> SUFFICES ASSUME NEW i \in 1 .. n + 1, NEW j \in 1 .. n + 1, entries[i].event = entries[j].event
                 PROVE  i = j
      OBVIOUS
    <3> DEFINE Old(k) == k \in 1 .. n /\ entries[k] = d.entries[k]
    <3>1. \A k \in 1 .. n + 1 : k # n + 1 => k \in 1 .. n
      BY <1>1
    <3>2. \A k \in 1 .. n + 1 : k # n + 1 => Old(k)
      BY <1>3, <3>1
    <3>3. \A k \in 1 .. n + 1 : k = n + 1 => entries[k] = entry
      BY <1>3
    <3>4. CASE i = n + 1 /\ j = n + 1
      BY <3>4
    <3>5. CASE Old(i) /\ j = n + 1
      BY <1>6, <2>2, <3>3, <3>5
    <3>6. CASE i = n + 1 /\ Old(j)
      BY <1>6, <2>2, <3>3, <3>6
    <3>7. CASE Old(i) /\ Old(j)
      BY <3>7 DEF Orderly
    <3> QED
      BY <3>2, <3>4, <3>5, <3>6, <3>7
  <2>4. \A i \in 1 .. n + 1 :
          LargestSafe(entries[i].qty, Proposed(entries[i].plan, entries[i].event),
                      entries[i].folio, profileOf[s], marketOf[s])
    <3> TAKE i \in 1 .. n + 1
    <3>1. CASE i = n + 1
      BY <1>1, <1>3, <1>6, <3>1
    <3>2. CASE i # n + 1
      <4>1. i \in 1 .. n /\ entries[i] = d.entries[i]
        BY <1>1, <1>3, <3>2
      <4> QED
        BY <4>1 DEF Orderly
    <3> QED
      BY <3>1, <3>2
  <2>5. Len(entries) = Len(bought.orders)
    BY <1>3, <1>4 DEF Orderly
  <2> QED
    BY <1>3, <1>7, <2>1, <2>3, <2>4, <2>5 DEF Orderly
<1> QED
  BY <1>7, <1>8 DEF x

-----------------------------------------------------------------------------
(* Every action keeps the invariant                                        *)

LEMMA DeskStart == DeskInit => DeskInv
<1> SUFFICES ASSUME DeskInit PROVE DeskInv
  OBVIOUS
<1> USE DEF DeskInit
<1>1. EmptyBook \in DeskBook /\ EmptyBook.orders = <<>>
  BY DeskAssumption DEF EmptyBook, DeskBook, Places, NoStops
<1>2. NewAccount \in Portfolio
  BY DeskAssumption DEF NewAccount, Portfolio
<1>3. Unset \in Switch /\ NoClaim \in Claims /\ NoClaim.proposals = {}
  BY DEF Unset, Switch, NoClaim, Claims
<1>4. \A s \in Systems : desks[s] \in Desk /\ desks[s].entries = <<>> /\ desks[s].claimed = NoClaim
                         /\ desks[s].book = EmptyBook
  <2> HIDE DEF DeskInit
  <2> QED
    BY <1>1, <1>2, <1>3 DEF DeskInit, Desk
<1>5. IdleRun \in RunState /\ IdleRun.stage = "IDLE" /\ IdleRun.at \in 1 .. Len(Fleet)
  <2> QED
    BY FleetShape DEF IdleRun, RunState
<1>6. DeskShape
  <2>1. desks \in [Systems -> Desk]
    BY <1>4
  <2>2. runs \in [Runs -> RunState] /\ time = 0 /\ halted = {}
    BY <1>5
  <2> HIDE DEF DeskInit
  <2>3. time \in 0 .. EndOfTime
    BY <2>2, DeskAssumption
  <2> QED
    BY <2>1, <2>2, <2>3 DEF DeskShape
<1>7. RunPlaced
  BY <1>5 DEF RunPlaced
<1>8. ASSUME NEW s \in Systems PROVE Orderly(s, desks[s])
  <2>1. Len(desks[s].entries) = 0 /\ 1 .. 0 = {} /\ Len(desks[s].book.orders) = 0
    BY <1>1, <1>4
  <2> QED
    BY <1>3, <1>4, <2>1 DEF Orderly
<1> QED
  BY <1>6, <1>7, <1>8 DEF DeskInv, HaltedAreStopped

\* A step of a run that touches no desk.
LEMMA RunMoves ==
  ASSUME DeskInv, UNCHANGED <<desks, time, halted>>, NEW r \in Runs, NEW to \in RunState,
         to.stage \in {"BRANCH", "AGENTS", "EVALUATE"} => to.event \in Events,
         to.stage \notin {"RAISED", "RETURNED"} => to.at \in 1 .. Len(Fleet),
         runs' = [runs EXCEPT ![r] = to]
  PROVE  DeskInv'
<1>1. DeskShape'
  BY DEF DeskInv, DeskShape
<1>2. RunPlaced'
  BY DEF DeskInv, DeskShape, RunPlaced
<1> QED
  BY <1>1, <1>2 DEF DeskInv, HaltedAreStopped, Orderly

\* A step around the runs that leaves a desk its claims, book and entries.
LEMMA DeskTurns ==
  ASSUME DeskInv, UNCHANGED <<runs, time>>, NEW s \in Systems, NEW to \in Desk,
         to.book = desks[s].book, to.claimed = desks[s].claimed, to.entries = desks[s].entries,
         desks' = [desks EXCEPT ![s] = to], halted' \subseteq halted \cup {s},
         s \in halted' => Blocks(to.switch)
  PROVE  DeskInv'
<1>1. DeskShape'
  BY DEF DeskInv, DeskShape
<1>2. RunPlaced'
  BY DEF DeskInv, RunPlaced
<1>3. HaltedAreStopped'
  BY DEF DeskInv, DeskShape, HaltedAreStopped, Blocks
<1>4. \A q \in Systems : Orderly(q, desks[q])'
  BY SMTT(25) DEF DeskInv, DeskShape, Orderly
<1> QED
  BY <1>1, <1>2, <1>3, <1>4 DEF DeskInv

LEMMA StartKeeps ==
  ASSUME DeskInv, NEW r \in Runs, NEW e \in Events, NEW snapshot \in Events, NEW given \in {None, time},
         StartRun(r, e, snapshot, given)
  PROVE  DeskInv'
<1> DEFINE to == [runs[r] EXCEPT !.stage = IF snapshot = e THEN "BRANCH" ELSE "RAISED",
                                 !.event = IF snapshot = e THEN e ELSE None,
                                 !.given = IF snapshot = e THEN given ELSE None]
<1>1. /\ runs[r] \in RunState /\ runs \in [Runs -> RunState] /\ given \in Nat \cup {None}
      /\ UNCHANGED <<desks, time, halted>>
  BY DEF DeskInv, DeskShape, StartRun
<1>2. runs' = [runs EXCEPT ![r] = to]
  BY <1>1 DEF StartRun
<1>3. to \in RunState
  BY <1>1 DEF RunState
<1>4. to.stage \in {"BRANCH", "RAISED"} /\ (to.stage = "BRANCH" => to.event \in Events)
  BY <1>1 DEF RunState
<1>5. to.at = runs[r].at /\ runs[r].at \in 1 .. Len(Fleet)
  BY <1>1 DEF RunState, DeskInv, RunPlaced, StartRun
<1> HIDE DEF to
<1> QED
  BY <1>1, <1>2, <1>3, <1>4, <1>5, RunMoves

LEMMA BeginKeeps ==
  ASSUME DeskInv, NEW r \in Runs, BeginBranch(r)
  PROVE  DeskInv'
<1> DEFINE there == desks[System(r)].journal
           to == [runs[r] EXCEPT !.now = IF runs[r].given = None THEN time ELSE runs[r].given,
                                 !.stage = IF there THEN "AGENTS" ELSE "EVALUATE",
                                 !.ended = IF there THEN runs[r].ended ELSE Ended(r, "FAILED")]
<1>1. /\ runs[r] \in RunState /\ runs \in [Runs -> RunState] /\ time \in Nat
      /\ UNCHANGED <<desks, time, halted>> /\ runs[r].stage = "BRANCH"
      /\ runs[r].event \in Events /\ runs[r].at \in 1 .. Len(Fleet)
  BY DEF DeskInv, DeskShape, BeginBranch, RunPlaced
<1>2. runs' = [runs EXCEPT ![r] = to]
  BY <1>1 DEF BeginBranch
<1>3. to \in RunState /\ to.event = runs[r].event /\ to.at = runs[r].at
  <2>1. Ended(r, "FAILED") \in Seq({"COMPLETED", "FAILED"})
    BY <1>1, AppendProperties DEF RunState, Ended
  <2> QED
    BY <1>1, <2>1 DEF RunState
<1> HIDE DEF to
<1> QED
  BY <1>1, <1>2, <1>3, RunMoves

LEMMA EvaluateKeeps ==
  ASSUME DeskInv, NEW r \in Runs, EvaluateBranch(r)
  PROVE  DeskInv'
<1> DEFINE last == runs[r].at = Len(Fleet)
           to == [runs[r] EXCEPT !.at = runs[r].at + 1, !.given = IF last THEN None ELSE runs[r].given,
                                 !.stage = IF last THEN "RETURNED" ELSE "BRANCH"]
<1>1. /\ runs[r] \in RunState /\ runs \in [Runs -> RunState]
      /\ UNCHANGED <<desks, time, halted>> /\ Len(Fleet) \in Nat
      /\ runs[r].event \in Events /\ runs[r].at \in 1 .. Len(Fleet)
  BY FleetShape DEF DeskInv, DeskShape, EvaluateBranch, RunPlaced
<1>2. runs' = [runs EXCEPT ![r] = to]
  BY <1>1 DEF EvaluateBranch
<1>3. /\ to \in RunState /\ to.event = runs[r].event /\ to.at = runs[r].at + 1
      /\ to.stage = IF last THEN "RETURNED" ELSE "BRANCH"
  <2>1. runs[r].at + 1 \in 1 .. Len(Fleet) + 1
    BY <1>1
  <2> HIDE DEF last
  <2> QED
    BY <1>1, <2>1 DEF RunState
<1>4. to.stage \notin {"RAISED", "RETURNED"} => to.at \in 1 .. Len(Fleet)
  <2> HIDE DEF to
  <2> QED
    BY <1>1, <1>3
<1> HIDE DEF to
<1> QED
  BY <1>1, <1>2, <1>3, <1>4, RunMoves

\* The desk of the run's system after the agents' answer.
AfterAnswer(r, answer) ==
  LET d == desks[System(r)]
      v == Verdict(r, answer)
      claimed == Claiming(d, r, runs[r].event)
  IN  CASE v[1] = "EXECUTED" ->
             Executing(claimed, r, runs[r].event, answer.plan, Decision(r, answer.plan).qty)
        [] v = <<"FAILED", "paper_broker">> -> claimed
        [] OTHER -> d

\* An answer leaves the desk in order; of a stopped system it enters nothing.
LEMMA AnswerIsOrderly ==
  ASSUME DeskInv, NEW r \in Runs, runs[r].stage = "AGENTS", NEW answer \in Answers(runs[r].event)
  PROVE  LET s == System(r)
             x == AfterAnswer(r, answer)
         IN  /\ x \in Desk /\ Orderly(s, x) /\ x.switch = desks[s].switch
             /\ Blocks(desks[s].switch) => x.entries = desks[s].entries
<1> DEFINE s == System(r)
           d == desks[s]
           e == runs[r].event
           plan == answer.plan
           v == Verdict(r, answer)
           c == Claiming(d, r, e)
           qty == Decision(r, plan).qty
<1>1. s \in Systems /\ d \in Desk /\ Orderly(s, d) /\ e \in Events /\ plan \in Plans /\ time \in Nat
  BY AtSystem, AnswerPlans DEF DeskInv, DeskShape
<1>2. ASSUME v[1] = "EXECUTED" \/ v = <<"FAILED", "paper_broker">>
      PROVE  /\ c \in Desk /\ Orderly(s, c) /\ ~Repeated(c, e) /\ <<r, e>> \in c.claimed.proposals
             /\ c.entries = d.entries /\ c.switch = d.switch /\ c.folio = d.folio
             /\ ~Blocks(d.switch) /\ qty \in Nat \ {0}
             /\ LargestSafe(qty, Proposed(plan, e), d.folio, profileOf[s], marketOf[s])
  <2>1. ~Claimed(d, r, e) /\ marketOf[s] # None /\ Decision(r, plan).status # "REJECTED"
    BY <1>2, VerdictPassed
  <2> QED
    BY <1>1, <2>1, ClaimIsOrderly, DecisionPassed
<1>3. CASE v[1] = "EXECUTED"
  <2>1. AfterAnswer(r, answer) = Executing(c, r, e, plan, qty)
    BY <1>3 DEF AfterAnswer
  <2> QED
    BY <1>1, <1>2, <1>3, <2>1, ExecutionIsOrderly
<1>4. CASE v[1] # "EXECUTED" /\ v = <<"FAILED", "paper_broker">>
  <2>1. AfterAnswer(r, answer) = c
    BY <1>4 DEF AfterAnswer
  <2> QED
    BY <1>1, <1>2, <1>4, <2>1
<1>5. CASE v[1] # "EXECUTED" /\ v # <<"FAILED", "paper_broker">>
  <2>1. AfterAnswer(r, answer) = d
    BY <1>5 DEF AfterAnswer
  <2> QED
    BY <1>1, <2>1
<1> QED
  BY <1>3, <1>4, <1>5

LEMMA AnswerStep ==
  ASSUME NEW r, NEW answer, AgentsAnswer(r, answer)
  PROVE  desks' = [desks EXCEPT ![System(r)] = AfterAnswer(r, answer)]
BY DEF AgentsAnswer, AfterAnswer

LEMMA AnswerKeeps ==
  ASSUME DeskInv, NEW r \in Runs, NEW answer \in Answers(runs[r].event), AgentsAnswer(r, answer)
  PROVE  DeskInv'
<1> DEFINE s == System(r)
           x == AfterAnswer(r, answer)
           v == Verdict(r, answer)
           to == [runs[r] EXCEPT !.ended = Ended(r, v[1]), !.now = 0, !.stage = "EVALUATE"]
<1>1. /\ s \in Systems /\ x \in Desk /\ Orderly(s, x) /\ x.switch = desks[s].switch
      /\ runs[r] \in RunState /\ runs[r].event \in Events /\ runs[r].at \in 1 .. Len(Fleet)
      /\ UNCHANGED <<time, halted>>
  BY AtSystem, AnswerIsOrderly DEF AgentsAnswer
<1>2. desks' = [desks EXCEPT ![s] = x]
  BY AnswerStep
<1>3. runs' = [runs EXCEPT ![r] = to]
  BY DEF AgentsAnswer
<1>4. to \in RunState /\ to.event = runs[r].event /\ to.at = runs[r].at /\ to.stage = "EVALUATE"
  <2>1. Ended(r, v[1]) \in Seq({"COMPLETED", "FAILED"})
    BY <1>1, AppendProperties DEF RunState, Ended
  <2> HIDE DEF s, v
  <2> QED
    BY <1>1, <2>1 DEF RunState
<1> HIDE DEF s, x, to
<1>5. DeskShape'
  BY <1>1, <1>2, <1>3, <1>4 DEF DeskInv, DeskShape
<1>6. RunPlaced'
  BY <1>1, <1>3, <1>4 DEF DeskInv, DeskShape, RunPlaced
<1>7. HaltedAreStopped'
  BY <1>1, <1>2 DEF DeskInv, DeskShape, HaltedAreStopped, Blocks
<1>8. \A q \in Systems : Orderly(q, desks[q])'
  BY <1>1, <1>2 DEF DeskInv, DeskShape, Orderly
<1> QED
  BY <1>5, <1>6, <1>7, <1>8 DEF DeskInv

LEMMA RefreshKeeps ==
  ASSUME DeskInv, NEW s \in Systems, NEW openRisk \in OpenRisks, Refresh(s, openRisk)
  PROVE  DeskInv' /\ desks'[s].entries = desks[s].entries
<1> DEFINE d == desks[s]
           held == d.book.pos["symbol"].qty
           mark == IF d.entries = <<>> THEN 0 ELSE closeOf[Last(d.entries).event]
           worth == d.book.cash + held * mark
           folio == [equity |-> worth, dayStart |-> DeskBalance, dailyPnl |-> worth - DeskBalance,
                     peak |-> IF worth > d.folio.peak THEN worth ELSE d.folio.peak,
                     open |-> IF held = 0 THEN 0 ELSE 1,
                     openRisk |-> openRisk, correlatedRisk |-> openRisk,
                     gross |-> Broker!Magnitude(held) * mark]
           to == [d EXCEPT !.folio = folio]
<1>1. d \in Desk /\ openRisk \in Int /\ DeskBalance \in Int
  BY DeskAssumption DEF DeskInv, DeskShape
<1>2. held \in Int /\ d.book.cash \in Int /\ d.folio.peak \in Int /\ d.entries \in Seq(Entry)
  BY <1>1 DEF Desk, DeskBook, Places, Portfolio
<1>3. mark \in Int
  <2>1. ASSUME d.entries # <<>> PROVE Last(d.entries) \in Entry
    <3>1. Len(d.entries) \in 1 .. Len(d.entries)
      BY <1>2, <2>1
    <3> QED
      BY <1>2, <3>1 DEF Last
  <2> QED
    BY <2>1, DeskAssumption DEF Entry
<1> HIDE DEF held, mark
<1>4. worth \in Int /\ Broker!Magnitude(held) * mark \in Int
  <2>1. Broker!Magnitude(held) \in Int
    BY <1>2 DEF Broker!Magnitude
  <2>2. held * mark \in Int /\ Broker!Magnitude(held) * mark \in Int
    <3> DEFINE magnitude == Broker!Magnitude(held)
    <3>1. held \in Int /\ mark \in Int /\ magnitude \in Int
      BY <1>2, <1>3, <2>1
    <3> HIDE DEF magnitude
    <3>2. held * mark \in Int /\ magnitude * mark \in Int
      BY <3>1
    <3> QED
      BY <3>2 DEF magnitude
  <2> QED
    BY <1>2, <2>2
<1> HIDE DEF d, worth
<1>5. folio \in Portfolio
  BY <1>1, <1>2, <1>4 DEF Portfolio
<1>6. desks' = [desks EXCEPT ![s] = to]
  BY DEF Refresh, d, worth, held, mark
<1> HIDE DEF folio
<1>7. /\ to \in Desk /\ to.book = d.book /\ to.claimed = d.claimed /\ to.entries = d.entries
      /\ to.switch = d.switch
  BY <1>1, <1>5 DEF Desk
<1> HIDE DEF to
<1>8. UNCHANGED <<runs, time, halted>> /\ (s \in halted => Blocks(d.switch))
  BY DEF Refresh, DeskInv, HaltedAreStopped, d
<1>9. DeskInv'
  BY <1>6, <1>7, <1>8, DeskTurns DEF d
<1> QED
  BY <1>6, <1>7, <1>9 DEF DeskInv, DeskShape, d

\* Setting a switch and turning the journal: a desk stays stopped until it is reset.
LEMMA SwitchKeeps ==
  ASSUME DeskInv, NEW s \in Systems,
         StopNewTrades(s) \/ StopAI(s) \/ Emergency(s) \/ Reset(s) \/ JournalTurns(s)
  PROVE  DeskInv' /\ desks'[s].entries = desks[s].entries
<1> DEFINE d == desks[s]
<1>1. /\ d \in Desk /\ d.switch \in Switch /\ d.journal \in BOOLEAN /\ UNCHANGED <<runs, time>>
      /\ desks \in [Systems -> Desk] /\ (s \in halted => Blocks(d.switch))
  BY DEF DeskInv, DeskShape, HaltedAreStopped, Desk, StopNewTrades, StopAI, Emergency, Reset,
         JournalTurns
<1>2. ASSUME NEW switch \in Switch, desks' = [desks EXCEPT ![s] = [d EXCEPT !.switch = switch]],
             halted' \subseteq halted \cup {s}, s \in halted' => Blocks(switch)
      PROVE  DeskInv' /\ desks'[s].entries = d.entries
  <2> DEFINE to == [d EXCEPT !.switch = switch]
  <2>1. /\ to \in Desk /\ to.book = d.book /\ to.claimed = d.claimed /\ to.entries = d.entries
        /\ to.switch = switch
    BY <1>1, <1>2 DEF Desk
  <2> HIDE DEF to
  <2> QED
    BY <1>1, <1>2, <2>1, DeskTurns DEF to
<1>3. CASE StopNewTrades(s)
  <2> DEFINE switch == [d.switch EXCEPT !.newTrades = TRUE]
  <2>1. switch \in Switch /\ Blocks(switch)
    BY <1>1 DEF Switch, Blocks
  <2>2. desks' = [desks EXCEPT ![s] = [d EXCEPT !.switch = switch]] /\ halted' = halted \cup {s}
    BY <1>1, <1>3 DEF StopNewTrades
  <2> HIDE DEF switch
  <2> QED
    BY <1>2, <2>1, <2>2
<1>4. CASE StopAI(s)
  <2> DEFINE switch == AfterStopAI(d.switch)
  <2>1. switch \in Switch /\ (Blocks(d.switch) => Blocks(switch))
    BY <1>1 DEF Switch, Blocks, AfterStopAI
  <2>2. desks' = [desks EXCEPT ![s] = [d EXCEPT !.switch = switch]] /\ halted' = halted
    BY <1>1, <1>4 DEF StopAI
  <2> HIDE DEF switch
  <2> QED
    BY <1>1, <1>2, <2>1, <2>2
<1>5. CASE Emergency(s)
  <2> DEFINE switch == [newTrades |-> TRUE, ai |-> TRUE, emergency |-> TRUE]
  <2>1. switch \in Switch /\ Blocks(switch)
    BY DEF Switch, Blocks
  <2>2. desks' = [desks EXCEPT ![s] = [d EXCEPT !.switch = switch]] /\ halted' = halted \cup {s}
    BY <1>1, <1>5 DEF Emergency
  <2> HIDE DEF switch
  <2> QED
    BY <1>2, <2>1, <2>2
<1>6. CASE Reset(s)
  <2>1. Unset \in Switch
    BY DEF Switch, Unset
  <2>2. desks' = [desks EXCEPT ![s] = [d EXCEPT !.switch = Unset]] /\ halted' = halted \ {s}
    BY <1>1, <1>6 DEF Reset
  <2> QED
    BY <1>2, <2>1, <2>2
<1>7. CASE JournalTurns(s)
  <2> DEFINE to == [d EXCEPT !.journal = ~d.journal]
  <2>1. /\ to \in Desk /\ to.book = d.book /\ to.claimed = d.claimed /\ to.entries = d.entries
        /\ to.switch = d.switch
    BY <1>1 DEF Desk
  <2>2. desks' = [desks EXCEPT ![s] = to] /\ halted' = halted
    BY <1>1, <1>7 DEF JournalTurns
  <2> HIDE DEF to
  <2> QED
    BY <1>1, <2>1, <2>2, DeskTurns
<1> QED
  BY <1>3, <1>4, <1>5, <1>6, <1>7

LEMMA TimeKeeps == ASSUME DeskInv, TimePasses PROVE DeskInv'
<1>1. time' \in 0 .. EndOfTime
  BY DeskAssumption DEF DeskInv, DeskShape, TimePasses
<1> QED
  BY <1>1 DEF DeskInv, DeskShape, RunPlaced, HaltedAreStopped, Orderly, TimePasses

LEMMA DeskStutters == ASSUME DeskInv, UNCHANGED deskVars PROVE DeskInv'
BY DEF DeskInv, DeskShape, RunPlaced, HaltedAreStopped, Orderly, deskVars

LEMMA DeskKeeps == DeskInv /\ [DeskNext]_deskVars => DeskInv'
<1> SUFFICES ASSUME DeskInv, [DeskNext]_deskVars PROVE DeskInv'
  OBVIOUS
<1>1. Disturbed \subseteq Systems
  BY DeskAssumption
<1>2. CASE \E r \in Runs : RunSteps(r)
  BY <1>2, BeginKeeps, AnswerKeeps, EvaluateKeeps DEF RunSteps
<1>3. CASE \E r \in Runs, e, snapshot \in Events, given \in {None, time} : StartRun(r, e, snapshot, given)
  BY <1>3, StartKeeps
<1>4. ASSUME NEW s \in Disturbed,
             \/ StopNewTrades(s) \/ StopAI(s) \/ Emergency(s) \/ Reset(s) \/ JournalTurns(s)
             \/ \E openRisk \in OpenRisks : Refresh(s, openRisk)
      PROVE  DeskInv'
  BY <1>1, <1>4, RefreshKeeps, SwitchKeeps
<1>5. CASE TimePasses
  BY <1>5, TimeKeeps
<1>6. CASE UNCHANGED deskVars
  BY <1>6, DeskStutters
<1> QED
  BY <1>2, <1>3, <1>4, <1>5, <1>6 DEF DeskNext

LEMMA DeskInvAlways == DeskSpec => []DeskInv
BY DeskStart, DeskKeeps, PTL DEF DeskSpec

-----------------------------------------------------------------------------
(* The theorems                                                            *)

\* In every fleet, whatever its runs and what happens around them: a market event
\* enters a system's book once, with a claim, an order for every entry, and in the
\* largest size the limits of its system and market allow.
THEOREM EntriesAlwaysHold == DeskSpec => []EntriesHold
<1>1. DeskInv => EntriesHold
  <2> SUFFICES ASSUME DeskInv PROVE EntriesHold
    OBVIOUS
  <2>1. ASSUME NEW s \in Systems
        PROVE  /\ desks[s] \in Desk /\ Orderly(s, desks[s])
               /\ DOMAIN desks[s].entries = 1 .. Len(desks[s].entries)
    BY DEF DeskInv, DeskShape, Desk
  <2>2. DeskTypeOK
    BY <2>1 DEF DeskInv, DeskShape, DeskTypeOK, Desk, Claims
  <2>3. OneEntryPerSignal
    BY <2>1 DEF OneEntryPerSignal, Orderly
  <2>4. LargestSafeSize
    BY <2>1 DEF LargestSafeSize, Orderly
  <2> QED
    BY <2>2, <2>3, <2>4 DEF EntriesHold
<1> QED
  BY <1>1, DeskInvAlways, PTL

\* Between a stop and a reset nothing enters the book of the system stopped.
THEOREM HaltAlwaysHolds == DeskSpec => HaltHolds
<1> DEFINE Same == \A s \in halted : desks'[s].entries = desks[s].entries
<1>1. DeskInv /\ [DeskNext]_deskVars => [Same]_deskVars
  <2> SUFFICES ASSUME DeskInv, DeskNext PROVE Same
    OBVIOUS
  <2>1. halted \subseteq Systems /\ Disturbed \subseteq Systems /\ desks \in [Systems -> Desk]
    BY DeskAssumption DEF DeskInv, DeskShape
  <2>2. ASSUME NEW r \in Runs, RunSteps(r) PROVE Same
    <3>1. CASE UNCHANGED desks
      BY <3>1
    <3>2. ASSUME NEW answer \in Answers(runs[r].event), AgentsAnswer(r, answer) PROVE Same
      <4>1. desks' = [desks EXCEPT ![System(r)] = AfterAnswer(r, answer)]
        BY <3>2, AnswerStep
      <4>2. Blocks(desks[System(r)].switch) => AfterAnswer(r, answer).entries = desks[System(r)].entries
        BY <3>2, AnswerIsOrderly DEF AgentsAnswer
      <4> QED
        BY <2>1, <4>1, <4>2 DEF DeskInv, HaltedAreStopped
    <3> QED
      BY <2>2, <3>1, <3>2 DEF RunSteps, BeginBranch, EvaluateBranch
  <2>3. ASSUME NEW s \in Systems, desks'[s].entries = desks[s].entries,
               \A q \in Systems \ {s} : desks'[q] = desks[q]
        PROVE  Same
    BY <2>1, <2>3
  <2>4. ASSUME NEW s \in Disturbed,
               \/ StopNewTrades(s) \/ StopAI(s) \/ Emergency(s) \/ Reset(s) \/ JournalTurns(s)
               \/ \E openRisk \in OpenRisks : Refresh(s, openRisk)
        PROVE  Same
    <3>1. s \in Systems /\ desks'[s].entries = desks[s].entries
      BY <2>1, <2>4, RefreshKeeps, SwitchKeeps
    <3>2. \A q \in Systems \ {s} : desks'[q] = desks[q]
      BY <2>1, <2>4 DEF StopNewTrades, StopAI, Emergency, Reset, JournalTurns, Refresh
    <3> QED
      BY <2>3, <3>1, <3>2
  <2> QED
    BY <2>2, <2>4 DEF DeskNext, StartRun, TimePasses
<1> QED
  BY <1>1, DeskInvAlways, PTL DEF DeskSpec, HaltHolds

-----------------------------------------------------------------------------
(* The broker: fills *)

\* What a position becomes is a position.
LEMMA PositionTyped ==
  ASSUME NEW p \in Position, NEW signed \in Int, signed # 0, NEW price \in Int
  PROVE  /\ PositionAfter(p, signed, price) \in Position
         /\ PositionAfter(p, signed, price).qty = p.qty + signed
<1>1. p.qty \in Int /\ p.avg \in Int
  BY DEF Position
<1> DEFINE total == Magnitude(p.qty) + Magnitude(signed)
           paid == p.avg * Magnitude(p.qty) + price * Magnitude(signed)
<1>2. total \in Nat \ {0}
  BY <1>1 DEF Magnitude
<1>3. paid \in Int
  BY <1>1 DEF Magnitude
<1>4. PositionAfter(p, signed, price) =
        [qty |-> p.qty + signed,
         avg |-> CASE Adds(p, signed) -> paid \div total
                   [] ~Adds(p, signed) /\ SameSide(p.qty, p.qty + signed) -> p.avg
                   [] ~Adds(p, signed) /\ p.qty + signed = 0 -> 0
                   [] OTHER -> price]
  BY DEF PositionAfter
<1> HIDE DEF total, paid
<1>5. paid \div total \in Int
  BY <1>2, <1>3
<1>6. (CASE Adds(p, signed) -> paid \div total
                   [] ~Adds(p, signed) /\ SameSide(p.qty, p.qty + signed) -> p.avg
                   [] ~Adds(p, signed) /\ p.qty + signed = 0 -> 0
                   [] OTHER -> price) \in Int
  <2>1. 0 \in Int
    OBVIOUS
  <2>2. (~Adds(p, signed) /\ p.qty + signed = 0) => ~SameSide(p.qty, p.qty + signed)
    BY <1>1 DEF SameSide
  <2>3. CASE Adds(p, signed)
    BY <1>5, <2>3
  <2>4. CASE ~Adds(p, signed)
    BY <1>1, <2>1, <2>2, <2>4
  <2> QED
    BY <2>3, <2>4
<1> QED
  BY <1>1, <1>4, <1>6 DEF Position

\* What closing a part of it earns is a number.
LEMMA GainTyped ==
  ASSUME NEW p \in Position, NEW signed \in Int, NEW price \in Int
  PROVE  Gain(p, signed, price) \in Int
BY DEF Gain, Position, Magnitude, Adds, SameSide

\* An order has a size and a sign.
LEMMA OrderNumbers ==
  ASSUME NEW o \in Order
  PROVE  /\ o.sym \in Symbols /\ o.qty \in Nat \ {0} /\ Signed(o) \in Int /\ Signed(o) # 0
         /\ o.side = "BUY" => Signed(o) = o.qty
         /\ o.side = "SELL" => Signed(o) = -o.qty
BY DEF Order, Signed

\* c is b with order i filled.
IsFilled(b, i, c) ==
  LET o == b.orders[i]
  IN  /\ c \in Book
      /\ c.orders = [b.orders EXCEPT ![i].status = "FILLED"]
      /\ \A q \in Symbols \ {o.sym} : c.pos[q] = b.pos[q] /\ c.stops[q] = b.stops[q]
      /\ c.pos[o.sym].qty = b.pos[o.sym].qty + Signed(o)
      /\ c.stops[o.sym] = IF StopSurvives(b.pos[o.sym], Signed(o)) THEN b.stops[o.sym] ELSE NoStop

\* What a fill changes.
LEMMA Filled ==
  ASSUME NEW b \in Book, NEW i \in DOMAIN b.orders, NEW price \in Int, NEW bps \in Nat
  PROVE  IsFilled(b, i, Fill(b, i, price, bps))
<1> DEFINE o == b.orders[i]
           p == b.pos[o.sym]
           fee == (price * o.qty * bps) \div 10000
           c == Fill(b, i, price, bps)
           signed == Signed(o)
           after == PositionAfter(p, signed, price)
           gain == Gain(p, signed, price)
           stop == IF StopSurvives(p, signed) THEN b.stops[o.sym] ELSE NoStop
<1>1. /\ b.orders \in Seq(Order) /\ b.cash \in Int /\ b.fees \in Int /\ b.realized \in Int
      /\ b.pos \in [Symbols -> Position] /\ b.stops \in [Symbols -> Stop \cup {NoStop}]
      /\ b = [orders |-> b.orders, cash |-> b.cash, fees |-> b.fees, realized |-> b.realized,
              pos |-> b.pos, stops |-> b.stops]
  BY DEF Book
<1>2. o \in Order /\ i \in 1..Len(b.orders)
  BY <1>1
<1>3. o.sym \in Symbols /\ o.qty \in Nat \ {0} /\ signed \in Int /\ signed # 0
  BY <1>2, OrderNumbers
<1>4. p \in Position
  BY <1>1, <1>3
<1>5. after \in Position /\ after.qty = p.qty + signed /\ gain \in Int
  BY <1>3, <1>4, PositionTyped, GainTyped
<1>6. fee \in Int
  <2>1. price * o.qty \in Int
    BY <1>3
  <2>2. price * o.qty * bps \in Int
    BY <2>1
  <2> QED
    BY <2>2
<1>7. stop \in Stop \cup {NoStop}
  BY <1>1, <1>3
<1>8. c = [orders |-> [b.orders EXCEPT ![i].status = "FILLED"],
           cash |-> b.cash - signed * price - fee,
           fees |-> b.fees + fee,
           realized |-> b.realized + gain,
           pos |-> [b.pos EXCEPT ![o.sym] = after],
           stops |-> [b.stops EXCEPT ![o.sym] = stop]]
  <2> DEFINE orders == [b.orders EXCEPT ![i].status = "FILLED"]
             cash == b.cash - signed * price - fee
             fees == b.fees + fee
             realized == b.realized + gain
             pos == [b.pos EXCEPT ![o.sym] = after]
             stops == [b.stops EXCEPT ![o.sym] = stop]
  <2>1. c = [b EXCEPT !.orders = orders, !.cash = cash, !.fees = fees, !.realized = realized,
                      !.pos = pos, !.stops = stops]
    BY DEF Fill
  <2> HIDE DEF orders, cash, fees, realized, pos, stops, c
  <2>2. c = [orders |-> orders, cash |-> cash, fees |-> fees, realized |-> realized, pos |-> pos, stops |-> stops]
    BY <1>1, <2>1
  <2> QED
    BY <2>2 DEF orders, cash, fees, realized, pos, stops
<1> HIDE DEF o, p, fee, c, signed, after, gain, stop
<1>9. [b.orders EXCEPT ![i].status = "FILLED"] \in Seq(Order)
  <2>1. [o EXCEPT !.status = "FILLED"] \in Order
    BY <1>2 DEF Order
  <2>2. [b.orders EXCEPT ![i] = [o EXCEPT !.status = "FILLED"]] \in Seq(Order)
    BY <1>1, <1>2, <2>1
  <2>3. [b.orders EXCEPT ![i].status = "FILLED"] = [b.orders EXCEPT ![i] = [o EXCEPT !.status = "FILLED"]]
    BY DEF o
  <2> QED
    BY <2>2, <2>3
<1>10. [b.pos EXCEPT ![o.sym] = after] \in [Symbols -> Position]
  BY <1>1, <1>3, <1>5
<1>11. [b.stops EXCEPT ![o.sym] = stop] \in [Symbols -> Stop \cup {NoStop}]
  BY <1>1, <1>3, <1>7
<1>12. b.cash - signed * price - fee \in Int /\ b.fees + fee \in Int /\ b.realized + gain \in Int
  BY <1>1, <1>3, <1>5, <1>6
<1>13. c \in Book
  BY <1>8, <1>9, <1>10, <1>11, <1>12 DEF Book
<1>14. /\ c.orders = [b.orders EXCEPT ![i].status = "FILLED"]
       /\ \A q \in Symbols \ {o.sym} : c.pos[q] = b.pos[q] /\ c.stops[q] = b.stops[q]
       /\ c.pos[o.sym] = after
       /\ c.stops[o.sym] = stop
  BY <1>1, <1>3, <1>8
<1> QED
  BY <1>5, <1>13, <1>14 DEF c, o, p, signed, stop, IsFilled

-----------------------------------------------------------------------------
(* The broker: the limits of a tick, one after the other *)

\* The library folds over the places of a sequence, the last first.
Queue(n) == [i \in 1 .. n |-> i]
LimitStep(b, s, price, fold, T) ==
  IF T = {} THEN b
  ELSE IF IsCrossed(b.orders[Queue(Len(b.orders))[Max(T)]], s, price)
         THEN FillLimit(fold[T \ {Max(T)}], Queue(Len(b.orders))[Max(T)])
         ELSE fold[T \ {Max(T)}]
LimitFold(b, s, price) ==
  CHOOSE fold : fold = [T \in SUBSET DOMAIN Queue(Len(b.orders)) |-> LimitStep(b, s, price, fold, T)]

\* The book after the first k orders were looked at.
AfterFirst(b, s, price, k) == LimitFold(b, s, price)[1 .. k]

\* What is not empty has a last place.
LEMMA LastInQueue ==
  ASSUME NEW n \in Nat, NEW T \in SUBSET (1 .. n), T # {}
  PROVE  Max(T) \in T
<1>1. T \subseteq Nat /\ \A i \in T : i <= n
  OBVIOUS
<1> QED
  BY <1>1, LargestMember

\* The recursion has a solution, so the fold is one.
LEMMA LimitsRecursion ==
  ASSUME NEW b, NEW s, NEW price, Len(b.orders) \in Nat
  PROVE  \A T \in SUBSET (1 .. Len(b.orders)) :
           LimitFold(b, s, price)[T] = LimitStep(b, s, price, LimitFold(b, s, price), T)
<1> DEFINE n == Len(b.orders)
           S == 1 .. n
           UpTo(k) == \E fold : \A T \in SUBSET S :
                        Cardinality(T) <= k => fold[T] = LimitStep(b, s, price, fold, T)
           Missing == {k \in Nat : ~UpTo(k)}
<1>1. /\ n \in Nat /\ IsFiniteSet(S) /\ Cardinality(S) = n /\ DOMAIN Queue(n) = S
      /\ \A T \in SUBSET S : T # {} => Max(T) \in T
  <2>1. n \in Nat /\ DOMAIN Queue(n) = S
    BY DEF Queue
  <2>2. IsFiniteSet(S) /\ Cardinality(S) = n
    BY FS_Interval, SMTT(40)
  <2>3. \A T \in SUBSET S : T # {} => Max(T) \in T
    BY LastInQueue
  <2> QED
    BY <2>1, <2>2, <2>3
<1> HIDE DEF n, S
<1>2. Missing = {}
  <2>1. SUFFICES ASSUME Missing # {} PROVE FALSE
    OBVIOUS
  <2>2. PICK k \in Missing : \A m \in Missing : k <= m
    BY <2>1, SmallestMember
  <2>3. UpTo(k)
    <3>1. CASE k = 0
      <4> DEFINE start == [T \in SUBSET S |-> b]
      <4>1. \A T \in SUBSET S : Cardinality(T) <= k => T = {}
        BY <1>1, <3>1, Shrinks
      <4>2. \A T \in SUBSET S : Cardinality(T) <= k => start[T] = LimitStep(b, s, price, start, T)
        BY <4>1 DEF LimitStep
      <4> QED
        BY <4>2
    <3>2. CASE k # 0
      <4>1. k - 1 \in Nat /\ UpTo(k - 1)
        <5>1. k - 1 \in Nat /\ ~(k <= k - 1)
          BY <3>2
        <5>2. k - 1 \notin Missing
          BY <2>2, <5>1
        <5> QED
          BY <5>1, <5>2
      <4>2. PICK fold : \A T \in SUBSET S : Cardinality(T) <= k - 1 => fold[T] = LimitStep(b, s, price, fold, T)
        BY <4>1
      <4> DEFINE more == [T \in SUBSET S |-> LimitStep(b, s, price, fold, T)]
      <4>3. ASSUME NEW T \in SUBSET S, Cardinality(T) <= k PROVE more[T] = LimitStep(b, s, price, more, T)
        <5>1. CASE T = {}
          BY <5>1 DEF LimitStep
        <5>2. CASE T # {}
          <6> DEFINE R == T \ {Max(T)}
          <6>1. Max(T) \in T
            BY <1>1, <5>2
          <6>2. R \in SUBSET S /\ Cardinality(R) <= k - 1
            BY <1>1, <4>3, <6>1, Shrinks
          <6>3. fold[R] = LimitStep(b, s, price, fold, R)
            BY <4>2, <6>2
          <6>4. more[R] = fold[R]
            BY <6>2, <6>3
          <6>5. LimitStep(b, s, price, more, T) = LimitStep(b, s, price, fold, T)
            BY <5>2, <6>4 DEF LimitStep
          <6> QED
            BY <6>5
        <5> QED
          BY <5>1, <5>2
      <4> QED
        BY <4>3
    <3> QED
      BY <3>1, <3>2
  <2> QED
    BY <2>3
<1>3. UpTo(n)
  BY <1>1, <1>2
<1>4. PICK fold : \A T \in SUBSET S : Cardinality(T) <= n => fold[T] = LimitStep(b, s, price, fold, T)
  BY <1>3
<1>5. \A T \in SUBSET S : Cardinality(T) <= n
  BY <1>1, FS_Subset
<1> DEFINE whole == [T \in SUBSET S |-> fold[T]]
<1>6. ASSUME NEW T \in SUBSET S PROVE LimitStep(b, s, price, fold, T) = LimitStep(b, s, price, whole, T)
  <2>1. whole[T \ {Max(T)}] = fold[T \ {Max(T)}]
    OBVIOUS
  <2> QED
    BY <2>1 DEF LimitStep
<1>7. whole = [T \in SUBSET S |-> LimitStep(b, s, price, whole, T)]
  BY <1>4, <1>5, <1>6
<1> HIDE DEF whole
<1>8. LimitFold(b, s, price) = [T \in SUBSET S |-> LimitStep(b, s, price, LimitFold(b, s, price), T)]
  <2>1. whole = [T \in SUBSET DOMAIN Queue(Len(b.orders)) |-> LimitStep(b, s, price, whole, T)]
    BY <1>1, <1>7, Zenon DEF n
  <2>2. LimitFold(b, s, price) =
          [T \in SUBSET DOMAIN Queue(Len(b.orders)) |-> LimitStep(b, s, price, LimitFold(b, s, price), T)]
    BY <2>1, Zenon DEF LimitFold
  <2> QED
    BY <1>1, <2>2, Zenon DEF n
<1> DEFINE limits == LimitFold(b, s, price)
<1> HIDE DEF limits
<1>9. limits = [T \in SUBSET S |-> LimitStep(b, s, price, limits, T)]
  BY <1>8 DEF limits
<1>10. \A T \in SUBSET S : limits[T] = LimitStep(b, s, price, limits, T)
  BY <1>9
<1> QED
  BY <1>10 DEF limits, n, S

\* The limits are looked at in the order they were placed.
LEMMA LimitsInOrder ==
  ASSUME NEW b, NEW s, NEW price, Len(b.orders) \in Nat
  PROVE  /\ AfterFirst(b, s, price, 0) = b
         /\ \A k \in 1 .. Len(b.orders) :
              AfterFirst(b, s, price, k) =
                IF IsCrossed(b.orders[k], s, price) THEN FillLimit(AfterFirst(b, s, price, k - 1), k)
                ELSE AfterFirst(b, s, price, k - 1)
         /\ AfterLimits(b, s, price) = AfterFirst(b, s, price, Len(b.orders))
<1> DEFINE n == Len(b.orders)
           limits == LimitFold(b, s, price)
<1>1. \A T \in SUBSET (1 .. n) : limits[T] = LimitStep(b, s, price, limits, T)
  BY LimitsRecursion
<1>2. AfterLimits(b, s, price) = limits[DOMAIN Queue(n)]
  BY Zenon DEF AfterLimits, FoldLeft, MapThenFoldSet, LimitFold, LimitStep, Queue
<1>3. DOMAIN Queue(n) = 1 .. n /\ \A i \in 1 .. n : Queue(n)[i] = i
  BY DEF Queue
<1> HIDE DEF limits
<1>4. limits[1 .. 0] = b
  <2>1. 1 .. 0 = {} /\ {} \in SUBSET (1 .. n)
    OBVIOUS
  <2> QED
    BY <1>1, <2>1 DEF LimitStep
<1>5. ASSUME NEW k \in 1 .. n
      PROVE  limits[1 .. k] = IF IsCrossed(b.orders[k], s, price) THEN FillLimit(limits[1 .. (k - 1)], k)
                              ELSE limits[1 .. (k - 1)]
  <2> DEFINE T == 1 .. k
  <2>1. T \in SUBSET (1 .. n) /\ T # {} /\ k \in T /\ \A i \in T : i <= k
    OBVIOUS
  <2>2. Max(T) \in T /\ k <= Max(T)
    BY <2>1, LargestMember, SMTT(40)
  <2>3. Max(T) = k
    BY <2>2
  <2>4. T \ {k} = 1 .. (k - 1)
    OBVIOUS
  <2>5. limits[T] = LimitStep(b, s, price, limits, T)
    BY <1>1, <2>1
  <2>6. limits[T] = IF IsCrossed(b.orders[Queue(n)[k]], s, price) THEN FillLimit(limits[T \ {k}], Queue(n)[k])
                    ELSE limits[T \ {k}]
    BY <2>1, <2>3, <2>5 DEF LimitStep
  <2> QED
    BY <1>3, <2>4, <2>6
<1> QED
  BY <1>2, <1>3, <1>4, <1>5 DEF limits, AfterFirst

-----------------------------------------------------------------------------
(* The broker: its invariant *)

\* A limit order has its price.
LimitsPriced == \A i \in DOMAIN book.orders : book.orders[i].kind = "LIMIT" => book.orders[i].limit # None
BookInv == BookHolds /\ LimitsPriced

Priced(b) == \A i \in DOMAIN b.orders : b.orders[i].kind = "LIMIT" => b.orders[i].limit \in LimitPrices

\* The limits among the first k orders of b that the price crossed are filled in
\* c; nothing else was, and a stop that is left still protects something.
FilledTo(b, c, s, price, k) ==
  /\ c \in Book /\ DOMAIN c.orders = DOMAIN b.orders
  /\ \A i \in DOMAIN b.orders :
       c.orders[i] = IF i <= k /\ IsCrossed(b.orders[i], s, price) THEN [b.orders[i] EXCEPT !.status = "FILLED"]
                     ELSE b.orders[i]
  /\ \A q \in Symbols \ {s} : c.pos[q] = b.pos[q] /\ c.stops[q] = b.stops[q]
  /\ c.stops[s] # NoStop => c.pos[s].qty # 0

\* One more limit.
LEMMA OneLimit ==
  ASSUME NEW b \in Book, Priced(b), NEW s \in Symbols, NEW price \in Prices, NEW k \in 1 .. Len(b.orders),
         NEW c, FilledTo(b, c, s, price, k - 1)
  PROVE  FilledTo(b, IF IsCrossed(b.orders[k], s, price) THEN FillLimit(c, k) ELSE c, s, price, k)
<1>1. b.orders \in Seq(Order) /\ DOMAIN b.orders = 1 .. Len(b.orders) /\ Len(b.orders) \in Nat
  BY DEF Book
<1>2. CASE ~IsCrossed(b.orders[k], s, price)
  <2>1. \A i \in DOMAIN b.orders : (i <= k /\ IsCrossed(b.orders[i], s, price)) <=>
                                   (i <= k - 1 /\ IsCrossed(b.orders[i], s, price))
    <3>1. \A i \in DOMAIN b.orders : i <= k <=> (i <= k - 1 \/ i = k)
      BY <1>1
    <3> QED
      BY <1>2, <3>1
  <2> QED
    BY <1>2, <2>1 DEF FilledTo
<1>3. CASE IsCrossed(b.orders[k], s, price)
  <2> DEFINE d == FillLimit(c, k)
             o == c.orders[k]
  <2>1. /\ c \in Book /\ k \in DOMAIN c.orders /\ o = b.orders[k]
        /\ DOMAIN c.orders = DOMAIN b.orders
    <3>1. ~(k <= k - 1) /\ k \in DOMAIN b.orders
      BY <1>1
    <3> QED
      BY <3>1 DEF FilledTo
  <2>2. o.sym = s /\ o.limit \in Int /\ MakerBps \in Nat
    BY <1>1, <1>3, <2>1, MoneyAssumption DEF IsCrossed, Priced
  <2>3. /\ d \in Book
        /\ d.orders = [c.orders EXCEPT ![k].status = "FILLED"]
        /\ \A q \in Symbols \ {s} : d.pos[q] = c.pos[q] /\ d.stops[q] = c.stops[q]
        /\ d.pos[s].qty = c.pos[s].qty + Signed(o)
        /\ d.stops[s] = IF StopSurvives(c.pos[s], Signed(o)) THEN c.stops[s] ELSE NoStop
    <3>1. IsFilled(c, k, d)
      BY <2>1, <2>2, Filled DEF FillLimit
    <3> HIDE DEF d
    <3> QED
      BY <2>2, <3>1 DEF IsFilled
  <2> HIDE DEF d
  <2>4. d.stops[s] # NoStop => d.pos[s].qty # 0
    BY <2>3 DEF StopSurvives
  <2>5. DOMAIN d.orders = DOMAIN b.orders
    BY <2>1, <2>3
  <2>6. ASSUME NEW i \in DOMAIN b.orders
        PROVE  d.orders[i] = IF i <= k /\ IsCrossed(b.orders[i], s, price) THEN [b.orders[i] EXCEPT !.status = "FILLED"]
                             ELSE b.orders[i]
    <3>1. CASE i = k
      BY <1>1, <1>3, <2>1, <2>3, <3>1
    <3>2. CASE i # k
      <4>1. d.orders[i] = c.orders[i]
        BY <2>3, <3>2, <2>1
      <4>2. i <= k <=> i <= k - 1
        BY <1>1, <3>2
      <4> QED
        BY <4>1, <4>2 DEF FilledTo
    <3> QED
      BY <3>1, <3>2
  <2>7. \A q \in Symbols \ {s} : d.pos[q] = b.pos[q] /\ d.stops[q] = b.stops[q]
    BY <2>3 DEF FilledTo
  <2>8. FilledTo(b, d, s, price, k)
    BY <2>3, <2>4, <2>5, <2>6, <2>7 DEF FilledTo
  <2> QED
    BY <1>3, <2>8 DEF d
<1> QED
  BY <1>2, <1>3

\* What the limits of a tick leave behind.
LEMMA LimitsFilled ==
  ASSUME NEW b \in Book, Priced(b), NEW s \in Symbols, NEW price \in Prices,
         b.stops[s] # NoStop => b.pos[s].qty # 0
  PROVE  FilledTo(b, AfterLimits(b, s, price), s, price, Len(b.orders))
<1> DEFINE n == Len(b.orders)
           Done(k) == FilledTo(b, AfterFirst(b, s, price, k), s, price, k)
           undone == {k \in Nat : k <= n /\ ~Done(k)}
<1>1. n \in Nat /\ DOMAIN b.orders = 1 .. n
  BY DEF Book
<1>2. /\ AfterFirst(b, s, price, 0) = b
      /\ \A k \in 1 .. n : AfterFirst(b, s, price, k) =
            IF IsCrossed(b.orders[k], s, price) THEN FillLimit(AfterFirst(b, s, price, k - 1), k)
            ELSE AfterFirst(b, s, price, k - 1)
      /\ AfterLimits(b, s, price) = AfterFirst(b, s, price, n)
  BY <1>1, LimitsInOrder
<1> HIDE DEF n
<1>3. Done(0)
  <2>1. \A i \in DOMAIN b.orders : ~(i <= 0)
    BY <1>1
  <2> QED
    BY <1>2, <2>1 DEF FilledTo
<1>4. undone = {}
  <2> SUFFICES ASSUME undone # {} PROVE FALSE
    OBVIOUS
  <2>1. PICK k \in undone : \A m \in undone : k <= m
    BY SmallestMember
  <2>2. k # 0
    BY <1>3, <2>1
  <2>3. k \in 1 .. n /\ k - 1 \in Nat /\ k - 1 <= n /\ ~(k <= k - 1)
    BY <1>1, <2>1, <2>2
  <2>4. Done(k - 1)
    BY <2>1, <2>3
  <2>5. Done(k)
    <3>1. FilledTo(b, IF IsCrossed(b.orders[k], s, price) THEN FillLimit(AfterFirst(b, s, price, k - 1), k)
                      ELSE AfterFirst(b, s, price, k - 1), s, price, k)
      BY <2>3, <2>4, OneLimit DEF n
    <3> QED
      BY <1>2, <2>3, <3>1, Zenon
  <2> QED
    BY <2>1, <2>5
<1>5. Done(n)
  BY <1>1, <1>4
<1> QED
  BY <1>2, <1>5 DEF n

\* An order takes its place in the list.
LEMMA OrderPlaced ==
  ASSUME NEW b \in Book, NEW o \in Order
  PROVE  /\ Placed(b, o) \in Book
         /\ Placed(b, o).orders = Append(b.orders, o) /\ Placed(b, o).pos = b.pos /\ Placed(b, o).stops = b.stops
         /\ Len(b.orders) \in Nat /\ DOMAIN b.orders = 1 .. Len(b.orders)
         /\ Len(Placed(b, o).orders) = Len(b.orders) + 1
         /\ DOMAIN Placed(b, o).orders = 1 .. (Len(b.orders) + 1)
         /\ \A i \in 1 .. Len(b.orders) : Placed(b, o).orders[i] = b.orders[i]
         /\ Placed(b, o).orders[Len(b.orders) + 1] = o
<1>1. b.orders \in Seq(Order)
  BY DEF Book
<1>2. Placed(b, o).orders = Append(b.orders, o) /\ Placed(b, o).pos = b.pos /\ Placed(b, o).stops = b.stops
  BY DEF Placed, Book
<1>3. Placed(b, o) \in Book
  <2>1. Append(b.orders, o) \in Seq(Order)
    BY <1>1
  <2> QED
    BY <2>1 DEF Placed, Book
<1> QED
  BY <1>1, <1>2, <1>3

\* A market order has a price.
LEMMA MarketTyped ==
  ASSUME NEW side, NEW mark \in Prices
  PROVE  mark \in Int /\ MarketPrice(side, mark) \in Int
<1>1. mark \in Nat /\ SlippageBps \in Nat
  BY MoneyAssumption
<1>2. mark * SlippageBps \in Int
  BY <1>1
<1>3. (mark * SlippageBps) \div 10000 \in Int
  BY <1>2
<1> QED
  BY <1>1, <1>3 DEF MarketPrice

\* c is b after the stop of s fired: the position shrank and did not turn.
StopFilled(b, c, s) ==
  /\ c \in Book
  /\ DOMAIN c.orders = 1 .. (Len(b.orders) + 1)
  /\ \A i \in 1 .. Len(b.orders) : c.orders[i] = b.orders[i]
  /\ c.orders[Len(b.orders) + 1].kind = "MARKET"
  /\ \A q \in Symbols \ {s} : c.pos[q] = b.pos[q] /\ c.stops[q] = b.stops[q]
  /\ c.stops[s] = NoStop
  /\ Magnitude(c.pos[s].qty) < Magnitude(b.pos[s].qty)
  /\ ~SameSide(c.pos[s].qty, -b.pos[s].qty)

Untouched(b, s, price) == b.stops[s] = NoStop \/ ~Hit(b.pos[s].qty, b.stops[s].price, price)

\* A stop that the price reached is filled for no more than is held.
LEMMA StopTriggers ==
  ASSUME NEW b \in Book, NEW s \in Symbols, NEW price \in Prices
  PROVE  \/ AfterStop(b, s, price) = b /\ Untouched(b, s, price)
         \/ StopFilled(b, AfterStop(b, s, price), s)
<1> DEFINE p == b.pos[s]
           stop == b.stops[s]
           size == Magnitude(p.qty)
           exit == [sym |-> s, side |-> IF p.qty > 0 THEN "SELL" ELSE "BUY", kind |-> "MARKET",
                    qty |-> IF stop.qty = None \/ stop.qty > size THEN size ELSE stop.qty,
                    limit |-> None, status |-> "PENDING"]
           bare == [b EXCEPT !.stops[s] = NoStop]
           exiting == Placed(bare, exit)
           c == AfterStop(b, s, price)
           n == Len(b.orders)
<1>1. /\ b.orders \in Seq(Order) /\ b.pos \in [Symbols -> Position] /\ b.stops \in [Symbols -> Stop \cup {NoStop}]
      /\ p.qty \in Int /\ n \in Nat
  BY DEF Book, Position
<1>2. c = IF stop # NoStop /\ Hit(p.qty, stop.price, price) THEN FillMarket(exiting, Len(exiting.orders), price) ELSE b
  BY DEF AfterStop
<1>3. CASE ~(stop # NoStop /\ Hit(p.qty, stop.price, price))
  BY <1>2, <1>3 DEF Untouched
<1>4. CASE stop # NoStop /\ Hit(p.qty, stop.price, price)
  <2>1. p.qty # 0 /\ stop \in Stop
    BY <1>1, <1>4 DEF Hit
  <2>2. size \in Nat \ {0} /\ (stop.qty # None => stop.qty \in Nat \ {0})
    BY <1>1, <2>1 DEF Magnitude, Stop
  <2>3. exit.qty \in 1 .. size
    BY <2>2
  <2>4. exit \in Order
    <3>1. exit.qty \in Nat \ {0}
      BY <2>2, <2>3
    <3> HIDE DEF size, stop
    <3> QED
      BY <3>1 DEF Order
  <2>5. /\ bare \in Book /\ bare.orders = b.orders /\ bare.pos = b.pos
        /\ bare.stops[s] = NoStop /\ \A q \in Symbols \ {s} : bare.stops[q] = b.stops[q]
    BY <1>1 DEF Book
  <2>6. Signed(exit) = (IF p.qty > 0 THEN -exit.qty ELSE exit.qty) /\ exit.sym = s /\ exit.kind = "MARKET"
    BY DEF Signed
  <2> HIDE DEF exit, bare
  <2>7. /\ exiting \in Book /\ Len(exiting.orders) = n + 1 /\ exiting.pos = b.pos
        /\ exiting.stops[s] = NoStop /\ \A q \in Symbols \ {s} : exiting.stops[q] = b.stops[q]
        /\ DOMAIN exiting.orders = 1 .. (n + 1) /\ \A i \in 1 .. n : exiting.orders[i] = b.orders[i]
        /\ exiting.orders[n + 1] = exit
    BY <2>4, <2>5, OrderPlaced
  <2> HIDE DEF exiting, n, c
  <2>8. c = Fill(exiting, n + 1, MarketPrice(exit.side, price), TakerBps)
    BY <1>2, <1>4, <2>7 DEF FillMarket
  <2>9. IsFilled(exiting, n + 1, c)
    <3>1. MarketPrice(exit.side, price) \in Int /\ TakerBps \in Nat /\ n + 1 \in DOMAIN exiting.orders
      BY <1>1, <2>7, MarketTyped, MoneyAssumption
    <3> QED
      BY <2>7, <2>8, <3>1, Filled
  <2>10. /\ c \in Book
         /\ c.orders = [exiting.orders EXCEPT ![n + 1].status = "FILLED"]
         /\ \A q \in Symbols \ {s} : c.pos[q] = b.pos[q] /\ c.stops[q] = b.stops[q]
         /\ c.pos[s].qty = p.qty + Signed(exit)
         /\ c.stops[s] = NoStop
    BY <2>6, <2>7, <2>9 DEF IsFilled
  <2>11. /\ DOMAIN c.orders = 1 .. (n + 1)
         /\ \A i \in 1 .. n : c.orders[i] = b.orders[i]
    BY <1>1, <2>7, <2>10
  <2>12. c.orders[n + 1].kind = "MARKET"
    <3>1. c.orders[n + 1] = [exit EXCEPT !.status = "FILLED"] /\ exit \in Order
      BY <1>1, <2>4, <2>7, <2>10
    <3> QED
      BY <2>6, <3>1 DEF Order
  <2>13. Magnitude(c.pos[s].qty) < size /\ ~SameSide(c.pos[s].qty, -p.qty)
    BY <1>1, <2>1, <2>2, <2>3, <2>6, <2>10 DEF Magnitude, SameSide
  <2>14. StopFilled(b, c, s)
    BY <2>10, <2>11, <2>12, <2>13 DEF StopFilled, n
  <2> QED
    BY <2>14 DEF c
<1> QED
  BY <1>3, <1>4

\* A tick fills the limits it crosses and the stop it reaches.
LEMMA TickKeeps ==
  ASSUME BookInv, NEW s \in Symbols, NEW price \in Prices, ProcessPrice(s, price)
  PROVE  BookInv' /\ TickOnlyReduces
<1> DEFINE n == Len(book.orders)
           mid == AfterLimits(book, s, price)
<1>1. /\ book \in Book /\ marks \in [Symbols -> Prices \cup {None}]
      /\ marks' = [marks EXCEPT ![s] = price] /\ book' = AfterStop(mid, s, price)
      /\ n \in Nat /\ DOMAIN book.orders = 1 .. n /\ \A i \in 1 .. n : book.orders[i] \in Order
  BY DEF BookInv, BookHolds, TypeOK, ProcessPrice, AfterTick, Book
<1>2. marks' \in [Symbols -> Prices \cup {None}] /\ marks'[s] = price /\ \A q \in Symbols \ {s} : marks'[q] = marks[q]
  BY <1>1
<1>3. FilledTo(book, mid, s, price, n)
  <2>1. Priced(book)
    BY <1>1 DEF BookInv, LimitsPriced, Priced, Order
  <2>2. book.stops[s] # NoStop => book.pos[s].qty # 0
    BY DEF BookInv, BookHolds, StopStillArmed
  <2> QED
    BY <1>1, <2>1, <2>2, LimitsFilled
<1> HIDE DEF mid, n
<1>4. /\ mid \in Book /\ DOMAIN mid.orders = 1 .. n /\ Len(mid.orders) = n
      /\ \A q \in Symbols \ {s} : mid.pos[q] = book.pos[q] /\ mid.stops[q] = book.stops[q]
      /\ mid.stops[s] # NoStop => mid.pos[s].qty # 0
      /\ \A i \in 1 .. n :
           mid.orders[i] = IF IsCrossed(book.orders[i], s, price) THEN [book.orders[i] EXCEPT !.status = "FILLED"]
                           ELSE book.orders[i]
  <2>1. /\ mid \in Book /\ DOMAIN mid.orders = 1 .. n
        /\ \A q \in Symbols \ {s} : mid.pos[q] = book.pos[q] /\ mid.stops[q] = book.stops[q]
        /\ mid.stops[s] # NoStop => mid.pos[s].qty # 0
    BY <1>1, <1>3 DEF FilledTo
  <2>2. Len(mid.orders) = n
    <3>1. mid.orders \in Seq(Order)
      BY <2>1 DEF Book
    <3> QED
      BY <1>1, <2>1, <3>1
  <2>3. \A i \in 1 .. n : i <= n
    BY <1>1
  <2> QED
    BY <1>1, <1>3, <2>1, <2>2, <2>3 DEF FilledTo
<1>5. \/ book' = mid /\ Untouched(mid, s, price)
      \/ StopFilled(mid, book', s)
  BY <1>1, <1>4, StopTriggers
<1>6. /\ book' \in Book
      /\ DOMAIN book'.orders = 1 .. n \/ (DOMAIN book'.orders = 1 .. (n + 1) /\ book'.orders[n + 1].kind = "MARKET")
      /\ \A i \in 1 .. n : book'.orders[i] = mid.orders[i]
      /\ \A q \in Symbols \ {s} : book'.pos[q] = book.pos[q] /\ book'.stops[q] = book.stops[q]
  BY <1>4, <1>5 DEF StopFilled
<1>7. \A i \in DOMAIN book'.orders : book'.orders[i].kind = "MARKET" \/ i \in 1 .. n
  BY <1>1, <1>6
<1>8. StopStillArmed'
  <2> SUFFICES ASSUME NEW q \in Symbols, book'.stops[q] # NoStop
               PROVE  book'.pos[q].qty # 0 /\ ~Hit(book'.pos[q].qty, book'.stops[q].price, marks'[q])
    BY DEF StopStillArmed
  <2>1. CASE q = s
    BY <1>2, <1>4, <1>5, <2>1 DEF StopFilled, Untouched
  <2>2. CASE q # s
    BY <1>2, <1>6, <2>2 DEF BookInv, BookHolds, StopStillArmed
  <2> QED
    BY <2>1, <2>2
<1>9. ASSUME NEW i \in 1 .. n
      PROVE  /\ mid.orders[i].sym = book.orders[i].sym /\ mid.orders[i].kind = book.orders[i].kind
             /\ mid.orders[i].limit = book.orders[i].limit
             /\ mid.orders[i].status = "PENDING" =>
                  mid.orders[i] = book.orders[i] /\ ~IsCrossed(book.orders[i], s, price)
  BY <1>1, <1>4, ZenonT(40) DEF Order
<1>10. NoCrossedLimitRests'
  <2> SUFFICES ASSUME NEW i \in DOMAIN book'.orders,
                      book'.orders[i].kind = "LIMIT", book'.orders[i].status = "PENDING",
                      marks'[book'.orders[i].sym] # None
               PROVE  ~Crosses(book'.orders[i], marks'[book'.orders[i].sym])
    BY DEF NoCrossedLimitRests
  <2>1. i \in 1 .. n /\ book'.orders[i] = book.orders[i] /\ ~IsCrossed(book.orders[i], s, price)
    BY <1>6, <1>7, <1>9
  <2>2. book.orders[i].sym \in Symbols
    BY <1>1, <2>1 DEF Order
  <2>3. CASE book.orders[i].sym = s
    BY <1>2, <2>1, <2>3 DEF IsCrossed
  <2>4. CASE book.orders[i].sym # s
    BY <1>1, <1>2, <2>1, <2>2, <2>4 DEF BookInv, BookHolds, NoCrossedLimitRests
  <2> QED
    BY <2>3, <2>4
<1>11. LimitsPriced'
  <2> SUFFICES ASSUME NEW i \in DOMAIN book'.orders, book'.orders[i].kind = "LIMIT"
               PROVE  book'.orders[i].limit # None
    BY DEF LimitsPriced
  <2>1. /\ i \in DOMAIN book.orders
        /\ book'.orders[i].kind = book.orders[i].kind /\ book'.orders[i].limit = book.orders[i].limit
    BY <1>1, <1>6, <1>7, <1>9
  <2> QED
    BY <2>1 DEF BookInv, LimitsPriced
<1>12. TickOnlyReduces
  <2> SUFFICES ASSUME NEW q \in Symbols, NEW other \in Prices, ProcessPrice(q, other)
               PROVE  \/ book'.pos[q].qty = AfterLimits(book, q, other).pos[q].qty
                      \/ /\ Magnitude(book'.pos[q].qty) < Magnitude(AfterLimits(book, q, other).pos[q].qty)
                         /\ ~SameSide(book'.pos[q].qty, -AfterLimits(book, q, other).pos[q].qty)
    BY DEF TickOnlyReduces
  <2> DEFINE left == AfterLimits(book, q, other)
  <2>1. book' = AfterStop(left, q, other)
    BY DEF ProcessPrice, AfterTick
  <2>2. left \in Book
    <3>1. Priced(book)
      BY <1>1 DEF BookInv, LimitsPriced, Priced, Order
    <3>2. book.stops[q] # NoStop => book.pos[q].qty # 0
      BY DEF BookInv, BookHolds, StopStillArmed
    <3> QED
      BY <1>1, <3>1, <3>2, LimitsFilled DEF FilledTo
  <2> HIDE DEF left
  <2>3. book' = left \/ StopFilled(left, book', q)
    BY <2>1, <2>2, StopTriggers
  <2> QED
    BY <2>3 DEF StopFilled, left
<1> QED
  BY <1>2, <1>6, <1>8, <1>10, <1>11, <1>12 DEF BookInv, BookHolds, TypeOK

\* An order that is placed fills at once, or rests.
LEMMA SubmitKeeps ==
  ASSUME BookInv, NEW o \in Order, o.kind = "LIMIT" => o.limit \in LimitPrices, SubmitOrder(o)
  PROVE  BookInv'
<1> DEFINE n == Len(book.orders)
           placed == Placed(book, o)
           mark == marks[o.sym]
           s == o.sym
<1>1. book \in Book /\ marks \in [Symbols -> Prices \cup {None}] /\ marks' = marks /\ s \in Symbols
  BY DEF BookInv, BookHolds, TypeOK, SubmitOrder, Order
<1>2. /\ placed \in Book /\ placed.pos = book.pos /\ placed.stops = book.stops
      /\ n \in Nat /\ Len(placed.orders) = n + 1
      /\ DOMAIN book.orders = 1 .. n /\ DOMAIN placed.orders = 1 .. (n + 1)
      /\ \A i \in 1 .. n : placed.orders[i] = book.orders[i]
      /\ placed.orders[n + 1] = o
  BY <1>1, OrderPlaced
<1>3. book' = CASE mark = None -> placed
                [] mark # None /\ o.kind = "MARKET" -> FillMarket(placed, n + 1, mark)
                [] mark # None /\ o.kind = "LIMIT" /\ Crosses(o, mark) -> FillLimit(placed, n + 1)
                [] OTHER -> placed
  BY <1>2 DEF SubmitOrder
<1> HIDE DEF n, placed, mark
<1>4. o.kind \in {"MARKET", "LIMIT"}
  BY DEF Order
<1>5. \/ book' = placed /\ (o.kind = "LIMIT" /\ mark # None => ~Crosses(o, mark))
      \/ \E price \in Int, bps \in Nat : book' = Fill(placed, n + 1, price, bps)
  <2>1. CASE mark # None /\ o.kind = "MARKET"
    <3>1. book' = Fill(placed, n + 1, MarketPrice(o.side, mark), TakerBps)
      BY <1>2, <1>3, <2>1 DEF FillMarket
    <3>2. mark \in Prices /\ TakerBps \in Nat
      BY <1>1, <2>1, MoneyAssumption DEF mark
    <3>3. MarketPrice(o.side, mark) \in Int
      BY <3>2, MarketTyped
    <3> QED
      BY <3>1, <3>2, <3>3
  <2>2. CASE mark # None /\ o.kind = "LIMIT" /\ Crosses(o, mark)
    <3>1. book' = Fill(placed, n + 1, o.limit, MakerBps)
      BY <1>2, <1>3, <2>2 DEF FillLimit
    <3>2. o.limit \in Int /\ MakerBps \in Nat
      BY <2>2, MoneyAssumption
    <3> QED
      BY <3>1, <3>2
  <2>3. CASE mark = None
    BY <1>3, <2>3
  <2>4. CASE mark # None /\ o.kind = "LIMIT" /\ ~Crosses(o, mark)
    BY <1>3, <2>4
  <2> QED
    BY <1>4, <2>1, <2>2, <2>3, <2>4
<1>6. \/ book' = placed /\ (o.kind = "LIMIT" /\ mark # None => ~Crosses(o, mark))
      \/ IsFilled(placed, n + 1, book')
  <2>1. n + 1 \in DOMAIN placed.orders
    BY <1>2
  <2> QED
    BY <1>2, <1>5, <2>1, Filled
<1>7. /\ book' \in Book
      /\ DOMAIN book'.orders = 1 .. (n + 1)
      /\ \A i \in 1 .. n : book'.orders[i] = book.orders[i]
      /\ book'.orders[n + 1] = o \/ book'.orders[n + 1] = [o EXCEPT !.status = "FILLED"]
      /\ \A q \in Symbols \ {s} : book'.pos[q] = book.pos[q] /\ book'.stops[q] = book.stops[q]
  <2>1. CASE book' = placed
    BY <1>2, <2>1
  <2>2. CASE IsFilled(placed, n + 1, book')
    <3>1. /\ book' \in Book /\ book'.orders = [placed.orders EXCEPT ![n + 1].status = "FILLED"]
          /\ \A q \in Symbols \ {s} : book'.pos[q] = book.pos[q] /\ book'.stops[q] = book.stops[q]
      BY <1>2, <2>2 DEF IsFilled
    <3> QED
      BY <1>2, <3>1
  <2> QED
    BY <1>6, <2>1, <2>2
<1>8. StopStillArmed'
  <2> SUFFICES ASSUME NEW q \in Symbols, book'.stops[q] # NoStop
               PROVE  book'.pos[q].qty # 0 /\ ~Hit(book'.pos[q].qty, book'.stops[q].price, marks[q])
    BY <1>1 DEF StopStillArmed
  <2>1. CASE q # s \/ book' = placed
    <3>1. book'.pos[q] = book.pos[q] /\ book'.stops[q] = book.stops[q]
      BY <1>2, <1>7, <2>1
    <3> QED
      BY <3>1 DEF BookInv, BookHolds, StopStillArmed
  <2>2. CASE q = s /\ IsFilled(placed, n + 1, book')
    <3>1. /\ book'.pos[s].qty = book.pos[s].qty + Signed(o)
          /\ book'.stops[s] = IF StopSurvives(book.pos[s], Signed(o)) THEN book.stops[s] ELSE NoStop
      BY <1>2, <2>2 DEF IsFilled
    <3>2. book.stops[s] # NoStop /\ book'.stops[s] = book.stops[s] /\ StopSurvives(book.pos[s], Signed(o))
      BY <2>2, <3>1
    <3>3. book.pos[s].qty # 0 /\ ~Hit(book.pos[s].qty, book.stops[s].price, marks[s])
      BY <1>1, <3>2 DEF BookInv, BookHolds, StopStillArmed
    <3>4. book'.pos[s].qty # 0 /\ SameSide(book.pos[s].qty, book'.pos[s].qty)
      BY <3>1, <3>2, <3>3 DEF StopSurvives
    <3>5. book.pos[s].qty \in Int /\ book'.pos[s].qty \in Int
      BY <1>1, <1>7 DEF Book, Position
    <3>6. ~Hit(book'.pos[s].qty, book.stops[s].price, marks[s])
      BY <3>3, <3>4, <3>5 DEF Hit, SameSide
    <3> QED
      BY <2>2, <3>2, <3>4, <3>6
  <2> QED
    BY <1>6, <2>1, <2>2
<1>9. NoCrossedLimitRests'
  <2> SUFFICES ASSUME NEW i \in DOMAIN book'.orders,
                      book'.orders[i].kind = "LIMIT", book'.orders[i].status = "PENDING",
                      marks[book'.orders[i].sym] # None
               PROVE  ~Crosses(book'.orders[i], marks[book'.orders[i].sym])
    BY <1>1 DEF NoCrossedLimitRests
  <2>1. CASE i \in 1 .. n
    BY <1>2, <1>7, <2>1 DEF BookInv, BookHolds, NoCrossedLimitRests
  <2>2. CASE i = n + 1
    <3>1. book'.orders[i] = o
      BY <1>7, <2>2 DEF Order
    <3>2. ~IsFilled(placed, n + 1, book')
      <4>1. IsFilled(placed, n + 1, book') => book'.orders[n + 1] = [o EXCEPT !.status = "FILLED"]
        BY <1>2 DEF IsFilled
      <4> QED
        BY <2>2, <4>1 DEF Order
    <3> QED
      BY <1>6, <2>2, <3>1, <3>2 DEF mark
  <2> QED
    BY <1>2, <1>7, <2>1, <2>2
<1>10. LimitsPriced'
  <2> SUFFICES ASSUME NEW i \in DOMAIN book'.orders, book'.orders[i].kind = "LIMIT"
               PROVE  book'.orders[i].limit # None
    BY DEF LimitsPriced
  <2>1. CASE i \in 1 .. n
    BY <1>2, <1>7, <2>1 DEF BookInv, LimitsPriced
  <2>2. CASE i = n + 1
    <3>1. book'.orders[i].kind = o.kind /\ book'.orders[i].limit = o.limit
      BY <1>7, <2>2 DEF Order
    <3> QED
      BY <3>1, MoneyAssumption
  <2> QED
    BY <1>2, <1>7, <2>1, <2>2
<1> QED
  BY <1>1, <1>7, <1>8, <1>9, <1>10 DEF BookInv, BookHolds, TypeOK

\* A resting order is withdrawn.
LEMMA CancelKeeps ==
  ASSUME BookInv, NEW i \in DOMAIN book.orders, CancelOrder(i)
  PROVE  BookInv'
<1> DEFINE orders == [book.orders EXCEPT ![i].status = "CANCELED"]
<1>1. book \in Book /\ book.orders \in Seq(Order) /\ marks' = marks
  BY DEF BookInv, BookHolds, TypeOK, Book, CancelOrder
<1>2. book' = [book EXCEPT !.orders = orders]
  BY DEF CancelOrder
<1>3. /\ orders \in Seq(Order) /\ DOMAIN orders = DOMAIN book.orders
      /\ orders[i] = [book.orders[i] EXCEPT !.status = "CANCELED"]
      /\ \A j \in DOMAIN book.orders : j # i => orders[j] = book.orders[j]
  <2>1. book.orders[i] \in Order
    BY <1>1
  <2>2. [book.orders[i] EXCEPT !.status = "CANCELED"] \in Order
    BY <2>1 DEF Order
  <2>3. orders = [book.orders EXCEPT ![i] = [book.orders[i] EXCEPT !.status = "CANCELED"]]
    OBVIOUS
  <2> HIDE DEF orders
  <2> QED
    BY <1>1, <2>2, <2>3
<1> HIDE DEF orders
<1>4. book' \in Book /\ book'.orders = orders /\ book'.pos = book.pos /\ book'.stops = book.stops
  BY <1>1, <1>2, <1>3 DEF Book
<1>5. \A j \in DOMAIN orders :
        /\ orders[j].kind = book.orders[j].kind /\ orders[j].limit = book.orders[j].limit
        /\ orders[j].sym = book.orders[j].sym
        /\ orders[j].status = "PENDING" => orders[j] = book.orders[j]
  <2> TAKE j \in DOMAIN orders
  <2>1. CASE j = i
    <3>1. book.orders[i] \in Order
      BY <1>1
    <3> QED
      BY <1>3, <2>1, <3>1 DEF Order
  <2>2. CASE j # i
    BY <1>3, <2>2
  <2> QED
    BY <2>1, <2>2
<1>6. StopStillArmed'
  BY <1>1, <1>4 DEF BookInv, BookHolds, StopStillArmed
<1>7. NoCrossedLimitRests'
  BY <1>1, <1>3, <1>4, <1>5 DEF BookInv, BookHolds, NoCrossedLimitRests
<1>8. LimitsPriced'
  BY <1>3, <1>4, <1>5 DEF BookInv, LimitsPriced
<1> QED
  BY <1>1, <1>4, <1>6, <1>7, <1>8 DEF BookInv, BookHolds, TypeOK

\* A stop is set on the right side of the market, or withdrawn.
LEMMA StopSetKeeps ==
  ASSUME BookInv, NEW s \in Symbols, NEW stop \in Stop \cup {NoStop},
         book' = [book EXCEPT !.stops[s] = stop], marks' = marks,
         stop # NoStop => book.pos[s].qty # 0 /\ ~Hit(book.pos[s].qty, stop.price, marks[s])
  PROVE  BookInv'
<1>1. book \in Book /\ book.stops \in [Symbols -> Stop \cup {NoStop}]
  BY DEF BookInv, BookHolds, TypeOK, Book
<1>2. /\ book' \in Book /\ book'.orders = book.orders /\ book'.pos = book.pos
      /\ book'.stops[s] = stop /\ \A q \in Symbols \ {s} : book'.stops[q] = book.stops[q]
  <2>1. [book.stops EXCEPT ![s] = stop] \in [Symbols -> Stop \cup {NoStop}]
    BY <1>1
  <2>2. book' = [book EXCEPT !.stops = [book.stops EXCEPT ![s] = stop]]
    OBVIOUS
  <2>3. book' \in Book /\ book'.orders = book.orders /\ book'.pos = book.pos
        /\ book'.stops = [book.stops EXCEPT ![s] = stop]
    BY <1>1, <2>1, <2>2 DEF Book
  <2> QED
    BY <1>1, <2>3
<1>3. StopStillArmed'
  <2> SUFFICES ASSUME NEW q \in Symbols, book'.stops[q] # NoStop
               PROVE  book.pos[q].qty # 0 /\ ~Hit(book.pos[q].qty, book'.stops[q].price, marks[q])
    BY <1>2 DEF StopStillArmed
  <2>1. CASE q = s
    BY <1>2, <2>1
  <2>2. CASE q # s
    BY <1>2, <2>2 DEF BookInv, BookHolds, StopStillArmed
  <2> QED
    BY <2>1, <2>2
<1>4. NoCrossedLimitRests' /\ LimitsPriced'
  BY <1>2 DEF BookInv, BookHolds, NoCrossedLimitRests, LimitsPriced
<1> QED
  BY <1>2, <1>3, <1>4 DEF BookInv, BookHolds, TypeOK

\* Every step of the broker keeps it, and a tick's stop only reduces.
LEMMA BookStepKeeps == BookInv /\ [Next]_vars => BookInv' /\ TickOnlyReduces
<1> SUFFICES ASSUME BookInv, [Next]_vars PROVE BookInv' /\ TickOnlyReduces
  OBVIOUS
<1>1. TickOnlyReduces
  BY TickKeeps DEF TickOnlyReduces
<1>2. ASSUME NEW s \in Symbols, NEW side \in {"BUY", "SELL"}, NEW q \in Quantities, SubmitMarket(s, side, q)
      PROVE  BookInv'
  <2> DEFINE o == [sym |-> s, side |-> side, kind |-> "MARKET", qty |-> q, limit |-> None, status |-> "PENDING"]
  <2>1. o \in Order /\ o.kind # "LIMIT"
    BY MoneyAssumption DEF Order
  <2>2. SubmitOrder(o)
    BY <1>2 DEF SubmitMarket
  <2> HIDE DEF o
  <2> QED
    BY <2>1, <2>2, SubmitKeeps
<1>3. ASSUME NEW s \in Symbols, NEW side \in {"BUY", "SELL"}, NEW q \in Quantities, NEW limit \in LimitPrices,
             SubmitLimit(s, side, q, limit)
      PROVE  BookInv'
  <2> DEFINE o == [sym |-> s, side |-> side, kind |-> "LIMIT", qty |-> q, limit |-> limit, status |-> "PENDING"]
  <2>1. o \in Order /\ o.limit \in LimitPrices
    BY MoneyAssumption DEF Order
  <2>2. SubmitOrder(o)
    BY <1>3 DEF SubmitLimit
  <2> HIDE DEF o
  <2> QED
    BY <2>1, <2>2, SubmitKeeps
<1>4. ASSUME NEW i \in 1 .. Len(book.orders), CancelOrder(i) PROVE BookInv'
  <2>1. i \in DOMAIN book.orders
    BY <1>4 DEF CancelOrder
  <2> QED
    BY <1>4, <2>1, CancelKeeps
<1>5. ASSUME NEW s \in Symbols, NEW price \in StopPrices, NEW q \in Quantities \cup {None}, SetStopLoss(s, price, q)
      PROVE  BookInv'
  <2> DEFINE stop == [price |-> price, qty |-> q]
  <2>1. stop \in Stop
    BY MoneyAssumption DEF Stop
  <2>2. /\ book' = [book EXCEPT !.stops[s] = stop] /\ marks' = marks
        /\ book.pos[s].qty # 0 /\ ~Hit(book.pos[s].qty, stop.price, marks[s])
    BY <1>5 DEF SetStopLoss
  <2> HIDE DEF stop
  <2> QED
    BY <2>1, <2>2, StopSetKeeps
<1>6. ASSUME NEW s \in Symbols, CancelStopLoss(s) PROVE BookInv'
  BY <1>6, StopSetKeeps DEF CancelStopLoss
<1>7. ASSUME NEW s \in Symbols, NEW price \in Prices, ProcessPrice(s, price) PROVE BookInv'
  BY <1>7, TickKeeps
<1>8. CASE UNCHANGED vars
  BY <1>1, <1>8 DEF vars, BookInv, BookHolds, TypeOK, StopStillArmed, NoCrossedLimitRests, LimitsPriced
<1>9. CASE Next
  <2>1. CASE \E s \in Symbols, side \in {"BUY", "SELL"}, q \in Quantities :
               SubmitMarket(s, side, q) \/ \E limit \in LimitPrices : SubmitLimit(s, side, q, limit)
    BY <1>1, <1>2, <1>3, <2>1
  <2>2. CASE \E i \in 1 .. Len(book.orders) : CancelOrder(i)
    BY <1>1, <1>4, <2>2
  <2>3. CASE \E s \in Symbols, price \in StopPrices, q \in Quantities \cup {None} : SetStopLoss(s, price, q)
    BY <1>1, <1>5, <2>3
  <2>4. CASE \E s \in Symbols : CancelStopLoss(s) \/ \E price \in Prices : ProcessPrice(s, price)
    BY <1>1, <1>6, <1>7, <2>4
  <2> QED
    BY <1>9, <2>1, <2>2, <2>3, <2>4 DEF Next
<1> QED
  BY <1>1, <1>8, <1>9

\* A book without orders or positions keeps every promise.
LEMMA BookStart == Init => BookInv
<1> SUFFICES ASSUME Init PROVE BookInv
  OBVIOUS
<1>1. /\ marks = [s \in Symbols |-> None]
      /\ book = [orders |-> <<>>, cash |-> InitialBalance, fees |-> 0, realized |-> 0,
                 pos |-> [s \in Symbols |-> Flat], stops |-> [s \in Symbols |-> NoStop]]
  BY DEF Init
<1>2. /\ <<>> \in Seq(Order) /\ InitialBalance \in Int /\ 0 \in Int
      /\ [s \in Symbols |-> Flat] \in [Symbols -> Position]
      /\ [s \in Symbols |-> NoStop] \in [Symbols -> Stop \cup {NoStop}]
  BY MoneyAssumption DEF Flat, Position
<1>3. TypeOK
  BY <1>1, <1>2 DEF TypeOK, Book
<1>4. StopStillArmed /\ NoCrossedLimitRests /\ LimitsPriced
  BY <1>1 DEF StopStillArmed, NoCrossedLimitRests, LimitsPriced
<1> QED
  BY <1>3, <1>4 DEF BookInv, BookHolds

\* Whatever is submitted, cancelled or ticked: a stop protects an open position,
\* from the right side and not yet passed, and no limit order rests at a price
\* the market has reached.
THEOREM BookAlwaysHolds == Spec => []BookHolds
<1>1. BookInv => BookHolds
  BY DEF BookInv
<1> QED
  BY <1>1, BookStart, BookStepKeeps, PTL DEF Spec

\* However many limits a tick filled before it, a stop sells or buys back no more
\* than what is held.
THEOREM StopsOnlyReduce == Spec => StopOnlyReduces
BY BookStart, BookStepKeeps, PTL DEF Spec, StopOnlyReduces

=============================================================================

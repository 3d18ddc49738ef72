---------------------------- MODULE MasterReplay ----------------------------
(* The coordinated replay of several crews over one physical PAPER account  *)
(* (app/portfolio/historical_replay_master_runner.py and the modules it      *)
(* calls).  Every candle is two barriers.  At OPEN the virtual lots that     *)
(* gapped through their stop or target leave, at CLOSE the others that       *)
(* touched theirs; then each crew may propose one trade, the proposals       *)
(* reserve capacity in crew order, are admitted one by one against the       *)
(* evolving ledger and the portfolio observed before them, are executed as   *)
(* market orders on the one account, and become virtual lots.                *)
(* Prices are whole ticks, slippage is a number of ticks, fees are left out. *)
EXTENDS ReservationLedger, Integers, Sequences, FiniteSets, FiniteSetsExt, Functions

CONSTANTS trade,      \* of each request: side (1 LONG, -1 SHORT), qty, stop, target
          rank,       \* the requests ordered by system_id, then proposal_id
          Rows,       \* the candles there may be: [open, high, low, close]
          Slip,       \* market slippage, in ticks
          MaxBarriers  \* bound: candles of the plan

VARIABLES candle,    \* index of the candle under way, 0 before the first
          row,       \* its prices
          phase,     \* where the runner is in the barrier loop
          queue,     \* what the phase has still to process, in order
          passed,    \* what it has passed on to the next phase
          reservations,  \* MasterReservationLedger
          before,    \* portfolio_before: exposures before the candle's decisions
          lots,      \* MasterHistoricalVirtualLotBook
          net,       \* the broker's signed position
          cash       \* the broker's cash

masterVars == <<candle, row, phase, queue, passed, reservations, before, lots, net, cash>>

\* A proposal is one of finitely many, and no other has its place in the order.
ASSUME TradeAssumption ==
    /\ IsFiniteSet(Requests)
    /\ \A q, r \in Requests : rank[q] = rank[r] => q = r
    /\ trade \in [Requests -> [side: {1, -1}, qty: Nat, stop: Nat, target: Nat]]
    /\ rank \in [Requests -> Nat]
    /\ Rows \subseteq [open: Nat, high: Nat, low: Nat, close: Nat]
    /\ Slip \in Nat /\ MaxBarriers \in Nat

NoLot == [status |-> "NONE", entry |-> 0, opened |-> 0, exit |-> 0]
Lot == [status: {"NONE", "OPEN", "CLOSED"}, entry: Int, opened: Nat, exit: Int]
OpenLots == {r \in Requests : lots[r].status = "OPEN"}
ClosedLots == {r \in Requests : lots[r].status = "CLOSED"}
SignedLot(r) == trade[r].side * trade[r].qty

\* S in the order of rank.
Ordered(S) ==
    CHOOSE s \in [1..Cardinality(S) -> S] :
        \A i, j \in 1..Cardinality(S) : i < j => rank[s[i]] < rank[s[j]]

\* f added up over the requests of S.
Across(f, S) == MapThenSumSet(LAMBDA r : f[r], S)

NoExposure == [a \in Exposures |-> 0]
FlatPortfolio == [at |-> 0, available |-> TRUE, crew |-> [c \in Crews |-> NoExposure],
         total |-> NoExposure]

MasterInit ==
    /\ candle = 0
    /\ row \in Rows
    /\ phase = "NEXT"
    /\ queue = <<>>
    /\ passed = <<>>
    /\ reservations = [r \in Requests |-> NoRecord]
    /\ before = FlatPortfolio
    /\ lots = [r \in Requests |-> NoLot]
    /\ net = 0
    /\ cash = equity

-----------------------------------------------------------------------------
(* Lots leave: process_master_historical_virtual_lot_barrier *)

\* Price p is at level l or beyond it, in the direction d.
Reached(d, p, l) == d * p >= d * l
WorstPrice(s) == IF s = 1 THEN row.low ELSE row.high
BestPrice(s) == IF s = 1 THEN row.high ELSE row.low

NoLotExit == [gap |-> FALSE, reason |-> "NONE", price |-> 0]

\* Variant: the target is looked at before the stop.
LotResolutionTargetFirst(r) ==
    LET t == trade[r]
    IN  IF Reached(-t.side, row.open, t.stop) THEN [gap |-> TRUE, reason |-> "STOP", price |-> row.open]
        ELSE IF Reached(t.side, row.open, t.target) THEN [gap |-> TRUE, reason |-> "TARGET", price |-> t.target]
        ELSE IF Reached(t.side, BestPrice(t.side), t.target) THEN [gap |-> FALSE, reason |-> "TARGET", price |-> t.target]
        ELSE IF Reached(-t.side, WorstPrice(t.side), t.stop) THEN [gap |-> FALSE, reason |-> "STOP", price |-> t.stop]
        ELSE NoLotExit

\* resolve_intrabar with STOP_FIRST: gaps before touches, the stop first.
LotResolution(r) ==
    LET t == trade[r]
    IN  IF Reached(-t.side, row.open, t.stop) THEN [gap |-> TRUE, reason |-> "STOP", price |-> row.open]
        ELSE IF Reached(t.side, row.open, t.target) THEN [gap |-> TRUE, reason |-> "TARGET", price |-> t.target]
        ELSE IF Reached(-t.side, WorstPrice(t.side), t.stop) THEN [gap |-> FALSE, reason |-> "STOP", price |-> t.stop]
        ELSE IF Reached(t.side, BestPrice(t.side), t.target) THEN [gap |-> FALSE, reason |-> "TARGET", price |-> t.target]
        ELSE NoLotExit

\* A lot never leaves on the candle it was entered on.
Older(r) == lots[r].status = "OPEN" /\ lots[r].opened < candle

Leaving == {r \in Requests : /\ Older(r)
                             /\ LotResolution(r).reason # "NONE"
                             /\ phase = "OPEN" => LotResolution(r).gap}

\* A stop leaves by a market order, a target by a limit order at the target.
ExitFill(r) == IF LotResolution(r).reason = "STOP"
               THEN LotResolution(r).price - trade[r].side * Slip
               ELSE LotResolution(r).price

NetAfterExit(r) == net - SignedLot(r)

NextBarrier(o) ==
    /\ phase = "NEXT" /\ candle < MaxBarriers
    /\ candle' = candle + 1
    /\ row' = o
    /\ phase' = "OPEN"
    /\ UNCHANGED <<queue, passed, reservations, before, lots, net, cash>>

ExitLot(r) ==
    /\ phase \in {"OPEN", "CLOSE"}
    /\ r \in Leaving
    /\ \A q \in Leaving \ {r} : \/ lots[r].opened < lots[q].opened
                                \/ lots[r].opened = lots[q].opened /\ rank[r] < rank[q]
    /\ reservations[r].status = "COMMITTED"
    /\ net' = NetAfterExit(r)
    /\ cash' = cash + SignedLot(r) * ExitFill(r)
    /\ reservations' = Released(reservations, r, candle, 0)
    /\ lots' = [lots EXCEPT ![r].status = "CLOSED", ![r].exit = ExitFill(r)]
    /\ UNCHANGED <<candle, row, phase, queue, passed, before>>

OpenDone ==
    /\ phase = "OPEN" /\ Leaving = {}
    /\ phase' = "CLOSE"
    /\ UNCHANGED <<candle, row, queue, passed, reservations, before, lots, net, cash>>

\* build_master_historical_virtual_portfolio_snapshot: the reserved risk, and
\* the quantity at the close.
Exposure(S) == [risk  |-> Sum("risk", S),
                gross |-> Across([r \in Requests |-> trade[r].qty * row.close], S)]
PortfolioBefore ==
    [at |-> candle, available |-> TRUE,
     crew |-> [c \in Crews |-> Exposure(OfCrew(c, OpenLots))],
     total |-> Exposure(OpenLots)]

CloseDone ==
    /\ phase = "CLOSE" /\ Leaving = {}
    /\ before' = PortfolioBefore
    /\ phase' = "DECIDE"
    /\ UNCHANGED <<candle, row, queue, passed, reservations, lots, net, cash>>

-----------------------------------------------------------------------------
(* Trades enter *)

\* At most one new proposal of each crew; none on a candle that is not
\* eligible for decisions.
ProposeTrades(P) ==
    /\ phase = "DECIDE"
    /\ \A r \in P : reservations[r].status = "ABSENT"
    /\ \A q, r \in P : request[q].crew = request[r].crew => q = r
    /\ queue' = Ordered(P)
    /\ phase' = "RESERVE"
    /\ UNCHANGED <<candle, row, passed, reservations, before, lots, net, cash>>

\* The head of the queue is done; it goes on to the next phase if ok.
Processed(ok) ==
    /\ queue' = Tail(queue)
    /\ passed' = IF ok THEN Append(passed, Head(queue)) ELSE passed

Following == [RESERVE |-> "ARBITRATE", ARBITRATE |-> "EXECUTE", EXECUTE |-> "REGISTER"]

PhaseDone ==
    /\ phase \in DOMAIN Following /\ queue = <<>>
    /\ phase' = Following[phase]
    /\ queue' = passed
    /\ passed' = <<>>
    /\ UNCHANGED <<candle, row, reservations, before, lots, net, cash>>

ReserveNext ==
    /\ phase = "RESERVE" /\ queue # <<>>
    /\ Processed(Fits(reservations, Head(queue)))
    /\ reservations' = IF Fits(reservations, Head(queue)) THEN Reserved(reservations, Head(queue), candle)
                                                    ELSE reservations
    /\ UNCHANGED <<candle, row, phase, before, lots, net, cash>>

\* One candidate is evaluated and its decision applied at once.
ArbitrateNext ==
    /\ phase = "ARBITRATE" /\ queue # <<>>
    /\ LET r == Head(queue)
           admit == GateAdmits(reservations, before, r)
       IN  /\ Processed(admit)
           /\ reservations' = IF admit THEN Committed(reservations, r, candle, 0)
                                       ELSE Released(reservations, r, candle, 0)
    /\ UNCHANGED <<candle, row, phase, before, lots, net, cash>>

\* A market order fills at the close, slipped.  The variant forgets it.
EntryUnslipped(r) == row.close
EntryFill(r) == row.close + trade[r].side * Slip

\* What becomes of a reservation that cash cannot cover.
Vetoed(r) == Released(reservations, r, candle, 0)

\* A LONG the cash cannot pay for gives its reservation back; a SHORT is
\* never checked.
Affordable(r) == trade[r].side = 1 => trade[r].qty * (row.close + Slip) <= cash

ExecuteNext ==
    /\ phase = "EXECUTE" /\ queue # <<>>
    /\ reservations[Head(queue)].status = "COMMITTED"
    /\ LET r == Head(queue)
       IN  /\ Processed(Affordable(r))
           /\ IF Affordable(r)
                THEN /\ net' = net + SignedLot(r)
                     /\ cash' = cash - SignedLot(r) * (row.close + trade[r].side * Slip)
                     /\ UNCHANGED reservations
                ELSE /\ reservations' = Vetoed(r)
                     /\ UNCHANGED <<net, cash>>
    /\ UNCHANGED <<candle, row, phase, before, lots>>

\* The lot's constructor wants the fill strictly between stop and target.
Valid(r) ==
    /\ ~Reached(-trade[r].side, EntryFill(r), trade[r].stop)
    /\ ~Reached(trade[r].side, EntryFill(r), trade[r].target)

\* register_master_historical_virtual_lots: all the lots or none.  One that is
\* not valid raises after the orders have filled, and ends the replay.
RegisterLots ==
    /\ phase = "REGISTER"
    /\ LET S == Range(queue)
       IN  IF \A r \in S : Valid(r)
             THEN /\ lots' = [r \in Requests |->
                                IF r \in S THEN [status |-> "OPEN", entry |-> EntryFill(r),
                                                 opened |-> candle, exit |-> 0]
                                           ELSE lots[r]]
                  /\ phase' = "NEXT"
             ELSE /\ phase' = "ABORTED"
                  /\ UNCHANGED lots
    /\ queue' = <<>>
    /\ UNCHANGED <<candle, row, passed, reservations, before, net, cash>>

Finished ==
    /\ phase = "ABORTED" \/ (phase = "NEXT" /\ candle = MaxBarriers)
    /\ UNCHANGED masterVars

MasterNext ==
    \/ \E o \in Rows : NextBarrier(o)
    \/ \E r \in Requests : ExitLot(r)
    \/ OpenDone \/ CloseDone
    \/ \E P \in SUBSET Requests : ProposeTrades(P)
    \/ PhaseDone \/ ReserveNext \/ ArbitrateNext \/ ExecuteNext \/ RegisterLots
    \/ Finished

MasterSpec == MasterInit /\ [][MasterNext]_masterVars

-----------------------------------------------------------------------------
(* Properties *)

\* Between these phases the account, the ledger and the lots are in step.
InStep == phase \in {"NEXT", "OPEN", "CLOSE", "DECIDE"}

\* The variables have their types; the queues hold a request at most once.
MasterTypeOK ==
    /\ candle \in 0..MaxBarriers
    /\ row \in Rows
    /\ phase \in {"NEXT", "OPEN", "CLOSE", "DECIDE", "RESERVE", "ARBITRATE",
                  "EXECUTE", "REGISTER", "ABORTED"}
    /\ queue \in Seq(Requests) /\ passed \in Seq(Requests)
    /\ IsInjective(passed \o queue)
    /\ reservations \in [Requests -> Record]
    /\ lots \in [Requests -> Lot]
    /\ net \in Int /\ cash \in Int

\* The one physical position is the signed sum of the open lots of all crews,
\* opposing ones included, after any mix of entries and exits
\* (docs/archives/batches/21/README_BATCH_21E_STEP6.md:38).
NetMatchesLots ==
    InStep => net = Across([r \in Requests |-> SignedLot(r)], OpenLots)

\* Capacity is committed exactly to the open lots and none is left reserved
\* (historical_replay_master_runner.py:1204, there checked once at the end).
LotsBacked ==
    InStep => /\ With(reservations, "COMMITTED") = OpenLots
               /\ With(reservations, "RESERVED") = {}

\* No lot outlives a candle that reached its stop or its target, and none is
\* left for CLOSE that the open had already passed: the RuntimeError of
\* historical_replay_virtual_lifecycle.py:1223 cannot happen.
StopsHonoured ==
    /\ phase = "CLOSE" => \A r \in Requests : Older(r) => ~LotResolution(r).gap
    /\ phase = "DECIDE" => \A r \in OpenLots :
          lots[r].opened < candle =>
             /\ ~Reached(-trade[r].side, WorstPrice(trade[r].side), trade[r].stop)
             /\ ~Reached(trade[r].side, BestPrice(trade[r].side), trade[r].target)

\* The account's cash is the opening capital, plus what each closed lot made,
\* less what the open lots cost: nothing is lost between the crews' books and
\* the account.
CrewsOwnTheAccount ==
    InStep => cash = equity
        + Across([r \in Requests |-> SignedLot(r) * (lots[r].exit - lots[r].entry)], ClosedLots)
        - Across([r \in Requests |-> SignedLot(r) * lots[r].entry], OpenLots)

\* A lot leaves after its entry candle, and when the candle reached both its
\* stop and its target it leaves at the stop, unless the open had already
\* passed the target.
AdverseFirst ==
    [][\A r \in Requests :
        (lots[r].status = "OPEN" /\ lots'[r].status = "CLOSED") =>
            /\ lots[r].opened < candle
            /\ (/\ Reached(-trade[r].side, WorstPrice(trade[r].side), trade[r].stop)
                /\ ~Reached(trade[r].side, row.open, trade[r].target)) =>
                  ~Reached(trade[r].side, lots'[r].exit, trade[r].target)]_masterVars

\* What the Master's books promise between barriers.
LotsHold == MasterTypeOK /\ NetMatchesLots /\ LotsBacked /\ StopsHonoured /\ CrewsOwnTheAccount

\* The runner uses the ledger as the capacity pool promises.
ReplayPool == INSTANCE CapacityPool WITH
    taken <- With(reservations, "RESERVED"),
    confirmed <- With(reservations, "COMMITTED"),
    returned <- With(reservations, "RELEASED")

\* ReplayPool!Spec, where the steps that reserve, confirm and release nothing are
\* named, which are most of them.
ReplayPoolStep == UNCHANGED reservations \/ ReplayPool!Next
ReplayPoolSpec == ReplayPool!Init /\ [][ReplayPoolStep]_(ReplayPool!vars)
=============================================================================

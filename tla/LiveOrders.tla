---------------------------- MODULE LiveOrders ----------------------------
(***************************************************************************)
(* The LIVE order path: KrakenSpotLiveBroker (trading/live/broker.py), the *)
(* durable order table it writes (trading/live/store.py) and the private   *)
(* Kraken API it calls (trading/live/kraken_private.py).                   *)
(*                                                                         *)
(* A task is one coroutine running one broker call.  Code between two      *)
(* awaits runs atomically; every await is a point where other tasks, the   *)
(* exchange and a crash may act.  The order table survives a crash, the    *)
(* tasks do not, and a request already on the wire may still arrive.       *)
(***************************************************************************)
EXTENDS Naturals

CONSTANTS
  Clients,         \* client order ids, one per order intent
  Tasks,           \* coroutines that may be inside a broker call
  Txids,           \* exchange order ids (a bound: accepted orders)
  Qty,             \* the quantity of an intent
  Volumes,         \* the volumes the exchange may register for an intent
  NoClient, NoTx,
  OverlapSubmits   \* may two submit_order calls for one intent overlap?

ASSUME QtyAssumption == Qty \in Nat \ {0}
ASSUME VolumesAssumption == Volumes \subseteq Nat \ {0}
ASSUME NoClientAssumption == NoClient \notin Clients
ASSUME NoTxAssumption == NoTx \notin Txids
ASSUME OverlapAssumption == OverlapSubmits \in BOOLEAN

VARIABLES
  store,           \* the live_orders table: client order id -> record
  task,            \* where each coroutine is, and what it has read
  wire,            \* AddOrder requests sent and not yet at the exchange
  orders           \* the orders the exchange holds

vars == <<store, task, wire, orders>>

---------------------------------------------------------------------------
Statuses == {"NEW", "SUBMITTED", "OPEN", "PARTIALLY_FILLED", "FILLED",
             "CANCELED", "UNKNOWN", "RECONCILIATION_REQUIRED"}
Unresolved == {"NEW", "SUBMITTED", "UNKNOWN", "RECONCILIATION_REQUIRED"}

Record == [status : Statuses, ext : Txids \cup {NoTx}, filled : Nat]
NoRecord == [status |-> "NONE", ext |-> NoTx, filled |-> 0]
NewRecord == [status |-> "NEW", ext |-> NoTx, filled |-> 0]
Required(rec) == [rec EXCEPT !.status = "RECONCILIATION_REQUIRED"]

OrderStates == {"open", "closed", "canceled", "other"}
Order == [owner : Clients \cup {NoClient}, st : OrderStates, vol : Nat, exec : Nat]
NoOrder == [owner |-> NoClient, st |-> "absent", vol |-> 0, exec |-> 0]

\* A row of an order query: the order as it was when the exchange answered.
Row == [tx : Txids, st : OrderStates, vol : Nat, exec : Nat]
NoRow == [tx |-> NoTx, st |-> "absent", vol |-> 0, exec |-> 0]
\* Variant: the order id is not taken from the answer.
RowWithoutTxid(x) == [tx |-> NoTx, st |-> orders[x].st, vol |-> orders[x].vol, exec |-> orders[x].exec]
RowOf(x) == [tx |-> x, st |-> orders[x].st, vol |-> orders[x].vol, exec |-> orders[x].exec]

\* adding: AddOrder awaited; acked, rejected: its answer is on the way back.
Places == {"open", "closed", "resume", "adding", "acked", "rejected", "cancelling"}
Ops == {"submit", "reconcile", "cancel"}
Busy == [pc : Places, op : Ops, c : Clients, local : Record \cup {NoRecord},
         row : Row \cup {NoRow}]
Idle == [pc |-> "idle", op |-> "none", c |-> NoClient, local |-> NoRecord, row |-> NoRow]

TypeOK ==
  /\ store \in [Clients -> Record \cup {NoRecord}]
  /\ task \in [Tasks -> Busy \cup {Idle}]
  /\ wire \subseteq Clients \X Tasks
  /\ orders \in [Txids -> Order \cup {NoOrder}]

---------------------------------------------------------------------------
(* What the code makes of an exchange row.                                 *)

\* Variant: any fill counts as a complete one.
StatusByFill(row) == IF row.exec > 0 THEN "FILLED" ELSE "OPEN"

MappedStatus(row) ==
  CASE row.st = "closed" -> "FILLED"
    [] row.st = "canceled" -> "CANCELED"
    [] row.st \in {"open", "other"} /\ 0 < row.exec /\ row.exec < row.vol -> "PARTIALLY_FILLED"
    [] row.st = "other" /\ ~(0 < row.exec /\ row.exec < row.vol) -> "UNKNOWN"
    [] OTHER -> "OPEN"

RecordFromExchange(row) ==
  [status |-> MappedStatus(row), ext |-> row.tx, filled |-> row.exec]

Diverges(local, row) ==
  \/ row.vol # Qty \/ row.exec > Qty
  \/ local.ext # NoTx /\ local.ext # row.tx

\* The finding of reconcile, from the record it read first and the row found.
Finding(local, row) ==
  CASE row = NoRow /\ local.status \in {"UNKNOWN", "RECONCILIATION_REQUIRED", "SUBMITTED"}
         -> "AMBIGUOUS"
    [] row = NoRow /\ local.status \notin {"UNKNOWN", "RECONCILIATION_REQUIRED", "SUBMITTED"}
         -> "ORDER_UNKNOWN"
    [] row # NoRow /\ local = NoRecord
         -> IF row.exec > 0 THEN "UNEXPECTED_FILL" ELSE "ORDER_UNKNOWN"
    [] row # NoRow /\ local # NoRecord
         -> IF Diverges(local, row) THEN "DIVERGENCE" ELSE "CONSISTENT"

---------------------------------------------------------------------------
Init ==
  /\ store = [c \in Clients |-> NoRecord]
  /\ task = [t \in Tasks |-> Idle]
  /\ wire = {}
  /\ orders = [x \in Txids |-> NoOrder]

\* The callers' discipline, which the broker does not enforce itself.
MayStart(op, c) ==
  \A u \in Tasks :
    task[u].c = c => OverlapSubmits \/ op # "submit" \/ task[u].op # "submit"

Start(t, op, c, place) ==
  /\ task[t] = Idle
  /\ MayStart(op, c)
  /\ task' = [task EXCEPT ![t] = [pc |-> place, op |-> op, c |-> c,
                                  local |-> store[c], row |-> NoRow]]

Goto(t, place) == task' = [task EXCEPT ![t].pc = place]
Return(t) == task' = [task EXCEPT ![t] = Idle]
Put(c, rec) == store' = [store EXCEPT ![c] = rec]

\* Variant: the table is not consulted first.
SubmitCallAgain(t, c) ==
  /\ Start(t, "submit", c, "open")
  /\ UNCHANGED <<store, wire, orders>>

\* submit_order up to its first await, the authorization granted and the intent
\* valid (otherwise it raises and nothing changes).  An existing record is
\* returned, or refused when it is ambiguous: neither changes any state.
SubmitCall(t, c) ==
  /\ store[c] = NoRecord
  /\ Start(t, "submit", c, "open")
  /\ UNCHANGED <<store, wire, orders>>

\* reconcile (and get_order, which is reconcile and a read of the table).
ReconcileCall(t, c) ==
  /\ Start(t, "reconcile", c, "open")
  /\ UNCHANGED <<store, wire, orders>>

\* cancel_order, where cancellation is enabled and authorized.
CancelCall(t, c) ==
  /\ store[c] # NoRecord
  /\ Start(t, "cancel", c, "cancelling")
  /\ UNCHANGED <<store, wire, orders>>

---------------------------------------------------------------------------
(* _find_exchange_order: the open orders, then the closed ones.            *)

Matching(c, states) == {x \in Txids : orders[x].owner = c /\ orders[x].st \in states}

\* An order query answered: several matches raise, one resumes the caller.
Answered(t, states) ==
  LET found == Matching(task[t].c, states)
  IN  \/ /\ \E x, y \in found : x # y
         /\ Return(t)
      \/ \E x \in found :
           /\ found = {x}
           /\ task' = [task EXCEPT ![t].pc = "resume", ![t].row = RowOf(x)]

QueryOpen(t) ==
  /\ task[t].pc = "open"
  /\ \/ Answered(t, {"open"})
     \/ Matching(task[t].c, {"open"}) = {} /\ Goto(t, "closed")
  /\ UNCHANGED <<store, wire, orders>>

QueryClosed(t) ==
  /\ task[t].pc = "closed"
  /\ \/ Answered(t, {"closed", "canceled", "other"})
     \/ Matching(task[t].c, {"closed", "canceled", "other"}) = {} /\ Goto(t, "resume")
  /\ UNCHANGED <<store, wire, orders>>

\* The read failed after its bounded retries: the call raises.
ReadFails(t) ==
  /\ task[t].pc \in {"open", "closed"}
  /\ Return(t)
  /\ UNCHANGED <<store, wire, orders>>

---------------------------------------------------------------------------
(* submit_order after the search.                                          *)

SubmitFound(t) ==
  /\ task[t].op = "submit" /\ task[t].pc = "resume" /\ task[t].row # NoRow
  /\ Put(task[t].c, RecordFromExchange(task[t].row))
  /\ Return(t)
  /\ UNCHANGED <<wire, orders>>

\* Variant: AddOrder leaves before NEW is committed.
SubmitSendUnrecorded(t) ==
  /\ task[t].op = "submit" /\ task[t].pc = "resume" /\ task[t].row = NoRow
  /\ wire' = wire \cup {<<task[t].c, t>>}
  /\ Goto(t, "adding")
  /\ UNCHANGED <<store, orders>>

\* NEW is committed before AddOrder leaves.
SubmitSend(t) ==
  /\ task[t].op = "submit" /\ task[t].pc = "resume" /\ task[t].row = NoRow
  /\ Put(task[t].c, NewRecord)
  /\ wire' = wire \cup {<<task[t].c, t>>}
  /\ Goto(t, "adding")
  /\ UNCHANGED orders

SubmitAck(t) ==
  /\ task[t].pc = "acked"
  /\ Put(task[t].c, [status |-> "SUBMITTED", ext |-> task[t].row.tx, filled |-> 0])
  /\ Return(t)
  /\ UNCHANGED <<wire, orders>>

\* An answer without exactly one txid.
SubmitBadAnswer(t) ==
  /\ task[t].pc = "acked"
  /\ Put(task[t].c, Required(NewRecord))
  /\ Return(t)
  /\ UNCHANGED <<wire, orders>>

\* LiveExchangeRejectError is not caught: the record stays NEW.
SubmitRejected(t) ==
  /\ task[t].pc = "rejected"
  /\ Return(t)
  /\ UNCHANGED <<store, wire, orders>>

\* Timeout or transport error, whatever became of the request.
SubmitAmbiguous(t) ==
  /\ task[t].pc \in {"adding", "acked", "rejected"}
  /\ Put(task[t].c, Required(NewRecord))
  /\ Return(t)
  /\ UNCHANGED <<wire, orders>>

---------------------------------------------------------------------------
(* reconcile after the search, and cancel_order after CancelOrder.         *)

\* Variant: finding no order is taken for a cancellation.
ReconcileSilenceIsCancel(t) ==
  /\ task[t].op = "reconcile" /\ task[t].pc = "resume"
  /\ Put(task[t].c, IF task[t].row = NoRow THEN [task[t].local EXCEPT !.status = "CANCELED"]
                    ELSE RecordFromExchange(task[t].row))
  /\ Return(t)
  /\ UNCHANGED <<wire, orders>>

ReconcileResume(t) ==
  LET local == task[t].local
      row == task[t].row
  IN  /\ task[t].op = "reconcile" /\ task[t].pc = "resume"
      /\ CASE Finding(local, row) = "AMBIGUOUS" -> Put(task[t].c, Required(local))
           [] Finding(local, row) = "DIVERGENCE"
                -> Put(task[t].c, Required(RecordFromExchange(row)))
           [] Finding(local, row) = "CONSISTENT" -> Put(task[t].c, RecordFromExchange(row))
           [] OTHER -> UNCHANGED store
      /\ Return(t)
      /\ UNCHANGED <<wire, orders>>

\* CancelOrder answered; its effect, if any, is an OrderEnds of the exchange.
CancelAck(t) ==
  /\ task[t].pc = "cancelling"
  /\ task' = [task EXCEPT ![t].op = "reconcile", ![t].pc = "open",
                          ![t].local = store[task[t].c]]
  /\ UNCHANGED <<store, wire, orders>>

CancelRejected(t) ==
  /\ task[t].pc = "cancelling"
  /\ Return(t)
  /\ UNCHANGED <<store, wire, orders>>

CancelAmbiguous(t) ==
  /\ task[t].pc = "cancelling"
  /\ Put(task[t].c, Required(task[t].local))
  /\ Return(t)
  /\ UNCHANGED <<wire, orders>>

---------------------------------------------------------------------------
(* The exchange and the network.                                           *)

Awaits(t, c) == task[t].pc = "adding" /\ task[t].c = c

ArriveAccepted(c, t, x, v) ==
  /\ <<c, t>> \in wire
  /\ orders[x] = NoOrder
  /\ wire' = wire \ {<<c, t>>}
  /\ orders' = [orders EXCEPT ![x] = [owner |-> c, st |-> "open", vol |-> v, exec |-> 0]]
  /\ IF Awaits(t, c)
     THEN task' = [task EXCEPT ![t].pc = "acked",
                               ![t].row = [tx |-> x, st |-> "open", vol |-> v, exec |-> 0]]
     ELSE UNCHANGED task
  /\ UNCHANGED store

\* Refused by the exchange (funds, permission, deadline), or lost on the way.
ArriveRejected(c, t) ==
  /\ <<c, t>> \in wire
  /\ wire' = wire \ {<<c, t>>}
  /\ IF Awaits(t, c) THEN Goto(t, "rejected") ELSE UNCHANGED task
  /\ UNCHANGED <<store, orders>>

RequestLost(c, t) ==
  /\ <<c, t>> \in wire
  /\ wire' = wire \ {<<c, t>>}
  /\ UNCHANGED <<store, task, orders>>

OrderFills(x) ==
  /\ orders[x].st = "open" /\ orders[x].exec < orders[x].vol
  /\ orders' = [orders EXCEPT ![x].exec = @ + 1,
                              ![x].st = IF orders[x].exec + 1 = orders[x].vol
                                        THEN "closed" ELSE "open"]
  /\ UNCHANGED <<store, task, wire>>

OrderEnds(x, st) ==
  /\ orders[x].st = "open"
  /\ orders' = [orders EXCEPT ![x].st = st]
  /\ UNCHANGED <<store, task, wire>>

\* The process dies and starts again: memory is lost, the table is not.
Crash ==
  /\ \E t \in Tasks : task[t] # Idle
  /\ task' = [t \in Tasks |-> Idle]
  /\ UNCHANGED <<store, wire, orders>>

---------------------------------------------------------------------------
Step(t) ==
  \/ QueryOpen(t) \/ QueryClosed(t) \/ ReadFails(t)
  \/ SubmitFound(t) \/ SubmitSend(t)
  \/ SubmitAck(t) \/ SubmitBadAnswer(t) \/ SubmitRejected(t) \/ SubmitAmbiguous(t)
  \/ ReconcileResume(t) \/ CancelAck(t) \/ CancelRejected(t) \/ CancelAmbiguous(t)

Exchange ==
  \/ \E c \in Clients, t \in Tasks :
       \/ \E x \in Txids, v \in Volumes : ArriveAccepted(c, t, x, v)
       \/ ArriveRejected(c, t)
       \/ RequestLost(c, t)
  \/ \E x \in Txids :
       \/ OrderFills(x)
       \/ \E st \in {"canceled", "other"} : OrderEnds(x, st)

Call(t, c) == SubmitCall(t, c) \/ ReconcileCall(t, c) \/ CancelCall(t, c)

Next ==
  \/ \E t \in Tasks : Step(t)
  \/ \E t \in Tasks, c \in Clients : Call(t, c)
  \/ Exchange
  \/ Crash

Spec == Init /\ [][Next]_vars

---------------------------------------------------------------------------
(* Properties.                                                             *)

\* No order without a trace: as long as the table has no record of an intent,
\* no AddOrder for it is on the wire or at the exchange, crashes included.
\* (store.py: the NEW record is a crash-recovery marker.)
NoOrphanOrder ==
  \A c \in Clients : store[c] = NoRecord =>
    /\ \A t \in Tasks : <<c, t>> \notin wire
    /\ \A x \in Txids : orders[x].owner # c

\* What a record says of the order it names is true, or was and can only have
\* moved on since.
Sound(c, rec) ==
  rec.ext # NoTx =>
    LET o == orders[rec.ext]
    IN  /\ o.owner = c
        /\ rec.filled <= o.exec
        /\ rec.status = "FILLED" => o.st = "closed"
        /\ rec.status = "CANCELED" => o.st = "canceled"

\* The table never runs ahead of the exchange: the order a record names belongs
\* to the intent, has filled at least as much as recorded, and has really closed
\* or been cancelled when the record says so, however stale the row was.
LocalNeverAhead == \A c \in Clients : Sound(c, store[c])

\* The table knows of every order, and knows nothing of it that is not so.
OrdersAreKnown == NoOrphanOrder /\ LocalNeverAhead

\* One intent, at most one exchange order, through timeouts, crashes, late
\* arrivals and retries (docs/07: a retry must not create a second trade).
NoDuplicateOrder ==
  \A x, y \in Txids :
    orders[x].owner \in Clients /\ orders[x].owner = orders[y].owner => x = y

\* An AddOrder still on the wire keeps its record among the unresolved ones, so
\* that neither a startup reconciliation nor a preflight can come out clean.
InFlightIsUnresolved ==
  \A c \in Clients : (\E t \in Tasks : <<c, t>> \in wire) =>
    store[c].status \in {"NEW", "RECONCILIATION_REQUIRED"}

\* One order for an intent, and until it has arrived the intent is unresolved.
IntentsAreSingle == NoDuplicateOrder /\ InFlightIsUnresolved

\* What makes the above inductive.  What a coroutine has read is sound in the
\* same sense, and proves that the intent is recorded.
Seen(c, row) ==
  /\ orders[row.tx].owner = c
  /\ row.exec <= orders[row.tx].exec
  /\ row.st \in {"closed", "canceled"} => orders[row.tx].st = row.st

ReadSound(e) ==
  e # Idle =>
    /\ Sound(e.c, e.local)
    /\ e.local # NoRecord => store[e.c] # NoRecord
    /\ e.row # NoRow => Seen(e.c, e.row)
    /\ e.pc = "cancelling" => e.local # NoRecord
    /\ e.pc = "acked" => e.row # NoRow
    /\ e.pc \in {"adding", "acked", "rejected"} => e.op = "submit"

ReadsSound == \A t \in Tasks : ReadSound(task[t])

\* A single submission per intent, which searches before anything is recorded.
OneSubmitter ==
  \A t, u \in Tasks :
    task[t].op = "submit" /\ task[u].op = "submit" /\ task[t].c = task[u].c => t = u

SearchBeforeRecord ==
  \A t \in Tasks :
    task[t].op = "submit" /\ task[t].pc \in {"open", "closed", "resume"}
      => store[task[t].c] = NoRecord

\* An intent is on the wire once, and not while the exchange has an order of it.
OnceOnTheWire ==
  \A c \in Clients, t \in Tasks : <<c, t>> \in wire =>
    /\ \A u \in Tasks : <<c, u>> \in wire => t = u
    /\ \A x \in Txids : orders[x].owner # c

BrokerInv == NoOrphanOrder /\ LocalNeverAhead /\ ReadsSound

SubmitInv ==
  OneSubmitter /\ SearchBeforeRecord /\ OnceOnTheWire /\ NoDuplicateOrder
  /\ InFlightIsUnresolved

\* A record leaves RECONCILIATION_REQUIRED only on the strength of an order the
\* exchange holds: a search that finds nothing, a crash or a failed call never
\* clears it (LIVE_RUNBOOKS: silence is no proof that the order does not exist).
ResolvedOnlyByExchange ==
  [][\A c \in Clients :
       /\ store[c].status = "RECONCILIATION_REQUIRED"
       /\ store'[c].status # "RECONCILIATION_REQUIRED"
       => \E x \in Txids : orders[x].owner = c]_vars

\* The broker implements the at-most-once promise of OrderIntents.
Promise == INSTANCE OrderIntents WITH
  recorded <- {c \in Clients : store[c] # NoRecord},
  sent <- {c \in Clients : \E t \in Tasks : <<c, t>> \in wire},
  placed <- {c \in Clients : \E x \in Txids : orders[x].owner = c}
AtMostOnce == Promise!Spec

=============================================================================

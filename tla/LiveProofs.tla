----------------------------- MODULE LiveProofs -----------------------------
(***************************************************************************)
(* What is proved of the live side.  LiveOrders, for every number of        *)
(* intents, tasks and orders: no order without a record, no record ahead of *)
(* the exchange, one order per intent.  LiveControl: whatever the operator, *)
(* the exchange and the three processes do in the meantime, the gate opens  *)
(* on what the order table held two transactions before.                    *)
(***************************************************************************)
EXTENDS LiveControl, TLAPS

\* What the table can hold after a put, whatever the row it was built from.
LEMMA RecordFromType ==
  ASSUME NEW row \in Row
  PROVE  RecordFromExchange(row) \in Record
BY DEF RecordFromExchange, MappedStatus, Row, Record, Statuses, OrderStates

LEMMA RequiredType ==
  ASSUME NEW rec \in Record
  PROVE  /\ Required(rec) \in Record
         /\ Required(rec).status = "RECONCILIATION_REQUIRED"
         /\ Required(rec).ext = rec.ext
         /\ Required(rec).filled = rec.filled
BY DEF Required, Record, Statuses

LEMMA RowOfType ==
  ASSUME NEW x \in Txids, orders[x] \in Order
  PROVE  RowOf(x) \in Row
BY DEF RowOf, Row, Order

LEMMA Constants ==
  /\ NoRecord \notin Record /\ NewRecord \in Record
  /\ NoOrder \notin Order /\ NoRow \notin Row
  /\ Idle \notin Busy
BY NoTxAssumption DEF NoRecord, NewRecord, Record, Statuses, NoOrder, Order, OrderStates,
   NoRow, Row, Idle, Busy, Places

LEMMA PutType ==
  ASSUME TypeOK, NEW c \in Clients, NEW rec \in Record, Put(c, rec)
  PROVE  store' \in [Clients -> Record \cup {NoRecord}]
BY DEF TypeOK, Put

LEMMA TaskType ==
  ASSUME TypeOK, NEW t \in Tasks, NEW e \in Busy \cup {Idle},
         task' = [task EXCEPT ![t] = e]
  PROVE  task' \in [Tasks -> Busy \cup {Idle}]
BY DEF TypeOK

\* A task that is not idle keeps its type when it only moves on.
LEMMA BusyType ==
  ASSUME TypeOK, NEW t \in Tasks, task[t] # Idle
  PROVE  /\ task[t] \in Busy
         /\ task[t].c \in Clients
         /\ task[t].local \in Record \cup {NoRecord}
         /\ task[t].row \in Row \cup {NoRow}
         /\ \A p \in Places : [task[t] EXCEPT !.pc = p] \in Busy
         /\ \A p \in Places, r \in Row :
              [task[t] EXCEPT !.pc = p, !.row = r] \in Busy
BY DEF TypeOK, Busy

LEMMA GotoType ==
  ASSUME TypeOK, NEW t \in Tasks, task[t] # Idle, NEW p \in Places, Goto(t, p)
  PROVE  task' \in [Tasks -> Busy \cup {Idle}]
<1>1. [task[t] EXCEPT !.pc = p] \in Busy
  BY BusyType
<1>2. task' = [task EXCEPT ![t] = [task[t] EXCEPT !.pc = p]]
  BY DEF Goto
<1> QED
  BY <1>1, <1>2, TaskType

LEMMA ReturnType ==
  ASSUME TypeOK, NEW t \in Tasks, Return(t)
  PROVE  task' \in [Tasks -> Busy \cup {Idle}]
BY TaskType DEF Return

LEMMA StartType ==
  ASSUME TypeOK, NEW t \in Tasks, NEW c \in Clients, NEW op \in Ops, NEW p \in Places,
         Start(t, op, c, p)
  PROVE  task' \in [Tasks -> Busy \cup {Idle}]
<1>1. [pc |-> p, op |-> op, c |-> c, local |-> store[c], row |-> NoRow] \in Busy
  BY DEF Busy, TypeOK
<1> QED
  BY <1>1, TaskType DEF Start

LEMMA AnsweredType ==
  ASSUME TypeOK, NEW t \in Tasks, task[t] # Idle, NEW states, Answered(t, states)
  PROVE  task' \in [Tasks -> Busy \cup {Idle}]
<1>1. task[t].c \in Clients
  BY BusyType
<1>2. ASSUME NEW x \in Matching(task[t].c, states) PROVE RowOf(x) \in Row
  <2>1. x \in Txids /\ orders[x].owner = task[t].c
    BY <1>2 DEF Matching
  <2>2. orders[x] \in Order
    BY <1>1, <2>1, NoClientAssumption DEF TypeOK, NoOrder
  <2> QED
    BY <2>1, <2>2, RowOfType
<1>3. CASE Return(t)
  BY <1>3, ReturnType
<1>4. CASE \E x \in Matching(task[t].c, states) :
             task' = [task EXCEPT ![t].pc = "resume", ![t].row = RowOf(x)]
  <2>1. PICK x \in Matching(task[t].c, states) :
          task' = [task EXCEPT ![t].pc = "resume", ![t].row = RowOf(x)]
    BY <1>4
  <2>2. [task[t] EXCEPT !.pc = "resume", !.row = RowOf(x)] \in Busy
    BY <1>2, BusyType DEF Places
  <2>3. task' = [task EXCEPT ![t] = [task[t] EXCEPT !.pc = "resume", !.row = RowOf(x)]]
    BY <2>1, BusyType DEF TypeOK
  <2> QED
    BY <2>2, <2>3, TaskType
<1> QED
  BY <1>3, <1>4 DEF Answered

LEMMA StepType ==
  ASSUME TypeOK, NEW t \in Tasks, Step(t)
  PROVE  TypeOK'
<1>1. task[t] # Idle
  BY DEF Step, QueryOpen, QueryClosed, ReadFails, SubmitFound, SubmitSend, SubmitAck,
     SubmitBadAnswer, SubmitRejected, SubmitAmbiguous, ReconcileResume, CancelAck,
     CancelRejected, CancelAmbiguous, Idle
<1>2. task[t].c \in Clients /\ task[t].local \in Record \cup {NoRecord}
      /\ task[t].row \in Row \cup {NoRow}
  BY <1>1, BusyType
<1>3. NewRecord \in Record /\ Required(NewRecord) \in Record
  BY Constants, RequiredType
<1>4. CASE QueryOpen(t)
  <2>1. task' \in [Tasks -> Busy \cup {Idle}]
    BY <1>1, <1>4, AnsweredType, GotoType DEF QueryOpen, Places
  <2> QED
    BY <1>4, <2>1 DEF QueryOpen, TypeOK
<1>5. CASE QueryClosed(t)
  <2>1. task' \in [Tasks -> Busy \cup {Idle}]
    BY <1>1, <1>5, AnsweredType, GotoType DEF QueryClosed, Places
  <2> QED
    BY <1>5, <2>1 DEF QueryClosed, TypeOK
<1>6. CASE ReadFails(t) \/ SubmitRejected(t) \/ CancelRejected(t)
  BY <1>6, ReturnType DEF ReadFails, SubmitRejected, CancelRejected, TypeOK
<1>7. CASE SubmitFound(t)
  <2>1. RecordFromExchange(task[t].row) \in Record
    BY <1>2, <1>7, RecordFromType DEF SubmitFound
  <2> QED
    BY <1>2, <1>7, <2>1, PutType, ReturnType DEF SubmitFound, TypeOK
<1>8. CASE SubmitSend(t)
  <2>1. task' \in [Tasks -> Busy \cup {Idle}]
    BY <1>1, <1>8, GotoType DEF SubmitSend, Places
  <2>2. store' \in [Clients -> Record \cup {NoRecord}]
    BY <1>2, <1>3, <1>8, PutType DEF SubmitSend
  <2> QED
    BY <1>2, <1>8, <2>1, <2>2 DEF SubmitSend, TypeOK
<1>9. CASE SubmitAck(t)
  <2>1. [status |-> "SUBMITTED", ext |-> task[t].row.tx, filled |-> 0] \in Record
    BY <1>2 DEF Record, Statuses, Row, NoRow
  <2> QED
    BY <1>2, <1>9, <2>1, PutType, ReturnType DEF SubmitAck, TypeOK
<1>10. CASE SubmitBadAnswer(t) \/ SubmitAmbiguous(t)
  BY <1>2, <1>3, <1>10, PutType, ReturnType DEF SubmitBadAnswer, SubmitAmbiguous, TypeOK
<1>11. CASE ReconcileResume(t)
  <2> DEFINE local == task[t].local
             row == task[t].row
  <2>1. CASE Finding(local, row) = "AMBIGUOUS"
    <3>1. local \in Record
      BY <1>2, <2>1 DEF Finding, NoRecord
    <3> QED
      BY <1>2, <1>11, <2>1, <3>1, RequiredType, PutType, ReturnType
         DEF ReconcileResume, TypeOK
  <2>2. CASE Finding(local, row) \in {"DIVERGENCE", "CONSISTENT"}
    <3>1. row \in Row
      BY <1>2, <2>2 DEF Finding
    <3>2. RecordFromExchange(row) \in Record /\ Required(RecordFromExchange(row)) \in Record
      BY <3>1, RecordFromType, RequiredType
    <3>3. \/ Put(task[t].c, RecordFromExchange(row))
          \/ Put(task[t].c, Required(RecordFromExchange(row)))
      BY <1>11, <2>2 DEF ReconcileResume
    <3> QED
      BY <1>2, <1>11, <3>2, <3>3, PutType, ReturnType DEF ReconcileResume, TypeOK
  <2>3. CASE Finding(local, row) \notin {"AMBIGUOUS", "DIVERGENCE", "CONSISTENT"}
    BY <1>11, <2>3, ReturnType DEF ReconcileResume, TypeOK
  <2> QED
    BY <2>1, <2>2, <2>3
<1>12. CASE CancelAck(t)
  <2> DEFINE e == [task[t] EXCEPT !.op = "reconcile", !.pc = "open",
                                  !.local = store[task[t].c]]
  <2>0. store[task[t].c] \in Record \cup {NoRecord} /\ task[t] \in Busy
    BY <1>1, <1>2, BusyType DEF TypeOK
  <2>1. e \in Busy
    BY <2>0 DEF Busy, Places, Ops
  <2>2. task' = [task EXCEPT ![t] = e]
    BY <1>12 DEF CancelAck, TypeOK
  <2> QED
    BY <1>12, <2>1, <2>2, TaskType DEF CancelAck, TypeOK
<1>13. CASE CancelAmbiguous(t)
  <2>1. Required(task[t].local) \in Record
    BY <1>2, RequiredType, Constants DEF Required, NoRecord, Record, Statuses
  <2> QED
    BY <1>2, <1>13, <2>1, PutType, ReturnType DEF CancelAmbiguous, TypeOK
<1> QED
  BY <1>4, <1>5, <1>6, <1>7, <1>8, <1>9, <1>10, <1>11, <1>12, <1>13 DEF Step

LEMMA ExchangeType ==
  ASSUME TypeOK, Exchange
  PROVE  TypeOK'
<1>1. ASSUME NEW c \in Clients, NEW t \in Tasks, NEW x \in Txids, NEW v \in Volumes,
             ArriveAccepted(c, t, x, v)
      PROVE  TypeOK'
  <2>1. orders' \in [Txids -> Order \cup {NoOrder}]
    BY <1>1, VolumesAssumption DEF ArriveAccepted, TypeOK, Order, OrderStates
  <2>2. task' \in [Tasks -> Busy \cup {Idle}]
    <3>1. CASE Awaits(t, c)
      <4> DEFINE r == [tx |-> x, st |-> "open", vol |-> v, exec |-> 0]
      <4>1. r \in Row /\ task[t] # Idle
        BY <3>1, VolumesAssumption DEF Row, OrderStates, Awaits, Idle
      <4>2. [task[t] EXCEPT !.pc = "acked", !.row = r] \in Busy
        BY <4>1, BusyType DEF Places
      <4>3. task' = [task EXCEPT ![t] = [task[t] EXCEPT !.pc = "acked", !.row = r]]
        BY <1>1, <3>1 DEF ArriveAccepted, TypeOK
      <4> QED
        BY <4>2, <4>3, TaskType
    <3>2. CASE ~Awaits(t, c)
      BY <1>1, <3>2 DEF ArriveAccepted, TypeOK
    <3> QED
      BY <3>1, <3>2
  <2> QED
    BY <1>1, <2>1, <2>2 DEF ArriveAccepted, TypeOK
<1>2. ASSUME NEW c \in Clients, NEW t \in Tasks, ArriveRejected(c, t)
      PROVE  TypeOK'
  <2>1. task' \in [Tasks -> Busy \cup {Idle}]
    BY <1>2, GotoType DEF ArriveRejected, Awaits, Idle, Places, TypeOK
  <2> QED
    BY <1>2, <2>1 DEF ArriveRejected, TypeOK
<1>3. ASSUME NEW c \in Clients, NEW t \in Tasks, RequestLost(c, t)
      PROVE  TypeOK'
  BY <1>3 DEF RequestLost, TypeOK
<1>4. ASSUME NEW x \in Txids, OrderFills(x)
      PROVE  TypeOK'
  <2>1. orders[x] \in Order
    BY <1>4 DEF OrderFills, TypeOK, NoOrder
  <2> DEFINE n == orders[x].exec + 1
             s == IF n = orders[x].vol THEN "closed" ELSE "open"
             o == [orders[x] EXCEPT !.exec = n, !.st = s]
  <2>2. o \in Order
    <3>1. n \in Nat /\ s \in OrderStates
      BY <2>1 DEF Order, OrderStates
    <3> HIDE DEF n, s
    <3> QED
      BY <2>1, <3>1 DEF Order
  <2>3. orders' = [orders EXCEPT ![x] = o]
    BY <1>4 DEF OrderFills, TypeOK
  <2> QED
    BY <1>4, <2>2, <2>3 DEF OrderFills, TypeOK
<1>5. ASSUME NEW x \in Txids, NEW st \in {"canceled", "other"}, OrderEnds(x, st)
      PROVE  TypeOK'
  BY <1>5 DEF OrderEnds, TypeOK, Order, OrderStates, NoOrder
<1> QED
  BY <1>1, <1>2, <1>3, <1>4, <1>5 DEF Exchange

\* Every reachable state is well typed: the table, what each coroutine has read,
\* and the exchange, for any number of intents, coroutines and orders.
THEOREM TypeCorrect == Spec => []TypeOK
<1>1. Init => TypeOK
  BY DEF Init, TypeOK
<1>2. TypeOK /\ [Next]_vars => TypeOK'
  <2> SUFFICES ASSUME TypeOK, [Next]_vars PROVE TypeOK'
    OBVIOUS
  <2>1. ASSUME NEW t \in Tasks, NEW c \in Clients, Call(t, c) PROVE TypeOK'
    BY <2>1, StartType DEF Call, SubmitCall, ReconcileCall, CancelCall, Places, Ops, TypeOK
  <2>2. CASE Crash
    BY <2>2 DEF Crash, TypeOK
  <2>3. CASE UNCHANGED vars
    BY <2>3 DEF vars, TypeOK
  <2> QED
    BY <2>1, <2>2, <2>3, StepType, ExchangeType DEF Next
<1> QED
  BY <1>1, <1>2, PTL DEF Spec

---------------------------------------------------------------------------
(* The table against the exchange.                                         *)

\* A record built from a sound row is sound, and so is one sent back to
\* reconciliation or one that names no order.
LEMMA SoundRecords ==
  ASSUME NEW c \in Clients, NEW rec, NEW row \in Row
  PROVE  /\ Seen(c, row) => Sound(c, RecordFromExchange(row))
         /\ rec \in Record /\ Sound(c, rec) => Sound(c, Required(rec))
         /\ rec.ext = NoTx => Sound(c, rec)
<1>1. Seen(c, row) => Sound(c, RecordFromExchange(row))
  BY DEF Seen, Sound, RecordFromExchange, MappedStatus
<1>2. rec \in Record /\ Sound(c, rec) => Sound(c, Required(rec))
  BY RequiredType DEF Sound
<1>3. rec.ext = NoTx => Sound(c, rec)
  BY DEF Sound
<1> QED
  BY <1>1, <1>2, <1>3

\* What a step of a task may write: one sound record for its own intent, which
\* is recorded already unless the task is submitting it; only AddOrder comes with
\* NEW, and any record but that and RECONCILIATION_REQUIRED needs an order at the
\* exchange.
LEMMA StepPut ==
  ASSUME TypeOK, BrokerInv, NEW t \in Tasks, Step(t)
  PROVE  /\ UNCHANGED orders
         /\ task[t].c \in Clients
         /\ \/ UNCHANGED store
            \/ \E rec \in Record :
                 /\ Put(task[t].c, rec)
                 /\ Sound(task[t].c, rec)
                 /\ \/ rec.status = "RECONCILIATION_REQUIRED"
                    \/ rec.status = "NEW" /\ SubmitSend(t)
                    \/ \E x \in Txids : orders[x].owner = task[t].c
                 /\ store[task[t].c] # NoRecord \/ task[t].op = "submit"
<1> DEFINE c == task[t].c
           local == task[t].local
           row == task[t].row
<1>1. task[t] # Idle
  BY DEF Step, QueryOpen, QueryClosed, ReadFails, SubmitFound, SubmitSend, SubmitAck,
     SubmitBadAnswer, SubmitRejected, SubmitAmbiguous, ReconcileResume, CancelAck,
     CancelRejected, CancelAmbiguous, Idle
<1>2. c \in Clients /\ local \in Record \cup {NoRecord} /\ row \in Row \cup {NoRow}
  BY <1>1, BusyType
<1>3. ReadSound(task[t])
  BY DEF BrokerInv, ReadsSound
<1>4. row # NoRow => /\ row \in Row /\ Seen(c, row)
                     /\ row.tx \in Txids /\ orders[row.tx].owner = c
                     /\ RecordFromExchange(row) \in Record
                     /\ Sound(c, RecordFromExchange(row))
  BY <1>1, <1>2, <1>3, RecordFromType, SoundRecords DEF ReadSound, Seen, Row
<1>5. /\ NewRecord \in Record /\ Sound(c, NewRecord) /\ NewRecord.status = "NEW"
      /\ Required(NewRecord) \in Record /\ Sound(c, Required(NewRecord))
      /\ Required(NewRecord).status = "RECONCILIATION_REQUIRED"
  BY Constants, RequiredType DEF Sound, NewRecord
<1>6. CASE QueryOpen(t) \/ QueryClosed(t) \/ ReadFails(t) \/ SubmitRejected(t)
           \/ CancelAck(t) \/ CancelRejected(t)
  BY <1>2, <1>6 DEF QueryOpen, QueryClosed, ReadFails, SubmitRejected, CancelAck, CancelRejected
<1>7. CASE SubmitFound(t)
  BY <1>2, <1>4, <1>7 DEF SubmitFound
<1>8. CASE SubmitSend(t)
  BY <1>2, <1>5, <1>8 DEF SubmitSend
<1>9. CASE SubmitAck(t)
  <2> DEFINE rec == [status |-> "SUBMITTED", ext |-> row.tx, filled |-> 0]
  <2>1. row # NoRow
    BY <1>1, <1>3, <1>9 DEF ReadSound, SubmitAck
  <2>2. rec \in Record /\ rec.ext = row.tx /\ rec.filled = 0 /\ rec.status = "SUBMITTED"
    BY <1>4, <2>1 DEF Record, Statuses
  <2>3. row.exec \in Nat /\ row.exec <= orders[row.tx].exec /\ orders[row.tx] \in Order
    BY <1>2, <1>4, <2>1, NoClientAssumption DEF Seen, Row, TypeOK, NoOrder
  <2>4. Sound(c, rec)
    BY <1>4, <2>1, <2>2, <2>3 DEF Sound, Order
  <2> QED
    BY <1>1, <1>2, <1>3, <1>4, <1>9, <2>1, <2>2, <2>4 DEF SubmitAck, ReadSound
<1>10. CASE SubmitBadAnswer(t) \/ SubmitAmbiguous(t)
  <2>1. task[t].op = "submit"
    BY <1>1, <1>3, <1>10 DEF ReadSound, SubmitBadAnswer, SubmitAmbiguous
  <2> QED
    BY <1>2, <1>5, <1>10, <2>1 DEF SubmitBadAnswer, SubmitAmbiguous
<1>11. CASE ReconcileResume(t)
  <2>1. CASE Finding(local, row) = "AMBIGUOUS"
    <3>1. local \in Record /\ local # NoRecord
      BY <1>2, <2>1 DEF Finding, NoRecord
    <3>2. /\ Required(local) \in Record /\ Sound(c, Required(local))
          /\ Required(local).status = "RECONCILIATION_REQUIRED"
      BY <1>1, <1>2, <1>3, <3>1, RequiredType DEF Sound, ReadSound
    <3>3. Put(c, Required(local)) /\ UNCHANGED orders
      BY <1>11, <2>1 DEF ReconcileResume
    <3>4. store[c] # NoRecord
      BY <1>1, <1>3, <3>1 DEF ReadSound
    <3> QED
      BY <1>2, <3>2, <3>3, <3>4
  <2>2. CASE Finding(local, row) \in {"DIVERGENCE", "CONSISTENT"}
    <3>1. row # NoRow /\ local # NoRecord
      BY <2>2 DEF Finding
    <3>2. /\ Required(RecordFromExchange(row)) \in Record
          /\ Sound(c, Required(RecordFromExchange(row)))
      BY <1>2, <1>4, <3>1, RequiredType DEF Sound
    <3>3. \/ Put(c, RecordFromExchange(row))
          \/ Put(c, Required(RecordFromExchange(row)))
      BY <1>11, <2>2 DEF ReconcileResume
    <3>4. store[c] # NoRecord
      BY <1>1, <1>3, <3>1 DEF ReadSound
    <3>5. UNCHANGED orders
      BY <1>11 DEF ReconcileResume
    <3> QED
      BY <1>2, <1>4, <3>1, <3>2, <3>3, <3>4, <3>5
  <2>3. CASE Finding(local, row) \notin {"AMBIGUOUS", "DIVERGENCE", "CONSISTENT"}
    BY <1>2, <1>11, <2>3 DEF ReconcileResume
  <2> QED
    BY <2>1, <2>2, <2>3
<1>12. CASE CancelAmbiguous(t)
  <2>1. local # NoRecord /\ local \in Record /\ store[c] # NoRecord /\ Sound(c, local)
    BY <1>1, <1>2, <1>3, <1>12 DEF ReadSound, CancelAmbiguous
  <2>2. /\ Required(local) \in Record /\ Sound(c, Required(local))
        /\ Required(local).status = "RECONCILIATION_REQUIRED"
    BY <2>1, RequiredType DEF Sound
  <2> QED
    BY <1>2, <1>12, <2>1, <2>2 DEF CancelAmbiguous
<1> QED
  BY <1>6, <1>7, <1>8, <1>9, <1>10, <1>11, <1>12 DEF Step

Outcome(t, e) ==
  /\ task' = [task EXCEPT ![t] = e]
  /\ \/ e = Idle
     \/ /\ e.c = task[t].c
        /\ ReadSound(e)
        /\ \/ e.op = "reconcile"
           \/ /\ e.op = task[t].op
              /\ e.pc \in {"closed", "resume"} => task[t].pc \in {"open", "closed"}
              /\ e.pc # "open"

\* What a step makes of its task: it returns, or keeps its intent, having read
\* nothing new, an order of that intent, or the record of the table.
LEMMA StepTask ==
  ASSUME TypeOK, BrokerInv, NEW t \in Tasks, Step(t)
  PROVE  \E e : Outcome(t, e)
<1> DEFINE c == task[t].c
<1>1. task[t] # Idle
  BY DEF Step, QueryOpen, QueryClosed, ReadFails, SubmitFound, SubmitSend, SubmitAck,
     SubmitBadAnswer, SubmitRejected, SubmitAmbiguous, ReconcileResume, CancelAck,
     CancelRejected, CancelAmbiguous, Idle
<1>2. task[t] \in Busy /\ c \in Clients
  BY <1>1, BusyType
<1>3. ReadSound(task[t])
  BY DEF BrokerInv, ReadsSound
<1>4. ASSUME Return(t) PROVE task' = [task EXCEPT ![t] = Idle]
  BY <1>4 DEF Return
<1>5. ASSUME NEW p \in {"closed", "resume", "adding"}, Goto(t, p),
             p = "adding" => task[t].op = "submit"
      PROVE  LET e == [task[t] EXCEPT !.pc = p]
             IN  /\ task' = [task EXCEPT ![t] = e]
                 /\ e.c = c /\ e.op = task[t].op /\ e.pc = p
                 /\ ReadSound(e)
  BY <1>1, <1>2, <1>3, <1>5 DEF Goto, ReadSound, Busy, TypeOK
<1>6. ASSUME NEW states, Answered(t, states)
      PROVE  \E e : /\ task' = [task EXCEPT ![t] = e]
                   /\ \/ e = Idle
                      \/ e.c = c /\ e.op = task[t].op /\ e.pc = "resume" /\ ReadSound(e)
  <2>1. CASE Return(t)
    BY <1>4, <2>1
  <2>2. CASE \E x \in Matching(c, states) :
               task' = [task EXCEPT ![t].pc = "resume", ![t].row = RowOf(x)]
    <3>1. PICK x \in Matching(c, states) :
            task' = [task EXCEPT ![t].pc = "resume", ![t].row = RowOf(x)]
      BY <2>2
    <3>2. x \in Txids /\ orders[x].owner = c
      BY <3>1 DEF Matching
    <3>3. orders[x] \in Order
      BY <1>2, <3>2, NoClientAssumption DEF TypeOK, NoOrder
    <3>4. Seen(c, RowOf(x))
      BY <3>2, <3>3 DEF Seen, RowOf, Order
    <3> DEFINE e == [task[t] EXCEPT !.pc = "resume", !.row = RowOf(x)]
    <3>5. task' = [task EXCEPT ![t] = e]
      BY <1>2, <3>1 DEF TypeOK
    <3>6. e.c = c /\ e.op = task[t].op /\ e.pc = "resume" /\ e.row = RowOf(x)
          /\ e.local = task[t].local
      BY <1>2 DEF Busy
    <3>7. ReadSound(e)
      BY <1>1, <1>3, <3>4, <3>6 DEF ReadSound
    <3> QED
      BY <3>5, <3>6, <3>7
  <2> QED
    BY <1>6, <2>1, <2>2 DEF Answered
<1> HIDE DEF c
<1>7. CASE QueryOpen(t)
  BY <1>5, <1>6, <1>7 DEF QueryOpen, Outcome, c
<1>8. CASE QueryClosed(t)
  BY <1>5, <1>6, <1>8 DEF QueryClosed, Outcome, c
<1>9. CASE SubmitSend(t)
  BY <1>5, <1>9 DEF SubmitSend, Outcome, c
<1>10. CASE CancelAck(t)
  <2> DEFINE e == [task[t] EXCEPT !.op = "reconcile", !.pc = "open",
                                  !.local = store[task[t].c]]
  <2>1. task' = [task EXCEPT ![t] = e]
    BY <1>2, <1>10 DEF CancelAck, TypeOK
  <2>2. /\ e.c = task[t].c /\ e.op = "reconcile" /\ e.pc = "open"
        /\ e.local = store[task[t].c] /\ e.row = task[t].row
    BY <1>2 DEF Busy
  <2>3. Sound(task[t].c, store[task[t].c])
    BY <1>2 DEF BrokerInv, LocalNeverAhead, c
  <2>4. ReadSound(e)
    BY <1>1, <1>3, <2>2, <2>3 DEF ReadSound
  <2> QED
    BY <2>1, <2>2, <2>4 DEF Outcome
<1>11. CASE Return(t)
  BY <1>4, <1>11 DEF Outcome
<1> QED
  BY <1>7, <1>8, <1>9, <1>10, <1>11 DEF Step, ReadFails, SubmitFound, SubmitAck,
     SubmitBadAnswer, SubmitRejected, SubmitAmbiguous, ReconcileResume, CancelRejected,
     CancelAmbiguous

\* Records are never removed.
LEMMA RecordsStay ==
  ASSUME TypeOK, BrokerInv, NEW t \in Tasks, Step(t), NEW c \in Clients,
         store[c] # NoRecord
  PROVE  store'[c] # NoRecord
BY StepPut, Constants DEF Put, TypeOK

\* What holds of an order goes on holding: it keeps its owner, it only fills
\* further, and closed or cancelled is final.
LEMMA OrdersGrow ==
  ASSUME TypeOK, Exchange, NEW x \in Txids, orders[x] # NoOrder
  PROVE  /\ orders'[x].owner = orders[x].owner
         /\ orders[x].exec \in Nat /\ orders'[x].exec \in Nat
         /\ orders[x].exec <= orders'[x].exec
         /\ orders[x].st \in {"closed", "canceled"} => orders'[x].st = orders[x].st
<1>1. orders[x] \in Order
  BY DEF TypeOK
<1>3. ASSUME NEW y \in Txids, OrderFills(y)
      PROVE  /\ orders'[x].owner = orders[x].owner
             /\ orders[x].exec \in Nat /\ orders'[x].exec \in Nat
             /\ orders[x].exec <= orders'[x].exec
             /\ orders[x].st \in {"closed", "canceled"} => orders'[x].st = orders[x].st
  <2> DEFINE n == orders[x].exec + 1
             s == IF n = orders[x].vol THEN "closed" ELSE "open"
  <2>1. orders[x].exec \in Nat /\ n \in Nat /\ orders[x].exec <= n
    BY <1>1 DEF Order
  <2> HIDE DEF n, s
  <2>2. CASE x = y
    <3>1. orders'[x] = [orders[x] EXCEPT !.exec = n, !.st = s] /\ orders[x].st = "open"
      BY <1>3, <2>2 DEF OrderFills, TypeOK, n, s
    <3>2. orders'[x].owner = orders[x].owner /\ orders'[x].exec = n
      BY <1>1, <3>1 DEF Order
    <3> QED
      BY <2>1, <3>1, <3>2
  <2>3. CASE x # y
    BY <1>3, <2>1, <2>3 DEF OrderFills, TypeOK
  <2> QED
    BY <2>2, <2>3
<1>4. ASSUME NEW y \in Txids, NEW st \in {"canceled", "other"}, OrderEnds(y, st)
      PROVE  orders'[x] = IF x = y THEN [orders[x] EXCEPT !.st = st] ELSE orders[x]
  BY <1>4 DEF OrderEnds, TypeOK
<1>5. CASE \E y \in Txids, st \in {"canceled", "other"} : OrderEnds(y, st)
  BY <1>1, <1>4, <1>5 DEF OrderEnds, Order
<1>6. CASE \E c \in Clients, t \in Tasks, y \in Txids, v \in Volumes : ArriveAccepted(c, t, y, v)
  BY <1>1, <1>6 DEF ArriveAccepted, TypeOK, Order
<1>7. CASE UNCHANGED orders
  BY <1>1, <1>7 DEF Order
<1> QED
  BY <1>3, <1>5, <1>6, <1>7 DEF Exchange, ArriveRejected, RequestLost

LEMMA SoundGrows ==
  ASSUME TypeOK, Exchange, NEW c \in Clients
  PROVE  /\ \A rec \in Record \cup {NoRecord} : Sound(c, rec) => Sound(c, rec)'
         /\ \A row \in Row : Seen(c, row) => Seen(c, row)'
<1>1. \A x \in Txids : orders[x].owner = c => orders[x] # NoOrder
  BY NoClientAssumption DEF NoOrder
<1>2. ASSUME NEW rec \in Record \cup {NoRecord}, Sound(c, rec) PROVE Sound(c, rec)'
  <2>1. rec.ext \in Txids \cup {NoTx} /\ rec.filled \in Nat
    BY DEF Record, NoRecord
  <2> QED
    BY <1>1, <1>2, <2>1, OrdersGrow DEF Sound
<1>3. ASSUME NEW row \in Row, Seen(c, row) PROVE Seen(c, row)'
  <2>1. row.tx \in Txids /\ row.exec \in Nat
    BY DEF Row
  <2> QED
    BY <1>1, <1>3, <2>1, OrdersGrow DEF Seen
<1> QED
  BY <1>2, <1>3

LEMMA BrokerInvStep ==
  ASSUME TypeOK, BrokerInv, NEW t \in Tasks, Step(t)
  PROVE  BrokerInv'
<1>1. TypeOK' /\ UNCHANGED orders /\ task[t].c \in Clients
  BY StepType, StepPut
<1>2. LocalNeverAhead'
  BY <1>1, StepPut DEF BrokerInv, LocalNeverAhead, Sound, Put, TypeOK
<1>3. ReadsSound'
  <2> DEFINE After(e) ==
        e # Idle =>
          /\ Sound(e.c, e.local)
          /\ e.local # NoRecord => store'[e.c] # NoRecord
          /\ e.row # NoRow => Seen(e.c, e.row)
          /\ e.pc = "cancelling" => e.local # NoRecord
          /\ e.pc = "acked" => e.row # NoRow
          /\ e.pc \in {"adding", "acked", "rejected"} => e.op = "submit"
  <2>1. ASSUME NEW e, e = Idle \/ ReadSound(e), e # Idle => e.c \in Clients
        PROVE  After(e)
    BY <2>1, RecordsStay DEF ReadSound
  <2>2. PICK e : Outcome(t, e)
    BY StepTask
  <2>3. After(e)
    <3>1. CASE e = Idle
      BY <3>1
    <3>2. CASE e # Idle
      BY <1>1, <2>1, <2>2, <3>2 DEF Outcome
    <3> QED
      BY <3>1, <3>2
  <2>4. ASSUME NEW u \in Tasks PROVE After(task[u])
    <3>1. ReadSound(task[u]) /\ (task[u] # Idle => task[u].c \in Clients)
      BY BusyType DEF BrokerInv, ReadsSound
    <3> QED
      BY <3>1, RecordsStay DEF ReadSound
  <2>5. ASSUME NEW u \in Tasks PROVE After(task'[u])
    BY <2>2, <2>3, <2>4 DEF TypeOK, Outcome
  <2>6. ASSUME NEW u \in Tasks PROVE ReadSound(task[u])'
    BY <1>1, <2>5 DEF ReadSound, Sound, Seen
  <2> QED
    BY <2>6 DEF ReadsSound
<1>4. NoOrphanOrder'
  <2>1. ASSUME NEW c \in Clients, store'[c] = NoRecord
        PROVE  /\ \A u \in Tasks : <<c, u>> \notin wire'
               /\ \A x \in Txids : orders'[x].owner # c
    <3>1. store[c] = NoRecord
      BY <2>1, RecordsStay
    <3>2. \/ wire' = wire
          \/ SubmitSend(t)
      BY DEF Step, QueryOpen, QueryClosed, ReadFails, SubmitFound, SubmitAck,
         SubmitBadAnswer, SubmitRejected, SubmitAmbiguous, ReconcileResume, CancelAck,
         CancelRejected, CancelAmbiguous
    <3>3. ASSUME SubmitSend(t) PROVE c # task[t].c
      BY <1>1, <2>1, <3>3, Constants DEF SubmitSend, Put, TypeOK
    <3>4. wire' \subseteq wire \cup {<<task[t].c, t>>}
      BY <3>2 DEF SubmitSend
    <3> QED
      BY <1>1, <3>1, <3>2, <3>3, <3>4 DEF BrokerInv, NoOrphanOrder, SubmitSend
  <2> QED
    BY <2>1 DEF NoOrphanOrder
<1> QED
  BY <1>2, <1>3, <1>4 DEF BrokerInv

LEMMA BrokerInvCall ==
  ASSUME TypeOK, BrokerInv, NEW t \in Tasks, NEW c \in Clients, Call(t, c)
  PROVE  BrokerInv'
<1>1. UNCHANGED <<store, wire, orders>>
  BY DEF Call, SubmitCall, ReconcileCall, CancelCall
<1> DEFINE e(p, op) == [pc |-> p, op |-> op, c |-> c, local |-> store[c], row |-> NoRow]
<1>2. \/ task' = [task EXCEPT ![t] = e("open", "submit")]
      \/ task' = [task EXCEPT ![t] = e("open", "reconcile")]
      \/ /\ task' = [task EXCEPT ![t] = e("cancelling", "cancel")]
         /\ store[c] # NoRecord
  BY DEF Call, SubmitCall, ReconcileCall, CancelCall, Start
<1>3. Sound(c, store[c])
  BY DEF BrokerInv, LocalNeverAhead
<1>4. /\ ReadSound(e("open", "submit"))
      /\ ReadSound(e("open", "reconcile"))
      /\ store[c] # NoRecord => ReadSound(e("cancelling", "cancel"))
  BY <1>3 DEF ReadSound
<1>5. ASSUME NEW u \in Tasks PROVE ReadSound(task'[u])
  BY <1>2, <1>4 DEF TypeOK, BrokerInv, ReadsSound
<1>6. ASSUME NEW u \in Tasks PROVE ReadSound(task[u])'
  BY <1>1, <1>5 DEF ReadSound, Sound, Seen
<1> QED
  BY <1>1, <1>6 DEF BrokerInv, NoOrphanOrder, LocalNeverAhead, ReadsSound, Sound

LEMMA BrokerInvExchange ==
  ASSUME TypeOK, BrokerInv, Exchange
  PROVE  BrokerInv'
<1>1. UNCHANGED store
  BY DEF Exchange, ArriveAccepted, ArriveRejected, RequestLost, OrderFills, OrderEnds
<1>2. LocalNeverAhead'
  BY <1>1, SoundGrows DEF BrokerInv, LocalNeverAhead, TypeOK, Sound
<1>3. NoOrphanOrder'
  <2>1. ASSUME NEW c \in Clients, store[c] = NoRecord
        PROVE  /\ \A u \in Tasks : <<c, u>> \notin wire'
               /\ \A x \in Txids : orders'[x].owner # c
    <3>1. /\ \A u \in Tasks : <<c, u>> \notin wire
          /\ \A x \in Txids : orders[x].owner # c
      BY <2>1 DEF BrokerInv, NoOrphanOrder
    <3>2. wire' \subseteq wire
      BY DEF Exchange, ArriveAccepted, ArriveRejected, RequestLost, OrderFills, OrderEnds
    <3>3. ASSUME NEW x \in Txids, orders'[x].owner = c PROVE FALSE
      <4>1. CASE orders[x] # NoOrder
        BY <3>1, <3>3, <4>1, OrdersGrow
      <4>2. CASE orders[x] = NoOrder
        <5>1. ASSUME NEW d \in Clients, NEW u \in Tasks, NEW y \in Txids, NEW v \in Volumes,
                     ArriveAccepted(d, u, y, v)
              PROVE  FALSE
          BY <3>1, <3>3, <4>2, <5>1, NoClientAssumption DEF ArriveAccepted, TypeOK, NoOrder
        <5>2. CASE orders'[x] = orders[x]
          BY <3>3, <4>2, <5>2, NoClientAssumption DEF NoOrder
        <5>3. ASSUME NEW y \in Txids, OrderFills(y) \/ \E st \in {"canceled", "other"} : OrderEnds(y, st)
              PROVE  orders'[x] = orders[x]
          BY <4>2, <5>3 DEF OrderFills, OrderEnds, TypeOK, NoOrder
        <5> QED
          BY <5>1, <5>2, <5>3 DEF Exchange, ArriveRejected, RequestLost
      <4> QED
        BY <4>1, <4>2
    <3> QED
      BY <3>1, <3>2, <3>3
  <2> QED
    BY <1>1, <2>1 DEF NoOrphanOrder
<1>4. ASSUME NEW u \in Tasks PROVE ReadSound(task[u])'
  <2>1. CASE task'[u] = task[u]
    <3>1. ReadSound(task[u]) /\ (task[u] # Idle => task[u] \in Busy)
      BY DEF BrokerInv, ReadsSound, TypeOK
    <3> QED
      BY <1>1, <2>1, <3>1, SoundGrows, BusyType DEF ReadSound
  <2>2. ASSUME NEW c \in Clients, NEW x \in Txids, NEW v \in Volumes,
               ArriveAccepted(c, u, x, v), Awaits(u, c)
        PROVE  ReadSound(task[u])'
    <3> DEFINE r == [tx |-> x, st |-> "open", vol |-> v, exec |-> 0]
    <3>1. task[u] # Idle /\ task[u] \in Busy /\ task[u].c = c /\ task[u].pc = "adding"
          /\ ReadSound(task[u])
      BY <2>2 DEF Awaits, Idle, BrokerInv, ReadsSound, TypeOK
    <3>2. task'[u] = [task[u] EXCEPT !.pc = "acked", !.row = r]
      BY <2>2 DEF ArriveAccepted, TypeOK
    <3>3. task'[u].c = c /\ task'[u].pc = "acked" /\ task'[u].row = r
          /\ task'[u].op = task[u].op
          /\ task'[u].local = task[u].local
      BY <3>1, <3>2 DEF Busy
    <3>4. orders'[x] = [owner |-> c, st |-> "open", vol |-> v, exec |-> 0]
      BY <2>2 DEF ArriveAccepted, TypeOK
    <3>5. Seen(c, r)' /\ r # NoRow
      BY <3>4, NoTxAssumption DEF Seen, NoRow
    <3>6. Sound(c, task[u].local) => task[u].local \in Record \cup {NoRecord}
      BY <3>1, BusyType
    <3>7. (Sound(task[u].c, task[u].local))'
      BY <3>1, <3>3, <3>6, SoundGrows DEF ReadSound
    <3> QED
      BY <1>1, <3>1, <3>3, <3>5, <3>7 DEF ReadSound
  <2>3. ASSUME NEW c \in Clients, ArriveRejected(c, u), Awaits(u, c)
        PROVE  ReadSound(task[u])'
    <3>1. task[u] # Idle /\ task[u] \in Busy /\ task[u].c = c /\ ReadSound(task[u])
      BY <2>3 DEF Awaits, Idle, BrokerInv, ReadsSound, TypeOK
    <3>2. task'[u].c = c /\ task'[u].pc = "rejected" /\ task'[u].row = task[u].row
          /\ task'[u].op = task[u].op /\ task[u].pc = "adding"
          /\ task'[u].local = task[u].local /\ UNCHANGED orders
      BY <2>3, <3>1 DEF ArriveRejected, Awaits, Goto, Busy, TypeOK
    <3> QED
      BY <1>1, <3>1, <3>2 DEF ReadSound, Sound, Seen
  <2>4. \/ task'[u] = task[u]
        \/ \E c \in Clients, x \in Txids, v \in Volumes : ArriveAccepted(c, u, x, v) /\ Awaits(u, c)
        \/ \E c \in Clients : ArriveRejected(c, u) /\ Awaits(u, c)
    <3>1. ASSUME NEW c \in Clients, NEW t \in Tasks, NEW x \in Txids, NEW v \in Volumes,
                 ArriveAccepted(c, t, x, v)
          PROVE  task'[u] = task[u] \/ (u = t /\ Awaits(u, c))
      BY <3>1 DEF ArriveAccepted, TypeOK
    <3>2. ASSUME NEW c \in Clients, NEW t \in Tasks, ArriveRejected(c, t)
          PROVE  task'[u] = task[u] \/ (u = t /\ Awaits(u, c))
      BY <3>2 DEF ArriveRejected, Goto, TypeOK
    <3>3. CASE UNCHANGED task
      BY <3>3
    <3> QED
      BY <3>1, <3>2, <3>3 DEF Exchange, RequestLost, OrderFills, OrderEnds
  <2> QED
    BY <2>1, <2>2, <2>3, <2>4
<1> QED
  BY <1>2, <1>3, <1>4 DEF BrokerInv, ReadsSound

\* The inductive invariant, whatever calls overlap.
THEOREM BrokerInvariant == Spec => []BrokerInv
<1>1. Init => BrokerInv
  BY NoClientAssumption
     DEF Init, BrokerInv, NoOrphanOrder, LocalNeverAhead, ReadsSound, ReadSound, Sound,
         NoRecord, NoOrder
<1>2. TypeOK /\ BrokerInv /\ [Next]_vars => BrokerInv'
  <2> SUFFICES ASSUME TypeOK, BrokerInv, [Next]_vars PROVE BrokerInv'
    OBVIOUS
  <2>1. CASE Crash
    BY <2>1 DEF Crash, BrokerInv, NoOrphanOrder, LocalNeverAhead, ReadsSound, ReadSound, Sound
  <2>2. CASE UNCHANGED vars
    BY <2>2 DEF vars, BrokerInv, NoOrphanOrder, LocalNeverAhead, ReadsSound, ReadSound, Sound,
       Seen
  <2> QED
    BY <2>1, <2>2, BrokerInvStep, BrokerInvCall, BrokerInvExchange DEF Next
<1> QED
  BY <1>1, <1>2, TypeCorrect, PTL DEF Spec

\* For every number of intents, coroutines and orders, overlapping calls, crashes
\* and late arrivals included: no exchange order without a durable record, and
\* the table never says more of an order than the exchange holds.
THEOREM BrokerSafe == Spec => []OrdersAreKnown
<1>1. BrokerInv => OrdersAreKnown  BY DEF BrokerInv, OrdersAreKnown
<1> QED  BY <1>1, BrokerInvariant, PTL

---------------------------------------------------------------------------
(* One submission at a time per intent: at most one order.                 *)

LEMMA SubmitInvStep ==
  ASSUME TypeOK, BrokerInv, SubmitInv, NEW t \in Tasks, Step(t)
  PROVE  SubmitInv'
<1> DEFINE c == task[t].c
<1>1. UNCHANGED orders /\ c \in Clients
  BY StepPut
<1>2. PICK e : Outcome(t, e)
  BY StepTask
<1>3. ASSUME NEW u \in Tasks, task'[u].op = "submit"
      PROVE  /\ task[u].op = "submit" /\ task[u].c = task'[u].c
             /\ task'[u].pc \in {"open", "closed", "resume"} =>
                  task[u].pc \in {"open", "closed", "resume"}
             /\ u = t => task'[u].pc # "open"
  BY <1>2, <1>3 DEF Outcome, TypeOK, Idle
<1>4. OneSubmitter'
  BY <1>3 DEF SubmitInv, OneSubmitter
<1>5. SearchBeforeRecord'
  <2>1. ASSUME NEW u \in Tasks, task'[u].op = "submit",
               task'[u].pc \in {"open", "closed", "resume"}
        PROVE  store'[task'[u].c] = NoRecord
    <3>1. store[task[u].c] = NoRecord /\ task[u].c = task'[u].c /\ task[u].op = "submit"
      BY <1>3, <2>1 DEF SubmitInv, SearchBeforeRecord
    <3>2. CASE u = t
      <4>1. task[t].pc \in {"open", "closed"}
        BY <1>2, <2>1, <3>1, <3>2 DEF Outcome, TypeOK, Idle
      <4>2. QueryOpen(t) \/ QueryClosed(t) \/ ReadFails(t)
        BY <4>1 DEF Step, SubmitFound, SubmitSend, SubmitAck, SubmitBadAnswer, SubmitRejected,
           SubmitAmbiguous, ReconcileResume, CancelAck, CancelRejected, CancelAmbiguous
      <4> QED
        BY <3>1, <4>2 DEF QueryOpen, QueryClosed, ReadFails
    <3>3. CASE u # t
      <4>1. CASE task[u].c # c
        <5>1. UNCHANGED store \/ \E rec \in Record : store' = [store EXCEPT ![c] = rec]
          BY StepPut DEF Put
        <5>2. task[u].c \in Clients
          BY <3>1 DEF TypeOK, Busy, Idle
        <5>3. store'[task[u].c] = store[task[u].c]
          BY <1>1, <4>1, <5>1, <5>2 DEF TypeOK
        <5> QED
          BY <3>1, <5>3
      <4>2. CASE task[u].c = c
        <5>1. task[t].op # "submit"
          BY <3>1, <3>3, <4>2 DEF SubmitInv, OneSubmitter
        <5>2. UNCHANGED store
          BY <3>1, <4>2, <5>1, StepPut
        <5> QED
          BY <3>1, <5>2
      <4> QED
        BY <4>1, <4>2
    <3> QED
      BY <3>2, <3>3
  <2> QED
    BY <2>1 DEF SearchBeforeRecord
<1>6. \/ UNCHANGED wire
      \/ /\ wire' = wire \cup {<<c, t>>}
         /\ store[c] = NoRecord /\ Put(c, NewRecord)
         /\ \A u \in Tasks : <<c, u>> \notin wire
         /\ \A x \in Txids : orders[x].owner # c
  <2>1. CASE SubmitSend(t)
    <3>1. store[c] = NoRecord
      BY <2>1 DEF SubmitSend, SubmitInv, SearchBeforeRecord
    <3> QED
      BY <1>1, <2>1, <3>1 DEF SubmitSend, BrokerInv, NoOrphanOrder
  <2>2. CASE ~SubmitSend(t)
    BY <2>2 DEF Step, QueryOpen, QueryClosed, ReadFails, SubmitFound, SubmitAck,
       SubmitBadAnswer, SubmitRejected, SubmitAmbiguous, ReconcileResume, CancelAck,
       CancelRejected, CancelAmbiguous
  <2> QED
    BY <2>1, <2>2
<1>7. OnceOnTheWire'
  <2>1. ASSUME NEW d \in Clients, NEW u \in Tasks, <<d, u>> \in wire'
        PROVE  /\ \A w \in Tasks : <<d, w>> \in wire' => u = w
               /\ \A x \in Txids : orders[x].owner # d
    BY <1>6, <2>1 DEF SubmitInv, OnceOnTheWire
  <2> QED
    BY <1>1, <2>1 DEF OnceOnTheWire
<1>8. NoDuplicateOrder'
  BY <1>1 DEF SubmitInv, NoDuplicateOrder
<1>9. InFlightIsUnresolved'
  <2>1. ASSUME NEW d \in Clients, NEW u \in Tasks, <<d, u>> \in wire'
        PROVE  store'[d].status \in {"NEW", "RECONCILIATION_REQUIRED"}
    <3>1. CASE wire' # wire
      <4>1. /\ wire' = wire \cup {<<c, t>>}
            /\ store' = [store EXCEPT ![c] = NewRecord]
        BY <1>6, <3>1 DEF Put
      <4>2. CASE d = c
        BY <1>1, <4>1, <4>2 DEF TypeOK, NewRecord
      <4>3. CASE d # c
        <5>1. <<d, u>> \in wire
          BY <2>1, <4>1, <4>3
        <5>2. store'[d] = store[d]
          BY <4>1, <4>3 DEF TypeOK
        <5> QED
          BY <5>1, <5>2 DEF SubmitInv, InFlightIsUnresolved
      <4> QED
        BY <4>2, <4>3
    <3>2. CASE wire' = wire
      <4>1. /\ store[d].status \in {"NEW", "RECONCILIATION_REQUIRED"}
            /\ \A x \in Txids : orders[x].owner # d
        BY <2>1, <3>2 DEF SubmitInv, InFlightIsUnresolved, OnceOnTheWire
      <4>2. CASE UNCHANGED store
        BY <4>1, <4>2
      <4>3. CASE \E rec \in Record :
                   /\ Put(c, rec)
                   /\ \/ rec.status \in {"NEW", "RECONCILIATION_REQUIRED"}
                      \/ \E x \in Txids : orders[x].owner = c
        BY <1>1, <4>1, <4>3 DEF Put, TypeOK
      <4> QED
        BY <4>2, <4>3, StepPut
    <3> QED
      BY <3>1, <3>2
  <2> QED
    BY <2>1 DEF InFlightIsUnresolved
<1> QED
  BY <1>4, <1>5, <1>7, <1>8, <1>9 DEF SubmitInv

LEMMA SubmitInvCall ==
  ASSUME ~OverlapSubmits, TypeOK, BrokerInv, SubmitInv,
         NEW t \in Tasks, NEW c \in Clients, Call(t, c)
  PROVE  SubmitInv'
<1>1. UNCHANGED <<store, wire, orders>>
  BY DEF Call, SubmitCall, ReconcileCall, CancelCall
<1>2. ASSUME NEW u \in Tasks, task'[u].op = "submit"
      PROVE  \/ u # t /\ task'[u] = task[u]
             \/ u = t /\ task'[t].c = c /\ SubmitCall(t, c)
  BY <1>2 DEF Call, SubmitCall, ReconcileCall, CancelCall, Start, TypeOK
<1>3. ASSUME NEW u \in Tasks, SubmitCall(t, c), task[u].op = "submit"
      PROVE  task[u].c # c
  BY <1>3 DEF SubmitCall, Start, MayStart
<1>4. OneSubmitter'
  BY <1>2, <1>3 DEF SubmitInv, OneSubmitter
<1>5. SearchBeforeRecord'
  BY <1>1, <1>2 DEF SubmitInv, SearchBeforeRecord, SubmitCall
<1> QED
  BY <1>1, <1>4, <1>5
     DEF SubmitInv, OnceOnTheWire, NoDuplicateOrder, InFlightIsUnresolved

\* A step of the exchange leaves the coroutines in their calls.
LEMMA ExchangeTask ==
  ASSUME TypeOK, Exchange, NEW u \in Tasks
  PROVE  /\ task'[u].op = task[u].op /\ task'[u].c = task[u].c
         /\ task'[u].pc = task[u].pc \/ task'[u].pc \in {"acked", "rejected"}
<1>1. CASE UNCHANGED task
  BY <1>1
<1>2. ASSUME NEW d \in Clients, NEW t \in Tasks, NEW p \in {"acked", "rejected"}, NEW r,
             Awaits(t, d), task' = [task EXCEPT ![t].pc = p, ![t].row = r]
      PROVE  /\ task'[u].op = task[u].op /\ task'[u].c = task[u].c
             /\ task'[u].pc = task[u].pc \/ task'[u].pc \in {"acked", "rejected"}
  <2>1. CASE u # t
    BY <1>2, <2>1 DEF TypeOK
  <2>2. CASE u = t
    <3>1. task[u] \in Busy
      BY <1>2, <2>2 DEF TypeOK, Awaits, Idle
    <3>2. task'[u] = [task[u] EXCEPT !.pc = p, !.row = r]
      BY <1>2, <2>2 DEF TypeOK
    <3> QED
      BY <3>1, <3>2 DEF Busy
  <2> QED
    BY <2>1, <2>2
<1>3. ASSUME NEW d \in Clients, NEW t \in Tasks, ArriveRejected(d, t), Awaits(t, d)
      PROVE  task' = [task EXCEPT ![t].pc = "rejected"]
  BY <1>3 DEF ArriveRejected, Goto
<1>4. ASSUME NEW d \in Clients, NEW t \in Tasks, task' = [task EXCEPT ![t].pc = "rejected"],
             Awaits(t, d)
      PROVE  /\ task'[u].op = task[u].op /\ task'[u].c = task[u].c
             /\ task'[u].pc = task[u].pc \/ task'[u].pc \in {"acked", "rejected"}
  <2>1. CASE u # t
    BY <1>4, <2>1 DEF TypeOK
  <2>2. CASE u = t
    <3>1. task[u] \in Busy
      BY <1>4, <2>2 DEF TypeOK, Awaits, Idle
    <3>2. task'[u] = [task[u] EXCEPT !.pc = "rejected"]
      BY <1>4, <2>2 DEF TypeOK
    <3> QED
      BY <3>1, <3>2 DEF Busy
  <2> QED
    BY <2>1, <2>2
<1> QED
  BY <1>1, <1>2, <1>3, <1>4, ZenonT(40)
     DEF Exchange, ArriveAccepted, ArriveRejected, RequestLost, OrderFills, OrderEnds

LEMMA SubmitInvExchange ==
  ASSUME TypeOK, BrokerInv, SubmitInv, Exchange
  PROVE  SubmitInv'
<1>1. UNCHANGED store /\ wire' \subseteq wire
  BY DEF Exchange, ArriveAccepted, ArriveRejected, RequestLost, OrderFills, OrderEnds
<1>2. ASSUME NEW u \in Tasks
      PROVE  /\ task'[u].op = task[u].op /\ task'[u].c = task[u].c
             /\ task'[u].pc = task[u].pc \/ task'[u].pc \in {"acked", "rejected"}
  BY ExchangeTask
<1>3. OneSubmitter' /\ SearchBeforeRecord'
  BY <1>1, <1>2 DEF SubmitInv, OneSubmitter, SearchBeforeRecord
<1>4. InFlightIsUnresolved'
  BY <1>1 DEF SubmitInv, InFlightIsUnresolved
<1>5. OnceOnTheWire' /\ NoDuplicateOrder'
  <2>1. ASSUME NEW d \in Clients, NEW t \in Tasks, NEW x \in Txids, NEW v \in Volumes,
               ArriveAccepted(d, t, x, v)
        PROVE  OnceOnTheWire' /\ NoDuplicateOrder'
    <3>1. /\ <<d, t>> \in wire /\ wire' = wire \ {<<d, t>>}
          /\ \A y \in Txids : orders'[y].owner = IF y = x THEN d ELSE orders[y].owner
      BY <2>1 DEF ArriveAccepted, TypeOK
    <3>2. /\ \A u \in Tasks : <<d, u>> \in wire => u = t
          /\ \A y \in Txids : orders[y].owner # d
      BY <3>1 DEF SubmitInv, OnceOnTheWire
    <3>3. OnceOnTheWire'
      BY <1>1, <3>1, <3>2 DEF SubmitInv, OnceOnTheWire
    <3>4. NoDuplicateOrder'
      BY <3>1, <3>2 DEF SubmitInv, NoDuplicateOrder
    <3> QED
      BY <3>3, <3>4
  <2>2. ASSUME \A y \in Txids : orders'[y].owner = orders[y].owner
        PROVE  OnceOnTheWire' /\ NoDuplicateOrder'
    BY <1>1, <2>2 DEF SubmitInv, OnceOnTheWire, NoDuplicateOrder
  <2>3. ASSUME NEW x \in Txids, OrderFills(x) \/ \E st \in {"canceled", "other"} : OrderEnds(x, st)
        PROVE  \A y \in Txids : orders'[y].owner = orders[y].owner
    <3>1. orders[x] \in Order
      BY <2>3 DEF TypeOK, NoOrder, OrderFills, OrderEnds
    <3>2. ASSUME NEW y \in Txids PROVE orders'[y].owner = orders[y].owner
      <4>1. CASE y # x
        BY <2>3, <4>1 DEF TypeOK, OrderFills, OrderEnds
      <4>2. CASE y = x
        BY <2>3, <3>1, <4>2 DEF TypeOK, OrderFills, OrderEnds, Order
      <4> QED
        BY <4>1, <4>2
    <3> QED
      BY <3>2
  <2>4. CASE UNCHANGED orders
    BY <2>2, <2>4
  <2> QED
    BY <2>1, <2>2, <2>3, <2>4 DEF Exchange, ArriveRejected, RequestLost
<1> QED
  BY <1>3, <1>4, <1>5 DEF SubmitInv

\* The inductive invariant of serialised submissions.
LEMMA SubmitInvariant ==
  ASSUME ~OverlapSubmits
  PROVE  Spec => []SubmitInv
<1>1. Init => SubmitInv
  BY NoClientAssumption
     DEF Init, SubmitInv, OneSubmitter, SearchBeforeRecord, OnceOnTheWire, NoDuplicateOrder,
         InFlightIsUnresolved, Idle, NoOrder
<1>2. TypeOK /\ BrokerInv /\ SubmitInv /\ [Next]_vars => SubmitInv'
  <2> SUFFICES ASSUME TypeOK, BrokerInv, SubmitInv, [Next]_vars PROVE SubmitInv'
    OBVIOUS
  <2>1. CASE Crash
    BY <2>1 DEF Crash, Idle, SubmitInv, OneSubmitter, SearchBeforeRecord, OnceOnTheWire,
       NoDuplicateOrder, InFlightIsUnresolved
  <2>2. CASE UNCHANGED vars
    BY <2>2 DEF vars, SubmitInv, OneSubmitter, SearchBeforeRecord, OnceOnTheWire,
       NoDuplicateOrder, InFlightIsUnresolved
  <2> QED
    BY <2>1, <2>2, SubmitInvStep, SubmitInvCall, SubmitInvExchange DEF Next
<1> QED
  BY <1>1, <1>2, BrokerInvariant, TypeCorrect, PTL DEF Spec

\* Where two submissions of one intent never overlap, and for every number of
\* intents, coroutines and exchange orders: no timeout, crash, retry or late
\* arrival ever gives an intent a second order, and the record of a request still
\* on the wire stays unresolved.
THEOREM OneOrderPerIntent ==
  ASSUME ~OverlapSubmits
  PROVE  Spec => []IntentsAreSingle
<1>1. SubmitInv => IntentsAreSingle  BY DEF SubmitInv, IntentsAreSingle
<1> QED  BY <1>1, SubmitInvariant, PTL

-----------------------------------------------------------------------------
(* LiveOrders implements OrderIntents, for every number of intents, tasks  *)
(* and orders, where two submissions of one intent never overlap.          *)

\* A coroutine that has sent AddOrder has recorded its intent.
SentRecorded ==
  \A t \in Tasks :
    task[t].pc \in {"adding", "acked", "rejected"} => store[task[t].c] # NoRecord

\* Only AddOrder takes a coroutine to where it waits for its answer.
LEMMA StepPlace ==
  ASSUME TypeOK, NEW t \in Tasks, Step(t), ~SubmitSend(t)
  PROVE  task'[t].pc \notin {"adding", "acked", "rejected"}
<1>1. task[t] \in Busy
  BY DEF Step, QueryOpen, QueryClosed, ReadFails, SubmitFound, SubmitSend, SubmitAck,
     SubmitBadAnswer, SubmitRejected, SubmitAmbiguous, ReconcileResume, CancelAck,
     CancelRejected, CancelAmbiguous, Idle, TypeOK
<1>2. ASSUME Return(t) PROVE task'[t].pc = "idle"
  BY <1>2 DEF Return, Idle, TypeOK
<1>3. ASSUME NEW p, Goto(t, p) PROVE task'[t].pc = p
  BY <1>1, <1>3 DEF Goto, TypeOK, Busy
<1>4. ASSUME NEW states, Answered(t, states) PROVE task'[t].pc \in {"idle", "resume"}
  <2>1. ASSUME NEW x, task' = [task EXCEPT ![t].pc = "resume", ![t].row = RowOf(x)]
        PROVE  task'[t].pc = "resume"
    BY <1>1, <2>1 DEF TypeOK, Busy
  <2> QED
    BY <1>2, <1>4, <2>1 DEF Answered
<1>5. CASE QueryOpen(t) \/ QueryClosed(t)
  BY <1>3, <1>4, <1>5 DEF QueryOpen, QueryClosed
<1>6. CASE CancelAck(t)
  BY <1>1, <1>6 DEF CancelAck, TypeOK, Busy
<1>7. CASE Return(t)
  BY <1>2, <1>7
<1> QED
  BY <1>5, <1>6, <1>7 DEF Step, ReadFails, SubmitFound, SubmitAck, SubmitBadAnswer,
     SubmitRejected, SubmitAmbiguous, ReconcileResume, CancelRejected, CancelAmbiguous

LEMMA SentRecordedStep ==
  ASSUME TypeOK, BrokerInv, SentRecorded, NEW t \in Tasks, Step(t)
  PROVE  SentRecorded'
<1>1. SUFFICES ASSUME NEW u \in Tasks, task'[u].pc \in {"adding", "acked", "rejected"}
               PROVE  store'[task'[u].c] # NoRecord
  BY DEF SentRecorded
<1>2. CASE u # t
  <2>1. task'[u] = task[u]
    <3>1. PICK e : task' = [task EXCEPT ![t] = e]
      BY StepTask DEF Outcome
    <3> QED
      BY <1>2, <3>1 DEF TypeOK
  <2>2. task[u] # Idle
    BY <1>1, <2>1 DEF Idle
  <2>3. task[u].c \in Clients
    BY <2>2, BusyType
  <2> QED
    BY <1>1, <2>1, <2>3, RecordsStay DEF SentRecorded
<1>3. CASE u = t
  <2>1. SubmitSend(t)
    BY <1>1, <1>3, StepPlace
  <2>2. task[t].c \in Clients /\ task[t] \in Busy
    BY <2>1, StepPut DEF SubmitSend, TypeOK, Idle
  <2>3. task'[t].c = task[t].c
    BY <2>1, <2>2 DEF SubmitSend, Goto, TypeOK, Busy
  <2> QED
    BY <1>3, <2>1, <2>2, <2>3, Constants DEF SubmitSend, Put, TypeOK
<1> QED
  BY <1>2, <1>3

LEMMA SentRecordedExchange ==
  ASSUME TypeOK, SentRecorded, Exchange
  PROVE  SentRecorded'
<1>1. UNCHANGED store
  BY DEF Exchange, ArriveAccepted, ArriveRejected, RequestLost, OrderFills, OrderEnds
<1>2. ASSUME NEW u \in Tasks
      PROVE  /\ task'[u].c = task[u].c
             /\ \/ task'[u].pc = task[u].pc
                \/ task[u].pc = "adding"
  <2>1. ASSUME NEW c, NEW t \in Tasks, Awaits(t, c), NEW p, NEW r,
               \/ task' = [task EXCEPT ![t].pc = p, ![t].row = r]
               \/ task' = [task EXCEPT ![t].pc = p]
        PROVE  task'[u].c = task[u].c /\ (task'[u].pc = task[u].pc \/ task[u].pc = "adding")
    <3>1. task[t] \in Busy /\ task[t].pc = "adding"
      BY <2>1 DEF Awaits, Idle, TypeOK
    <3>2. CASE u # t
      BY <2>1, <3>2 DEF TypeOK
    <3>3. CASE u = t
      BY <2>1, <3>1, <3>3 DEF TypeOK, Busy
    <3> QED
      BY <3>2, <3>3
  <2>2. CASE UNCHANGED task
    BY <2>2
  <2>3. ASSUME NEW c \in Clients, NEW t \in Tasks, NEW x \in Txids, NEW v \in Volumes,
               ArriveAccepted(c, t, x, v)
        PROVE  task'[u].c = task[u].c /\ (task'[u].pc = task[u].pc \/ task[u].pc = "adding")
    BY <2>1, <2>2, <2>3 DEF ArriveAccepted
  <2>4. ASSUME NEW c \in Clients, NEW t \in Tasks, ArriveRejected(c, t)
        PROVE  task'[u].c = task[u].c /\ (task'[u].pc = task[u].pc \/ task[u].pc = "adding")
    BY <2>1, <2>2, <2>4 DEF ArriveRejected, Goto
  <2> QED
    BY <2>2, <2>3, <2>4 DEF Exchange, RequestLost, OrderFills, OrderEnds
<1> QED
  BY <1>1, <1>2 DEF SentRecorded

\* Inductive next to BrokerInv, whatever calls overlap.
LEMMA SentIsRecorded == Spec => []SentRecorded
<1>1. Init => SentRecorded
  BY DEF Init, SentRecorded, Idle
<1>2. TypeOK /\ BrokerInv /\ SentRecorded /\ [Next]_vars => SentRecorded'
  <2> SUFFICES ASSUME TypeOK, BrokerInv, SentRecorded, [Next]_vars PROVE SentRecorded'
    OBVIOUS
  <2>1. CASE Crash
    BY <2>1 DEF Crash, Idle, SentRecorded
  <2>2. CASE UNCHANGED vars
    BY <2>2 DEF vars, SentRecorded
  <2>3. ASSUME NEW t \in Tasks, NEW c \in Clients, Call(t, c) PROVE SentRecorded'
    BY <2>3 DEF Call, SubmitCall, ReconcileCall, CancelCall, Start, SentRecorded, TypeOK
  <2> QED
    BY <2>1, <2>2, <2>3, SentRecordedStep, SentRecordedExchange DEF Next
<1> QED
  BY <1>1, <1>2, TypeCorrect, BrokerInvariant, PTL DEF Spec

---------------------------------------------------------------------------
(* The steps of the promise.                                               *)

\* A step that sends nothing records no new intent.
LEMMA QuietStep ==
  ASSUME TypeOK, BrokerInv, SentRecorded, NEW t \in Tasks, Step(t), ~SubmitSend(t)
  PROVE  UNCHANGED Promise!vars
<1> DEFINE c == task[t].c
<1>1. UNCHANGED <<wire, orders>>
  BY DEF Step, QueryOpen, QueryClosed, ReadFails, SubmitFound, SubmitAck, SubmitBadAnswer,
     SubmitRejected, SubmitAmbiguous, ReconcileResume, CancelAck, CancelRejected, CancelAmbiguous
<1>2. c \in Clients
  BY StepPut
<1>3. UNCHANGED store \/ store[c] # NoRecord
  <2>1. CASE SubmitFound(t)
    <3>1. ReadSound(task[t]) /\ task[t] # Idle /\ task[t].row # NoRow
      BY <2>1 DEF BrokerInv, ReadsSound, SubmitFound, Idle
    <3>2. task[t].row \in Row /\ Seen(c, task[t].row)
      BY <3>1, BusyType DEF ReadSound
    <3> QED
      BY <1>2, <3>2 DEF Seen, Row, BrokerInv, NoOrphanOrder
  <2>2. CASE SubmitAck(t) \/ SubmitBadAnswer(t) \/ SubmitAmbiguous(t)
    BY <2>2 DEF SentRecorded, SubmitAck, SubmitBadAnswer, SubmitAmbiguous
  <2>3. CASE ReconcileResume(t)
    BY <2>3, StepPut DEF ReconcileResume
  <2>4. CASE CancelAmbiguous(t)
    BY <2>4 DEF BrokerInv, ReadsSound, ReadSound, CancelAmbiguous, Idle
  <2> QED
    BY <2>1, <2>2, <2>3, <2>4 DEF Step, QueryOpen, QueryClosed, ReadFails, SubmitRejected, CancelAck,
       CancelRejected
<1>4. ASSUME NEW d \in Clients PROVE store'[d] # NoRecord <=> store[d] # NoRecord
  <2>1. UNCHANGED store \/ \E rec \in Record : store' = [store EXCEPT ![c] = rec]
    BY StepPut DEF Put
  <2> QED
    BY <1>2, <1>3, <2>1, Constants DEF TypeOK
<1> QED
  BY <1>1, <1>4 DEF Promise!vars

\* AddOrder leaves for an intent never recorded before.
LEMMA SubmitIsSend ==
  ASSUME TypeOK, BrokerInv, SubmitInv, NEW t \in Tasks, SubmitSend(t)
  PROVE  Promise!Next
<1>1. PICK c \in Clients : c = task[t].c /\ UNCHANGED orders
  BY StepPut DEF Step
<1>2. /\ store[c] = NoRecord
      /\ store' = [store EXCEPT ![c] = NewRecord]
      /\ wire' = wire \cup {<<c, t>>}
  BY <1>1 DEF SubmitSend, Put, SubmitInv, SearchBeforeRecord
<1>3. ASSUME NEW d \in Clients
      PROVE  /\ store'[d] # NoRecord <=> d = c \/ store[d] # NoRecord
             /\ (\E u \in Tasks : <<d, u>> \in wire') <=>
                  d = c \/ \E u \in Tasks : <<d, u>> \in wire
  BY <1>1, <1>2, Constants DEF TypeOK
<1>4. Promise!Send(c)
  BY <1>1, <1>2, <1>3 DEF Promise!Send
<1> QED
  BY <1>1, <1>4 DEF Promise!Next

\* A request that arrives places the order of an intent that had none, or drops
\* the intent; what an order does later is no concern of the promise.
LEMMA ExchangeKeepsPromise ==
  ASSUME TypeOK, SubmitInv, Exchange
  PROVE  [Promise!Next]_(Promise!vars)
<1>1. UNCHANGED store
  BY DEF Exchange, ArriveAccepted, ArriveRejected, RequestLost, OrderFills, OrderEnds
<1>2. ASSUME NEW c \in Clients, NEW t \in Tasks, <<c, t>> \in wire,
             wire' = wire \ {<<c, t>>}
      PROVE  /\ {d \in Clients : \E u \in Tasks : <<d, u>> \in wire'} =
                  {d \in Clients : \E u \in Tasks : <<d, u>> \in wire} \ {c}
             /\ c \in {d \in Clients : \E u \in Tasks : <<d, u>> \in wire}
             /\ \A x \in Txids : orders[x].owner # c
  BY <1>2 DEF SubmitInv, OnceOnTheWire
<1>3. ASSUME NEW c \in Clients, NEW t \in Tasks, NEW x \in Txids, NEW v \in Volumes,
             ArriveAccepted(c, t, x, v)
      PROVE  Promise!Place(c)
  <2>1. /\ orders[x].owner = NoClient
        /\ \A y \in Txids : orders'[y].owner = IF y = x THEN c ELSE orders[y].owner
    BY <1>3 DEF ArriveAccepted, TypeOK, NoOrder
  <2>2. {d \in Clients : \E y \in Txids : orders'[y].owner = d} =
          {d \in Clients : \E y \in Txids : orders[y].owner = d} \cup {c}
    BY <2>1, NoClientAssumption
  <2>3. /\ {d \in Clients : \E u \in Tasks : <<d, u>> \in wire'} =
             {d \in Clients : \E u \in Tasks : <<d, u>> \in wire} \ {c}
        /\ c \in {d \in Clients : \E u \in Tasks : <<d, u>> \in wire}
        /\ c \notin {d \in Clients : \E y \in Txids : orders[y].owner = d}
    <3>1. <<c, t>> \in wire /\ wire' = wire \ {<<c, t>>}
      BY <1>3 DEF ArriveAccepted
    <3> QED
      BY <3>1, <1>2
  <2> QED
    BY <1>1, <2>2, <2>3 DEF Promise!Place
<1>4. ASSUME NEW c \in Clients, NEW t \in Tasks, ArriveRejected(c, t) \/ RequestLost(c, t)
      PROVE  Promise!Drop(c)
  BY <1>1, <1>2, <1>4 DEF ArriveRejected, RequestLost, Promise!Drop
<1>5. ASSUME NEW x \in Txids, OrderFills(x) \/ \E st \in {"canceled", "other"} : OrderEnds(x, st)
      PROVE  UNCHANGED Promise!vars
  <2>1. orders[x] \in Order
    BY <1>5 DEF TypeOK, NoOrder, OrderFills, OrderEnds
  <2>2. ASSUME NEW y \in Txids PROVE orders'[y].owner = orders[y].owner
    <3>1. CASE y # x
      BY <1>5, <3>1 DEF TypeOK, OrderFills, OrderEnds
    <3>2. CASE y = x
      BY <1>5, <2>1, <3>2 DEF TypeOK, OrderFills, OrderEnds, Order
    <3> QED
      BY <3>1, <3>2
  <2>3. UNCHANGED wire
    BY <1>5 DEF OrderFills, OrderEnds
  <2> QED
    BY <1>1, <2>2, <2>3 DEF Promise!vars
<1> QED
  BY <1>3, <1>4, <1>5 DEF Exchange, Promise!Next

\* The broker keeps the at-most-once promise: through overlapping reconciliations
\* and cancellations, timeouts, crashes and late arrivals, every step of it is a
\* step OrderIntents allows.
THEOREM ImplementsIntents ==
  ASSUME ~OverlapSubmits
  PROVE  Spec => AtMostOnce
<1>1. Init => Promise!Init
  BY NoClientAssumption DEF Init, NoOrder, Promise!Init
<1>2. TypeOK /\ BrokerInv /\ SubmitInv /\ SentRecorded /\ [Next]_vars
        => [Promise!Next]_(Promise!vars)
  <2> SUFFICES ASSUME TypeOK, BrokerInv, SubmitInv, SentRecorded, [Next]_vars
               PROVE  [Promise!Next]_(Promise!vars)
    OBVIOUS
  <2>1. CASE UNCHANGED <<store, wire, orders>>
    BY <2>1 DEF Promise!vars
  <2>2. ASSUME NEW t \in Tasks, Step(t) PROVE [Promise!Next]_(Promise!vars)
    BY <2>2, QuietStep, SubmitIsSend
  <2> QED
    BY <2>1, <2>2, ExchangeKeepsPromise
       DEF Next, vars, Call, SubmitCall, ReconcileCall, CancelCall, Crash
<1> QED
  BY <1>1, <1>2, TypeCorrect, BrokerInvariant, SubmitInvariant, SentIsRecorded, PTL
     DEF Spec, AtMostOnce, Promise!Spec

\* A record leaves RECONCILIATION_REQUIRED only for an order the exchange holds:
\* no failed search, answer or crash resolves an ambiguity by itself.
THEOREM ResolvedByExchange ==
  ASSUME ~OverlapSubmits
  PROVE  Spec => ResolvedOnlyByExchange
<1> DEFINE Evidence(c) ==
      /\ store[c].status = "RECONCILIATION_REQUIRED"
      /\ store'[c].status # "RECONCILIATION_REQUIRED"
      => \E x \in Txids : orders[x].owner = c
<1>1. ASSUME TypeOK, BrokerInv, SubmitInv, NEW t \in Tasks, Step(t), NEW c \in Clients
      PROVE  Evidence(c)
  <2>1. CASE UNCHANGED store
    BY <2>1
  <2>2. ASSUME NEW rec \in Record, Put(task[t].c, rec), task[t].c \in Clients,
               \/ rec.status = "RECONCILIATION_REQUIRED"
               \/ \E x \in Txids : orders[x].owner = task[t].c
        PROVE  Evidence(c)
    BY <1>1, <2>2 DEF Put, TypeOK
  <2>3. CASE SubmitSend(t)
    <3>1. store[task[t].c].status # "RECONCILIATION_REQUIRED"
      BY <1>1, <2>3 DEF SubmitSend, SubmitInv, SearchBeforeRecord, NoRecord
    <3>2. store' = [store EXCEPT ![task[t].c] = NewRecord]
      BY <2>3 DEF SubmitSend, Put
    <3>3. c # task[t].c => store'[c] = store[c]
      BY <1>1, <3>2 DEF TypeOK
    <3> QED
      BY <3>1, <3>3
  <2> QED
    BY <1>1, <2>1, <2>2, <2>3, StepPut
<1>2. TypeOK /\ BrokerInv /\ SubmitInv /\ [Next]_vars => [\A c \in Clients : Evidence(c)]_vars
  <2> SUFFICES ASSUME TypeOK, BrokerInv, SubmitInv, Next PROVE \A c \in Clients : Evidence(c)
    OBVIOUS
  <2>1. CASE UNCHANGED store
    BY <2>1
  <2> QED
    BY <1>1, <2>1
       DEF Next, Call, SubmitCall, ReconcileCall, CancelCall, Crash, Exchange, ArriveAccepted,
           ArriveRejected, RequestLost, OrderFills, OrderEnds
<1> QED
  BY <1>2, TypeCorrect, BrokerInvariant, SubmitInvariant, PTL DEF Spec, ResolvedOnlyByExchange

-----------------------------------------------------------------------------
(* What a step of the gates is for the orders                              *)

\* The process of some coroutines ends, and they are forgotten.
Forgotten ==
  /\ UNCHANGED <<store, wire, orders>>
  /\ task' \in [Tasks -> Busy \cup {Idle}]
  /\ \A t \in Tasks : task'[t] \in {task[t], Idle}

OrdersStep ==
  \/ \E t \in Tasks : Step(t)
  \/ \E t \in Tasks, c \in Clients : Call(t, c)
  \/ Exchange
  \/ Forgotten
  \/ \E x \in Txids : ManualOrder(x)

ControlsOK ==
  /\ mode \in Modes /\ report \in Reports
  /\ kill \in Kills /\ stopper \in {"none", "stop", "emergency"}
  /\ required \in BOOLEAN
  /\ gate \in Gate \cup {NoGate}
  /\ coord \in Coordinator

LEMMA TradingSteps == TypeOK /\ ControlsOK /\ Trading => OrdersStep
<1> SUFFICES ASSUME TypeOK, ControlsOK, Trading PROVE OrdersStep
  OBVIOUS
<1>1. ASSUME NEW t \in Tasks, TradingStep(t) PROVE OrdersStep
  BY <1>1 DEF TradingStep, OrdersStep
<1>2. ASSUME NEW t \in Tasks, NEW c \in Clients,
             AuthorizedCancel(t, c) \/ Poll(t, c)
      PROVE  OrdersStep
  BY <1>2 DEF AuthorizedCancel, Poll, Call, OrdersStep
<1>3. ASSUME Restart PROVE OrdersStep
  BY <1>3 DEF Restart, Forgotten, OrdersStep, TypeOK
<1>4. ASSUME UNCHANGED vars PROVE OrdersStep
  BY <1>4 DEF vars, TypeOK, Forgotten, OrdersStep
<1>5. ASSUME EnterBroker PROVE OrdersStep
  <2>1. gate.t \in Tasks /\ gate.c \in Clients
    BY <1>5 DEF EnterBroker, ControlsOK, Gate, NoGate
  <2> QED
    BY <1>4, <1>5, <2>1 DEF EnterBroker, Call, OrdersStep
<1> QED
  BY <1>1, <1>2, <1>3, <1>4, <1>5 DEF Trading, ReadSafety, ReadFlag, SubmitAuthorized

LEMMA PreflightSteps == TypeOK /\ Preflight => OrdersStep
<1> SUFFICES ASSUME TypeOK, Preflight PROVE OrdersStep
  OBVIOUS
<1> USE CoordAssumption
<1>1. CASE UNCHANGED vars
  BY <1>1 DEF vars, TypeOK, Forgotten, OrdersStep
<1>2. ASSUME CoordResume \/ CoordQuery PROVE OrdersStep
  BY <1>2 DEF CoordResume, CoordQuery, Step, OrdersStep
<1>3. ASSUME NEW c \in Clients, CoordNext(c) PROVE OrdersStep
  BY <1>3 DEF CoordNext, Call, OrdersStep
<1>4. ASSUME PreflightDies PROVE OrdersStep
  BY <1>4 DEF PreflightDies, Forgotten, OrdersStep, TypeOK
<1> QED
  BY <1>1, <1>2, <1>3, <1>4 DEF Preflight, PreflightStart, CoordStart, CoordList, CoordFails,
     CoordRead, CoordRecheck, CoordLower, ReportGates, PreflightReport

\* For the order table a step of the gates is a step of a coroutine, a call, a
\* step of the exchange, the end of a process or an order of somebody else's.
LEMMA ControlSteps == TypeOK /\ ControlsOK /\ [ControlNext]_allVars => OrdersStep
<1> SUFFICES ASSUME TypeOK, ControlsOK, [ControlNext]_allVars PROVE OrdersStep
  OBVIOUS
<1>1. CASE UNCHANGED vars
  BY <1>1 DEF vars, TypeOK, Forgotten, OrdersStep
<1>2. CASE Operator
  BY <1>1, <1>2 DEF Operator, BeginPreflight, Arm, Disarm, SetMode, ClearSafety, Emergency, SetKill,
     StopRead, StopWrite, StopDies
<1>3. CASE World
  BY <1>3 DEF World, OrdersStep
<1> QED
  BY <1>1, <1>2, <1>3, TradingSteps, PreflightSteps DEF ControlNext, allVars

-----------------------------------------------------------------------------
(* Types                                                                   *)

LEMMA OrdersStepType == TypeOK /\ OrdersStep => TypeOK'
<1> SUFFICES ASSUME TypeOK, OrdersStep PROVE TypeOK'
  OBVIOUS
<1>1. ASSUME NEW t \in Tasks, NEW c \in Clients, Call(t, c) PROVE TypeOK'
  BY <1>1, StartType DEF Call, SubmitCall, ReconcileCall, CancelCall, Places, Ops, TypeOK
<1>2. CASE Forgotten
  BY <1>2 DEF Forgotten, TypeOK
<1>3. ASSUME NEW x \in Txids, ManualOrder(x) PROVE TypeOK'
  BY <1>3, QtyAssumption DEF ManualOrder, TypeOK, Order, OrderStates
<1> QED
  BY <1>1, <1>2, <1>3, StepType, ExchangeType DEF OrdersStep

LEMMA ControlsType == TypeOK /\ ControlsOK /\ [ControlNext]_allVars => ControlsOK'
<1> SUFFICES ASSUME TypeOK, ControlsOK, [ControlNext]_allVars PROVE ControlsOK'
  OBVIOUS
<1> USE DEF ControlsOK
<1>1. CASE UNCHANGED controls
  BY <1>1 DEF controls
<1>2. ASSUME Operator PROVE ControlsOK'
  BY <1>2 DEF Operator, BeginPreflight, Arm, Disarm, SetMode, ClearSafety, Emergency, SetKill,
     StopRead, StopWrite, StopDies, Modes, Kills
<1>3. ASSUME Trading PROVE ControlsOK'
  <2>1. ASSUME NEW t \in Tasks \ {Coord}, NEW c \in Clients, ReadSafety(t, c) PROVE ControlsOK'
    BY <2>1 DEF ReadSafety, Gate
  <2>2. ASSUME ReadFlag PROVE ControlsOK'
    BY <2>2 DEF ReadFlag, Gate, NoGate
  <2>3. ASSUME EnterBroker \/ Restart PROVE ControlsOK'
    BY <2>3 DEF EnterBroker, Restart, Modes, Reports
  <2> QED
    BY <1>1, <1>3, <2>1, <2>2, <2>3 DEF Trading, TradingStep, SubmitAuthorized, AuthorizedCancel, Poll
<1>4. ASSUME World PROVE ControlsOK'
  BY <1>1, <1>4 DEF World, ManualOrder
<1>5. NoCoordinator \in Coordinator
  BY DEF NoCoordinator, Coordinator
<1>6. ASSUME PreflightStart \/ PreflightDies PROVE ControlsOK'
  <2> DEFINE past == {c \in Clients : \/ gate.at = "broker" /\ gate.c = c
                                      \/ \E t \in Tasks : task[t].op = "submit" /\ task[t].c = c}
  <2>1. past \in SUBSET Clients
    OBVIOUS
  <2>2. ASSUME PreflightStart PROVE coord' = [NoCoordinator EXCEPT !.pc = "permissions", !.past = past]
    BY <2>2 DEF PreflightStart
  <2> HIDE DEF past
  <2> QED
    BY <1>5, <1>6, <2>1, <2>2 DEF PreflightStart, PreflightDies, Coordinator
<1>7. ASSUME CoordStart PROVE ControlsOK'
  <2> DEFINE known == {c \in Clients : store[c] # NoRecord}
             todo == {c \in Clients : store[c].status \in Unresolved \cup {"OPEN", "PARTIALLY_FILLED"}}
  <2>1. coord' = [coord EXCEPT !.pc = "listing", !.known = known, !.todo = todo]
    BY <1>7 DEF CoordStart
  <2>2. known \subseteq Clients /\ todo \subseteq Clients
    OBVIOUS
  <2> HIDE DEF known, todo
  <2>3. coord' \in Coordinator
    BY <2>1, <2>2 DEF Coordinator
  <2> QED
    BY <1>7, <2>3 DEF CoordStart
<1>8. ASSUME CoordList PROVE ControlsOK'
  <2> DEFINE bad == \E x \in Txids : orders[x].st = "open" /\ orders[x].owner \notin coord.known
  <2>1. coord' = [coord EXCEPT !.pc = "loop", !.bad = bad] /\ bad \in BOOLEAN
    BY <1>8 DEF CoordList
  <2> HIDE DEF bad
  <2>2. coord' \in Coordinator
    BY <2>1 DEF Coordinator
  <2> QED
    BY <1>8, <2>2 DEF CoordList
<1>9. ASSUME NEW c \in Clients, CoordNext(c) PROVE ControlsOK'
  BY <1>9 DEF CoordNext, Coordinator
<1>10. ASSUME CoordResume PROVE ControlsOK'
  <2> DEFINE bad == coord.bad \/ Finding(task[Coord].local, task[Coord].row) # "CONSISTENT"
  <2>1. coord' = [coord EXCEPT !.bad = bad] /\ bad \in BOOLEAN
    BY <1>10 DEF CoordResume
  <2> HIDE DEF bad
  <2>2. coord' \in Coordinator
    BY <2>1 DEF Coordinator
  <2> QED
    BY <1>10, <2>2 DEF CoordResume
<1>11. ASSUME NEW ready \in BOOLEAN, Concluded(ready) PROVE coord' \in Coordinator
  BY <1>11 DEF Concluded, NoCoordinator, Coordinator
<1>12. ASSUME CoordQuery \/ CoordFails \/ CoordLower PROVE ControlsOK'
  BY <1>11, <1>12 DEF CoordQuery, CoordFails, CoordLower
<1>14. ASSUME CoordRead \/ CoordRecheck PROVE ControlsOK'
  <2> DEFINE known == {c \in Clients : store[c] # NoRecord}
  <2>1. known \in SUBSET Clients /\ {} \in SUBSET Clients
    OBVIOUS
  <2>2. \/ Concluded(FALSE)
        \/ coord' = [coord EXCEPT !.pc = "marking", !.known = {}]
        \/ coord' = [coord EXCEPT !.pc = "lowering", !.known = known]
    BY <1>14 DEF CoordRead, CoordRecheck
  <2> HIDE DEF known
  <2>3. coord' \in Coordinator
    BY <1>11, <2>1, <2>2 DEF Coordinator
  <2> QED
    BY <1>14, <2>3 DEF CoordRead, CoordRecheck
<1>15. ASSUME ReportGates PROVE ControlsOK'
  <2> DEFINE ready == coord.ready /\ ~required /\ kill = "clear"
  <2>1. coord' = [coord EXCEPT !.pc = "orders", !.ready = ready] /\ ready \in BOOLEAN
    BY <1>15 DEF ReportGates
  <2> HIDE DEF ready
  <2>2. coord' \in Coordinator
    BY <2>1 DEF Coordinator
  <2> QED
    BY <1>15, <2>2 DEF ReportGates
<1>13. ASSUME NEW others \in BOOLEAN, PreflightReport(others) PROVE ControlsOK'
  BY <1>5, <1>13 DEF PreflightReport, Reports
<1> HIDE DEF ControlsOK
<1> QED
  BY <1>1, <1>2, <1>3, <1>4, <1>6, <1>7, <1>8, <1>9, <1>10, <1>12, <1>13, <1>14, <1>15
     DEF ControlNext, Preflight, allVars, controls

\* The gates, the preflight and the order table are well typed for any number of
\* intents, coroutines and orders, overlapping submissions included.
THEOREM ControlTypeCorrect == ControlSpec => []ControlTypeOK
<1>1. ControlInit => ControlTypeOK
  BY DEF ControlInit, Init, TypeOK, ControlTypeOK, Modes, Reports, Kills, NoCoordinator, Coordinator,
     Gate, NoGate
<1>2. ControlTypeOK <=> TypeOK /\ ControlsOK
  BY DEF ControlTypeOK, ControlsOK
<1>3. ControlTypeOK /\ [ControlNext]_allVars => ControlTypeOK'
  BY <1>2, ControlSteps, OrdersStepType, ControlsType DEF ControlTypeOK, ControlsOK
<1> QED
  BY <1>1, <1>3, PTL DEF ControlSpec

-----------------------------------------------------------------------------
(* What holds of the order table                                           *)

\* A record that is neither new nor sent back to reconciliation names its order.
Bound ==
  \A c \in Clients : store[c].status \notin {"NONE", "NEW", "RECONCILIATION_REQUIRED"} => store[c].ext # NoTx

TableInv == BrokerInv /\ SubmitInv /\ Bound

LEMMA PutBinds ==
  ASSUME TypeOK, Bound, NEW c \in Clients, NEW rec, Put(c, rec),
         rec.status \in {"NEW", "RECONCILIATION_REQUIRED"} \/ rec.ext # NoTx
  PROVE  Bound'
BY DEF Put, Bound, TypeOK

LEMMA StepBinds ==
  ASSUME TypeOK, BrokerInv, Bound, NEW t \in Tasks, Step(t)
  PROVE  Bound'
<1> DEFINE c == task[t].c
           local == task[t].local
           row == task[t].row
<1>1. task[t] # Idle
  BY DEF Step, QueryOpen, QueryClosed, ReadFails, SubmitFound, SubmitSend, SubmitAck,
     SubmitBadAnswer, SubmitRejected, SubmitAmbiguous, ReconcileResume, CancelAck,
     CancelRejected, CancelAmbiguous, Idle
<1>2. c \in Clients /\ local \in Record \cup {NoRecord} /\ row \in Row \cup {NoRow}
  BY <1>1, BusyType
<1>3. ReadSound(task[t])
  BY DEF BrokerInv, ReadsSound
<1>4. row # NoRow => row.tx # NoTx /\ RecordFromExchange(row).ext = row.tx
  BY <1>2, NoTxAssumption DEF Row, RecordFromExchange
<1>5. /\ NewRecord.status = "NEW" /\ Required(NewRecord).status = "RECONCILIATION_REQUIRED"
      /\ \A rec \in Record : Required(rec).status = "RECONCILIATION_REQUIRED"
  BY Constants, RequiredType DEF NewRecord
<1>6. CASE UNCHANGED store
  BY <1>6 DEF Bound
<1>7. CASE SubmitFound(t)
  BY <1>2, <1>4, <1>7, PutBinds DEF SubmitFound
<1>8. CASE SubmitSend(t) \/ SubmitBadAnswer(t) \/ SubmitAmbiguous(t)
  BY <1>2, <1>5, <1>8, PutBinds DEF SubmitSend, SubmitBadAnswer, SubmitAmbiguous
<1>9. CASE SubmitAck(t)
  <2>1. row # NoRow
    BY <1>1, <1>3, <1>9 DEF ReadSound, SubmitAck
  <2> QED
    BY <1>2, <1>4, <1>9, <2>1, PutBinds DEF SubmitAck
<1>10. CASE ReconcileResume(t)
  <2>1. CASE Finding(local, row) = "AMBIGUOUS"
    <3>1. local \in Record
      BY <1>2, <2>1 DEF Finding, NoRecord
    <3> QED
      BY <1>2, <1>5, <1>10, <2>1, <3>1, PutBinds DEF ReconcileResume
  <2>2. CASE Finding(local, row) = "DIVERGENCE"
    <3>1. RecordFromExchange(row) \in Record
      BY <1>2, <2>2, RecordFromType DEF Finding
    <3> QED
      BY <1>2, <1>5, <1>10, <2>2, <3>1, PutBinds DEF ReconcileResume
  <2>3. CASE Finding(local, row) = "CONSISTENT"
    <3>1. row # NoRow
      BY <2>3 DEF Finding
    <3> QED
      BY <1>2, <1>4, <1>10, <2>3, <3>1, PutBinds DEF ReconcileResume
  <2>4. CASE Finding(local, row) \notin {"AMBIGUOUS", "DIVERGENCE", "CONSISTENT"}
    BY <1>6, <1>10, <2>4 DEF ReconcileResume
  <2> QED
    BY <2>1, <2>2, <2>3, <2>4
<1>11. CASE CancelAmbiguous(t)
  <2>1. local \in Record
    BY <1>1, <1>2, <1>3, <1>11 DEF ReadSound, CancelAmbiguous
  <2> QED
    BY <1>2, <1>5, <1>11, <2>1, PutBinds DEF CancelAmbiguous
<1> QED
  BY <1>6, <1>7, <1>8, <1>9, <1>10, <1>11
     DEF Step, QueryOpen, QueryClosed, ReadFails, SubmitRejected, CancelAck, CancelRejected

\* A coroutine forgotten takes nothing back of what is recorded or sent.
LEMMA ForgottenKeeps == ASSUME TableInv, Forgotten PROVE TableInv'
<1>1. UNCHANGED <<store, wire, orders>>
  BY DEF Forgotten
<1>2. BrokerInv'
  BY <1>1 DEF TableInv, BrokerInv, NoOrphanOrder, LocalNeverAhead, ReadsSound, ReadSound, Sound, Seen,
     Forgotten
<1>3. Idle.op # "submit"
  BY DEF Idle
<1>4. OneSubmitter' /\ SearchBeforeRecord'
  BY <1>1, <1>3 DEF TableInv, SubmitInv, OneSubmitter, SearchBeforeRecord, Forgotten
<1> QED
  BY <1>1, <1>2, <1>4
     DEF TableInv, SubmitInv, OnceOnTheWire, NoDuplicateOrder, InFlightIsUnresolved, Bound

\* An order placed by other means is nobody's intent.
LEMMA ManualKeeps == ASSUME TypeOK, TableInv, NEW x \in Txids, ManualOrder(x) PROVE TableInv'
<1> DEFINE o == [owner |-> NoClient, st |-> "open", vol |-> Qty, exec |-> 0]
<1>1. /\ orders[x].owner = NoClient /\ UNCHANGED <<store, task, wire>>
      /\ orders' = [orders EXCEPT ![x] = o]
  BY DEF ManualOrder, NoOrder
<1>2. \A y \in Txids : /\ orders'[y].owner = orders[y].owner
                       /\ orders[y].owner \in Clients => orders'[y] = orders[y]
  BY <1>1, NoClientAssumption DEF TypeOK
<1>3. ASSUME NEW c \in Clients, NEW rec \in Record \cup {NoRecord}, Sound(c, rec)
      PROVE  Sound(c, rec)'
  <2>1. rec.ext \in Txids \cup {NoTx}
    BY DEF Record, NoRecord
  <2> QED
    BY <1>2, <1>3, <2>1 DEF Sound
<1>4. ASSUME NEW c \in Clients, NEW row \in Row, Seen(c, row) PROVE Seen(c, row)'
  <2>1. row.tx \in Txids
    BY DEF Row
  <2> QED
    BY <1>2, <1>4, <2>1 DEF Seen
<1>5. ASSUME NEW t \in Tasks PROVE ReadSound(task[t])'
  <2>1. ReadSound(task[t])
    BY DEF TableInv, BrokerInv, ReadsSound
  <2>2. task[t] # Idle => /\ task[t].c \in Clients /\ task[t].local \in Record \cup {NoRecord}
                          /\ task[t].row \in Row \cup {NoRow}
    BY BusyType
  <2> QED
    BY <1>1, <1>3, <1>4, <2>1, <2>2 DEF ReadSound
<1>6. LocalNeverAhead'
  BY <1>1, <1>3 DEF TableInv, BrokerInv, LocalNeverAhead, TypeOK
<1>7. BrokerInv'
  BY <1>1, <1>2, <1>5, <1>6 DEF TableInv, BrokerInv, NoOrphanOrder, ReadsSound
<1>8. SubmitInv'
  BY <1>1, <1>2 DEF TableInv, SubmitInv, OneSubmitter, SearchBeforeRecord, OnceOnTheWire,
     NoDuplicateOrder, InFlightIsUnresolved
<1> QED
  BY <1>1, <1>7, <1>8 DEF TableInv, Bound

LEMMA TableKeeps ==
  ASSUME ~OverlapSubmits, TypeOK, TableInv, OrdersStep
  PROVE  TableInv'
<1> USE DEF TableInv
<1>1. ASSUME NEW t \in Tasks, Step(t) PROVE TableInv'
  BY <1>1, BrokerInvStep, SubmitInvStep, StepBinds
<1>2. ASSUME NEW t \in Tasks, NEW c \in Clients, Call(t, c) PROVE TableInv'
  <2>1. Bound'
    BY <1>2 DEF Call, SubmitCall, ReconcileCall, CancelCall, Bound
  <2> QED
    BY <1>2, <2>1, BrokerInvCall, SubmitInvCall
<1>3. ASSUME Exchange PROVE TableInv'
  <2>1. Bound'
    BY <1>3 DEF Exchange, ArriveAccepted, ArriveRejected, RequestLost, OrderFills, OrderEnds, Bound
  <2> QED
    BY <1>3, <2>1, BrokerInvExchange, SubmitInvExchange
<1> QED
  BY <1>1, <1>2, <1>3, ForgottenKeeps, ManualKeeps DEF OrdersStep

LEMMA TableInvariant ==
  ASSUME ~OverlapSubmits
  PROVE  ControlSpec => []TableInv
<1>1. ControlInit => TableInv
  <2> SUFFICES ASSUME ControlInit PROVE TableInv
    OBVIOUS
  <2>1. /\ store = [c \in Clients |-> NoRecord] /\ task = [t \in Tasks |-> Idle] /\ wire = {}
        /\ orders = [x \in Txids |-> NoOrder]
    BY DEF ControlInit, Init
  <2>2. NoRecord.status = "NONE" /\ NoRecord.ext = NoTx /\ Idle.op # "submit" /\ NoOrder.owner = NoClient
    BY DEF NoRecord, Idle, NoOrder
  <2>3. BrokerInv
    BY <2>1, <2>2, NoClientAssumption
       DEF BrokerInv, NoOrphanOrder, LocalNeverAhead, ReadsSound, ReadSound, Sound
  <2>4. SubmitInv
    BY <2>1, <2>2, NoClientAssumption
       DEF SubmitInv, OneSubmitter, SearchBeforeRecord, OnceOnTheWire, NoDuplicateOrder,
           InFlightIsUnresolved
  <2> QED
    BY <2>1, <2>2, <2>3, <2>4 DEF TableInv, Bound
<1>2. TypeOK /\ ControlsOK /\ TableInv /\ [ControlNext]_allVars => TableInv'
  BY ControlSteps, TableKeeps
<1>3. ControlTypeOK => TypeOK /\ ControlsOK
  BY DEF ControlTypeOK, ControlsOK
<1> QED
  BY <1>1, <1>2, <1>3, ControlTypeCorrect, PTL DEF ControlSpec

-----------------------------------------------------------------------------
(* The flag                                                                *)

\* No step but a call of submit_order puts a coroutine inside one.
SubmitsKept ==
  \A u \in Tasks : task'[u].op = "submit" => task[u].op = "submit" /\ task'[u].c = task[u].c

LEMMA StepSubmits ==
  ASSUME TypeOK, BrokerInv, NEW t \in Tasks, Step(t)
  PROVE  SubmitsKept
<1>1. PICK e : Outcome(t, e)
  BY StepTask
<1> QED
  BY <1>1, Constants DEF Outcome, SubmitsKept, TypeOK, Idle

LEMMA CallSubmits ==
  ASSUME TypeOK, NEW t \in Tasks, NEW c \in Clients, ReconcileCall(t, c) \/ CancelCall(t, c)
  PROVE  SubmitsKept
BY DEF ReconcileCall, CancelCall, Start, SubmitsKept, TypeOK

LEMMA PreflightSubmits ==
  ASSUME TypeOK, BrokerInv, Preflight
  PROVE  SubmitsKept
<1>1. ASSUME NEW c \in Clients, CoordNext(c) PROVE SubmitsKept
  BY <1>1, CallSubmits, CoordAssumption DEF CoordNext
<1>2. ASSUME CoordResume \/ CoordQuery PROVE SubmitsKept
  BY <1>2, StepSubmits, CoordAssumption DEF CoordResume, CoordQuery, Step
<1>3. ASSUME UNCHANGED task PROVE SubmitsKept
  BY <1>3 DEF SubmitsKept
<1>4. ASSUME PreflightDies PROVE SubmitsKept
  BY <1>4 DEF PreflightDies, SubmitsKept, TypeOK, Idle
<1> QED
  BY <1>1, <1>2, <1>3, <1>4 DEF Preflight, PreflightStart, CoordStart, CoordList, CoordFails,
     CoordRead, CoordRecheck, CoordLower, ReportGates, PreflightReport, vars

LEMMA ControlSubmits ==
  ASSUME TypeOK, BrokerInv, ControlNext
  PROVE  SubmitsKept \/ EnterBroker
<1>1. ASSUME NEW t \in Tasks, Step(t) PROVE SubmitsKept
  BY <1>1, StepSubmits
<1>2. ASSUME NEW t \in Tasks, NEW c \in Clients, ReconcileCall(t, c) \/ CancelCall(t, c)
      PROVE  SubmitsKept
  BY <1>2, CallSubmits
<1>3. ASSUME Exchange PROVE SubmitsKept
  BY <1>3, ExchangeTask DEF SubmitsKept
<1>4. ASSUME UNCHANGED task PROVE SubmitsKept
  BY <1>4 DEF SubmitsKept
<1>5. ASSUME Restart PROVE SubmitsKept
  BY <1>5 DEF Restart, SubmitsKept, TypeOK, Idle
<1>6. ASSUME Operator PROVE SubmitsKept
  BY <1>4, <1>6 DEF Operator, BeginPreflight, Arm, Disarm, SetMode, ClearSafety, Emergency, SetKill,
     StopRead, StopWrite, StopDies, vars
<1>7. ASSUME Preflight PROVE SubmitsKept
  BY <1>7, PreflightSubmits
<1>8. ASSUME Trading, ~EnterBroker PROVE SubmitsKept
  BY <1>1, <1>2, <1>4, <1>5, <1>8 DEF Trading, TradingStep, AuthorizedCancel, Poll, ReadSafety,
     ReadFlag, SubmitAuthorized, vars
<1>9. ASSUME World PROVE SubmitsKept
  BY <1>3, <1>4, <1>9 DEF World, ManualOrder
<1> QED
  BY <1>6, <1>7, <1>8, <1>9 DEF ControlNext

\* Only a submission records an intent that the table did not hold.
LEMMA RecordsOfSubmits ==
  ASSUME TypeOK, BrokerInv, OrdersStep, NEW c \in Clients, store[c] = NoRecord, store'[c] # NoRecord
  PROVE  \E t \in Tasks : task[t].op = "submit" /\ task[t].c = c
<1>1. ASSUME NEW t \in Tasks, Step(t) PROVE task[t].op = "submit" /\ task[t].c = c
  BY <1>1, StepPut DEF Put, TypeOK
<1>2. ASSUME UNCHANGED store PROVE FALSE
  BY <1>2
<1> QED
  BY <1>1, <1>2 DEF OrdersStep, Call, SubmitCall, ReconcileCall, CancelCall, Exchange, ArriveAccepted,
     ArriveRejected, RequestLost, OrderFills, OrderEnds, Forgotten, ManualOrder

\* An intent keeps its order.
LEMMA OwnersStay ==
  ASSUME TypeOK, BrokerInv, OrdersStep, NEW x \in Txids, orders[x].owner \in Clients
  PROVE  orders'[x].owner = orders[x].owner
<1>1. orders[x] # NoOrder
  BY NoClientAssumption DEF NoOrder
<1>2. CASE UNCHANGED orders
  BY <1>2
<1>3. CASE Exchange
  BY <1>1, <1>3, OrdersGrow
<1>4. ASSUME NEW y \in Txids, ManualOrder(y) PROVE orders'[x].owner = orders[x].owner
  BY <1>1, <1>4 DEF ManualOrder, TypeOK
<1>5. ASSUME NEW t \in Tasks, Step(t) PROVE UNCHANGED orders
  BY <1>5, StepPut
<1> QED
  BY <1>2, <1>3, <1>4, <1>5 DEF OrdersStep, Call, SubmitCall, ReconcileCall, CancelCall, Forgotten

Marking == {"permissions", "listing", "loop", "marking", "lowering"}

\* From the raising of the flag to its lowering, a submission under way is one
\* that was past the gates when the preflight began.
PassedBefore ==
  coord.pc \in Marking =>
    /\ required
    /\ gate.at = "broker" => gate.c \in coord.past
    /\ \A t \in Tasks : task[t].op = "submit" => task[t].c \in coord.past

\* What the second read of the table was worth when the flag is about to be lowered.
ReadHolds ==
  coord.pc = "lowering" =>
    /\ \A c \in coord.known : \E x \in Txids : orders[x].owner = c
    /\ \A c \in Clients \ coord.known : store[c] # NoRecord => c \in coord.past

FlagInv == PassedBefore /\ ReadHolds

\* While the preflight stands still, whatever the others do.
LEMMA FlagWaits ==
  ASSUME TypeOK, ControlsOK, BrokerInv, FlagInv, OrdersStep,
         SubmitsKept \/ EnterBroker, UNCHANGED required,
         coord'.pc = coord.pc, coord'.known = coord.known, coord'.past = coord.past,
         gate'.at = "broker" => gate' = gate \/ ~required
  PROVE  FlagInv'
<1>1. PassedBefore'
  <2>1. CASE SubmitsKept
    BY <2>1 DEF FlagInv, PassedBefore, SubmitsKept
  <2>2. CASE EnterBroker
    <3>1. gate.t \in Tasks /\ gate.c \in Clients /\ gate.at = "broker" /\ gate' = NoGate
      BY <2>2 DEF EnterBroker, ControlsOK, Gate, NoGate
    <3>2. ASSUME NEW t \in Tasks, task'[t].op = "submit"
          PROVE  \/ task[t].op = "submit" /\ task'[t].c = task[t].c
                 \/ task'[t].c = gate.c
      BY <2>2, <3>1, <3>2 DEF EnterBroker, SubmitCall, Start, TypeOK, vars
    <3> QED
      BY <3>1, <3>2 DEF FlagInv, PassedBefore, NoGate
  <2> QED
    BY <2>1, <2>2
<1>2. ReadHolds'
  <2> SUFFICES ASSUME coord.pc = "lowering" PROVE ReadHolds'
    BY DEF ReadHolds
  <2>1. ASSUME NEW c \in coord.known PROVE \E x \in Txids : orders'[x].owner = c
    <3>1. c \in Clients
      BY DEF ControlsOK, Coordinator
    <3> QED
      BY <3>1, OwnersStay DEF FlagInv, ReadHolds
  <2>2. ASSUME NEW c \in Clients \ coord.known, store'[c] # NoRecord PROVE c \in coord.past
    <3>1. CASE store[c] # NoRecord
      BY <3>1 DEF FlagInv, ReadHolds
    <3>2. CASE store[c] = NoRecord
      BY <2>2, <3>2, RecordsOfSubmits DEF FlagInv, PassedBefore, Marking
    <3> QED
      BY <3>1, <3>2
  <2> QED
    BY <2>1, <2>2 DEF ReadHolds
<1> QED
  BY <1>1, <1>2 DEF FlagInv

\* The preflight itself.
LEMMA FlagMoves ==
  ASSUME TypeOK, ControlsOK, TableInv, FlagInv, Preflight, OrdersStep, SubmitsKept
  PROVE  FlagInv'
<1>1. UNCHANGED gate
  BY DEF Preflight, PreflightStart, CoordStart, CoordList, CoordNext, CoordResume, CoordQuery,
     CoordFails, CoordRead, CoordRecheck, CoordLower, ReportGates, PreflightReport, PreflightDies
<1>2. ASSUME coord.pc \in Marking, coord'.pc \in {"listing", "loop", "marking"},
             coord'.past = coord.past, required'
      PROVE  FlagInv'
  BY <1>1, <1>2 DEF FlagInv, PassedBefore, ReadHolds, SubmitsKept
<1>3. ASSUME coord'.pc \in {"idle", "report", "orders"} PROVE FlagInv'
  BY <1>3 DEF FlagInv, PassedBefore, ReadHolds, Marking
<1>4. ASSUME NEW ready, Concluded(ready) PROVE FlagInv'
  BY <1>3, <1>4 DEF Concluded, NoCoordinator
<1>5. ASSUME PreflightStart PROVE FlagInv'
  <2>1. /\ coord'.pc = "permissions" /\ required' /\ UNCHANGED task
        /\ coord'.past = {c \in Clients : \/ gate.at = "broker" /\ gate.c = c
                                          \/ \E t \in Tasks : task[t].op = "submit" /\ task[t].c = c}
    BY <1>5 DEF PreflightStart, NoCoordinator, vars
  <2>2. gate.at = "broker" => gate.c \in Clients
    BY DEF ControlsOK, Gate, NoGate
  <2>3. ASSUME NEW t \in Tasks, task[t].op = "submit" PROVE task[t].c \in Clients
    BY <2>3 DEF TypeOK, Busy, Idle
  <2> QED
    BY <1>1, <2>1, <2>2, <2>3 DEF FlagInv, PassedBefore, ReadHolds
<1>6. ASSUME CoordStart PROVE FlagInv'
  <2>1. coord.pc = "permissions" /\ coord'.pc = "listing" /\ coord'.past = coord.past /\ required'
    BY <1>6 DEF CoordStart, ControlsOK, Coordinator
  <2> QED
    BY <1>2, <2>1 DEF Marking
<1>7. ASSUME CoordList PROVE FlagInv'
  <2>1. coord.pc = "listing" /\ coord'.pc = "loop" /\ coord'.past = coord.past /\ UNCHANGED required
    BY <1>7 DEF CoordList, ControlsOK, Coordinator
  <2> QED
    BY <1>2, <2>1 DEF Marking, FlagInv, PassedBefore
<1>8. ASSUME NEW c \in Clients, CoordNext(c) PROVE FlagInv'
  <2>1. /\ coord'.pc = coord.pc /\ coord'.known = coord.known /\ coord'.past = coord.past
        /\ UNCHANGED required
    BY <1>8 DEF CoordNext, ControlsOK, Coordinator
  <2> QED
    BY <1>1, <2>1, FlagWaits DEF TableInv
<1>9. ASSUME CoordResume PROVE FlagInv'
  <2>1. /\ coord'.pc = coord.pc /\ coord'.known = coord.known /\ coord'.past = coord.past
        /\ UNCHANGED required
    BY <1>9 DEF CoordResume, ControlsOK, Coordinator
  <2> QED
    BY <1>1, <2>1, FlagWaits DEF TableInv
<1>10. ASSUME CoordQuery PROVE FlagInv'
  BY <1>1, <1>4, <1>10, FlagWaits DEF CoordQuery, TableInv
<1>11. ASSUME CoordFails \/ CoordLower PROVE FlagInv'
  BY <1>4, <1>11 DEF CoordFails, CoordLower
<1>12. ASSUME CoordRead PROVE FlagInv'
  <2>1. CASE Concluded(FALSE)
    BY <1>4, <2>1
  <2>2. CASE coord' = [coord EXCEPT !.pc = "marking", !.known = {}]
    <3>1. coord.pc = "loop" /\ coord'.pc = "marking" /\ coord'.past = coord.past /\ UNCHANGED required
      BY <1>12, <2>2 DEF CoordRead, ControlsOK, Coordinator
    <3> QED
      BY <1>2, <3>1 DEF Marking, FlagInv, PassedBefore
  <2> QED
    BY <1>12, <2>1, <2>2 DEF CoordRead
<1>13. ASSUME CoordRecheck PROVE FlagInv'
  <2>1. CASE Concluded(FALSE)
    BY <1>4, <2>1
  <2>2. CASE NoneUnresolved /\ coord' = [coord EXCEPT !.pc = "lowering",
                                           !.known = {c \in Clients : store[c] # NoRecord}]
    <3>1. /\ coord.pc = "marking" /\ coord'.pc = "lowering" /\ coord'.past = coord.past
          /\ coord'.known = {c \in Clients : store[c] # NoRecord} /\ UNCHANGED <<vars, required>>
      BY <1>13, <2>2 DEF CoordRecheck, ControlsOK, Coordinator
    <3>2. PassedBefore'
      BY <1>1, <3>1 DEF Marking, FlagInv, PassedBefore, SubmitsKept
    <3>3. ASSUME NEW c \in Clients, store[c] # NoRecord PROVE \E x \in Txids : orders[x].owner = c
      <4>1. store[c] \in Record
        BY <3>3 DEF TypeOK
      <4>2. store[c].status \notin {"NONE", "NEW", "RECONCILIATION_REQUIRED"}
        BY <2>2, <4>1 DEF NoneUnresolved, Unresolved, Record, Statuses
      <4>3. store[c].ext \in Txids
        BY <4>1, <4>2 DEF TableInv, Bound, Record
      <4> QED
        BY <4>3, NoTxAssumption DEF TableInv, BrokerInv, LocalNeverAhead, Sound
    <3>4. ReadHolds'
      BY <3>1, <3>3 DEF ReadHolds, vars
    <3> QED
      BY <3>2, <3>4 DEF FlagInv
  <2> QED
    BY <1>13, <2>1, <2>2 DEF CoordRecheck
<1>14. ASSUME ReportGates PROVE FlagInv'
  BY <1>3, <1>14 DEF ReportGates, ControlsOK, Coordinator
<1>15. ASSUME NEW others \in BOOLEAN, PreflightReport(others) PROVE FlagInv'
  BY <1>3, <1>15 DEF PreflightReport, NoCoordinator
<1>16. ASSUME PreflightDies PROVE FlagInv'
  BY <1>3, <1>16 DEF PreflightDies, NoCoordinator
<1> QED
  BY <1>5, <1>6, <1>7, <1>8, <1>9, <1>10, <1>11, <1>12, <1>13, <1>14, <1>15, <1>16 DEF Preflight

LEMMA FlagKeeps ==
  ASSUME TypeOK, ControlsOK, TableInv, FlagInv, [ControlNext]_allVars
  PROVE  FlagInv'
<1>1. CASE UNCHANGED allVars
  BY <1>1 DEF allVars, vars, controls, FlagInv, PassedBefore, ReadHolds
<1>2. ASSUME ControlNext PROVE FlagInv'
  <2>1. OrdersStep /\ (SubmitsKept \/ EnterBroker) /\ BrokerInv
    BY <1>2, ControlSteps, ControlSubmits DEF TableInv
  <2>2. CASE Preflight
    BY <2>1, <2>2, PreflightSubmits, FlagMoves
  <2>3. CASE Operator \/ Trading \/ World
    <3>1. UNCHANGED <<required, coord>> /\ (gate'.at = "broker" => gate' = gate \/ ~required)
      BY <2>3 DEF Operator, BeginPreflight, Arm, Disarm, SetMode, ClearSafety, Emergency, SetKill,
         StopRead, StopWrite, StopDies, Trading, TradingStep, ReadSafety, ReadFlag, SubmitAuthorized,
         EnterBroker, AuthorizedCancel, Poll, Restart, World, ManualOrder, controls, NoGate
    <3> QED
      BY <2>1, <3>1, FlagWaits
  <2> QED
    BY <1>2, <2>2, <2>3 DEF ControlNext
<1> QED
  BY <1>1, <1>2

LEMMA FlagInvariant ==
  ASSUME ~OverlapSubmits
  PROVE  ControlSpec => []FlagInv
<1>1. ControlInit => FlagInv
  BY DEF ControlInit, FlagInv, PassedBefore, ReadHolds, NoCoordinator, Marking
<1>2. ControlTypeOK => TypeOK /\ ControlsOK
  BY DEF ControlTypeOK, ControlsOK
<1>3. TypeOK /\ ControlsOK /\ TableInv /\ FlagInv /\ [ControlNext]_allVars => FlagInv'
  BY FlagKeeps
<1> QED
  BY <1>1, <1>2, <1>3, ControlTypeCorrect, TableInvariant, PTL DEF ControlSpec

\* Where submissions of one intent do not overlap: the reconciliation flag is
\* lowered, two transactions after the order table was last read, on what that
\* read was worth.  Every intent it held has its order and is off the wire,
\* whatever the trading process did since, and an intent recorded since was past
\* the gates before the preflight raised the flag.
THEOREM GateOpensOnlyReconciled ==
  ASSUME ~OverlapSubmits
  PROVE  ControlSpec => GateOpensReconciled
<1> DEFINE Reconciled ==
      required /\ ~required' =>
        /\ \A c \in coord.known :
             /\ \E x \in Txids : orders[x].owner = c
             /\ \A t \in Tasks : <<c, t>> \notin wire
        /\ \A c \in Clients \ coord.known : store[c] # NoRecord => c \in coord.past
<1>1. ControlsOK /\ TableInv /\ FlagInv /\ [ControlNext]_allVars => [Reconciled]_allVars
  <2> SUFFICES ASSUME ControlsOK, TableInv, FlagInv, ControlNext, required, ~required'
               PROVE  /\ \A c \in coord.known :
                           /\ \E x \in Txids : orders[x].owner = c
                           /\ \A t \in Tasks : <<c, t>> \notin wire
                      /\ \A c \in Clients \ coord.known : store[c] # NoRecord => c \in coord.past
    OBVIOUS
  <2>1. CoordLower
    BY DEF ControlNext, Operator, BeginPreflight, Arm, Disarm, SetMode, ClearSafety, Emergency, SetKill,
       StopRead, StopWrite, StopDies, Preflight, PreflightStart, CoordStart, CoordList, CoordNext,
       CoordResume, CoordQuery, CoordFails, CoordRead, CoordRecheck, ReportGates, PreflightReport,
       PreflightDies, Trading, TradingStep, ReadSafety, ReadFlag, SubmitAuthorized, EnterBroker,
       AuthorizedCancel, Poll, Restart, World, ManualOrder, controls
  <2>2. /\ \A c \in coord.known : \E x \in Txids : orders[x].owner = c
        /\ \A c \in Clients \ coord.known : store[c] # NoRecord => c \in coord.past
    BY <2>1 DEF CoordLower, FlagInv, ReadHolds
  <2>3. ASSUME NEW c \in coord.known, NEW t \in Tasks PROVE <<c, t>> \notin wire
    <3>1. c \in Clients
      BY DEF ControlsOK, Coordinator
    <3> QED
      BY <2>2, <3>1 DEF TableInv, SubmitInv, OnceOnTheWire
  <2> QED
    BY <2>2, <2>3
<1>2. ControlTypeOK => TypeOK /\ ControlsOK
  BY DEF ControlTypeOK, ControlsOK
<1> QED
  BY <1>1, <1>2, ControlTypeCorrect, TableInvariant, FlagInvariant, PTL
     DEF ControlSpec, GateOpensReconciled

=============================================================================

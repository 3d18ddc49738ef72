---------------------------- MODULE LiveControl ----------------------------
(***************************************************************************)
(* The gates around the LIVE broker: the operator's arming of the process  *)
(* (activation.py), the durable kill switch and its command line           *)
(* (safety.py), the reconciliation flag, the startup reconciliation and    *)
(* the preflight that reads them (reconciliation.py, preflight_cli.py),    *)
(* and the one service allowed to feed the broker (execution.py).          *)
(*                                                                         *)
(* Three processes share the database: the trading process (Tasks but      *)
(* Coord), the preflight command (task Coord), the safety command.  Each   *)
(* transaction of one of them is a step of its own, whatever its process   *)
(* does without awaiting: the other two may commit in between.             *)
(***************************************************************************)
EXTENDS LiveOrders

CONSTANT Coord

ASSUME CoordAssumption == Coord \in Tasks

VARIABLES
  mode,      \* LiveActivationController: process-local, never persisted
  report,    \* the last preflight report handed to the operator
  kill,      \* the kill switch row; "unset" when no operator initialized it
  stopper,   \* the row a stop-new-trades command is about to write
  required,  \* the durable reconciliation_required flag of the system
  gate,      \* the submission between the reads of submit_authorized, if any
  coord      \* the preflight process and its startup reconciliation

controls == <<mode, report, kill, stopper, required, gate, coord>>
allVars == <<vars, controls>>

Modes == {"LIVE_DISABLED", "LIVE_PREFLIGHT", "LIVE_ARMED"}
Kills == {"unset", "clear", "stop", "emergency"}
Reports == {"none", "BLOCKED", "READY"}
Gate == [at : {"flag", "broker"}, t : Tasks \ {Coord}, c : Clients]
NoGate == [at |-> "none", t |-> Coord, c |-> NoClient]
\* known: the intents the order table held when it was last read.  past: the
\* intents whose submission was past the gates when this preflight began.
Coordinator == [pc : {"idle", "permissions", "listing", "loop", "marking", "lowering",
                      "report", "orders"},
                known : SUBSET Clients, todo : SUBSET Clients, past : SUBSET Clients,
                bad : BOOLEAN, ready : BOOLEAN]
NoCoordinator == [pc |-> "idle", known |-> {}, todo |-> {}, past |-> {},
                  bad |-> FALSE, ready |-> FALSE]

ControlTypeOK ==
  /\ TypeOK
  /\ mode \in Modes /\ report \in Reports
  /\ kill \in Kills /\ stopper \in {"none", "stop", "emergency"}
  /\ required \in BOOLEAN
  /\ gate \in Gate \cup {NoGate}
  /\ coord \in Coordinator

\* The flag of a system without a row reads as required.
ControlInit ==
  /\ Init
  /\ mode = "LIVE_DISABLED" /\ report = "none"
  /\ kill = "unset" /\ stopper = "none"
  /\ required = TRUE
  /\ gate = NoGate
  /\ coord = NoCoordinator

---------------------------------------------------------------------------
(* The operator, in the trading process.                                   *)

\* Code that does not await runs alone in the trading process.
TradingFree == gate = NoGate

SetMode(m) ==
  /\ TradingFree
  /\ mode' = m
  /\ UNCHANGED <<vars, report, kill, stopper, required, gate, coord>>

BeginPreflight == SetMode("LIVE_PREFLIGHT")

\* With the exact confirmation phrase; the age of the report is not looked at.
Arm == mode = "LIVE_PREFLIGHT" /\ report = "READY" /\ SetMode("LIVE_ARMED")

Disarm == SetMode("LIVE_DISABLED")

(* The operator, through the safety command.                               *)

SetKill(k) ==
  /\ kill' = k
  /\ UNCHANGED <<vars, mode, report, stopper, required, gate, coord>>

ClearSafety == SetKill("clear")
Emergency == SetKill("emergency")

\* Variant: a row that does not exist yet is kept as such.
StopReadMissing ==
  /\ stopper = "none"
  /\ stopper' = IF kill = "clear" THEN "stop" ELSE kill
  /\ UNCHANGED <<vars, mode, report, kill, required, gate, coord>>

\* stop_new_trades reads the row, and in a second transaction writes a new one
\* that keeps the emergency flags it read.
StopRead ==
  /\ stopper = "none"
  /\ stopper' = IF kill = "emergency" THEN "emergency" ELSE "stop"
  /\ UNCHANGED <<vars, mode, report, kill, required, gate, coord>>

StopWrite ==
  /\ stopper # "none"
  /\ kill' = stopper
  /\ stopper' = "none"
  /\ UNCHANGED <<vars, mode, report, required, gate, coord>>

StopDies ==
  /\ stopper # "none"
  /\ stopper' = "none"
  /\ UNCHANGED <<vars, mode, report, kill, required, gate, coord>>

---------------------------------------------------------------------------
(* The trading process.                                                    *)

\* Variant: the kill switch is not read at each submission.
ArmedOnly == mode = "LIVE_ARMED"

Allowed == mode = "LIVE_ARMED" /\ kill = "clear"

\* submit_authorized reads the arming and the kill switch row ...
ReadSafety(t, c) ==
  /\ TradingFree /\ task[t] = Idle /\ MayStart("submit", c)
  /\ Allowed
  /\ gate' = [at |-> "flag", t |-> t, c |-> c]
  /\ UNCHANGED <<vars, mode, report, kill, stopper, required, coord>>

\* ... then the reconciliation flag (the other checks may refuse as well) ...
ReadFlag ==
  /\ gate.at = "flag"
  /\ \/ ~required /\ gate' = [gate EXCEPT !.at = "broker"]
     \/ gate' = NoGate
  /\ UNCHANGED <<vars, mode, report, kill, stopper, required, coord>>

\* ... and calls the broker, which returns or refuses an intent of the table.
EnterBroker ==
  /\ gate.at = "broker"
  /\ \/ SubmitCall(gate.t, gate.c)
     \/ store[gate.c] # NoRecord /\ UNCHANGED vars
  /\ gate' = NoGate
  /\ UNCHANGED <<mode, report, kill, stopper, required, coord>>

SubmitAuthorized == ReadFlag \/ EnterBroker

AuthorizedCancel(t, c) ==
  /\ TradingFree /\ mode = "LIVE_ARMED"
  /\ CancelCall(t, c)
  /\ UNCHANGED controls

Poll(t, c) == TradingFree /\ ReconcileCall(t, c) /\ UNCHANGED controls

TradingStep(t) == TradingFree /\ Step(t) /\ UNCHANGED controls

Restart ==
  /\ task' = [t \in Tasks |-> IF t = Coord THEN task[t] ELSE Idle]
  /\ mode' = "LIVE_DISABLED" /\ report' = "none" /\ gate' = NoGate
  /\ UNCHANGED <<store, wire, orders, kill, stopper, required, coord>>

\* An order placed on the account by other means.
ManualOrder(x) ==
  /\ orders[x] = NoOrder
  /\ orders' = [orders EXCEPT ![x] = [owner |-> NoClient, st |-> "open",
                                      vol |-> Qty, exec |-> 0]]
  /\ UNCHANGED <<store, task, wire, controls>>

---------------------------------------------------------------------------
(* The preflight process: run_preflight and StartupReconciliationCoordinator. *)

PreflightStart ==
  /\ coord.pc = "idle"
  /\ required' = TRUE
  /\ coord' = [NoCoordinator EXCEPT
       !.pc = "permissions",
       !.past = {c \in Clients : \/ gate.at = "broker" /\ gate.c = c
                                 \/ \E t \in Tasks : task[t].op = "submit" /\ task[t].c = c}]
  /\ UNCHANGED <<vars, mode, report, kill, stopper, gate>>

\* The reconciliation is over; only its verdict is kept.
Concluded(ready) == coord' = [NoCoordinator EXCEPT !.pc = "report", !.ready = ready]

\* reconcile marks the flag again, then reads the table once.
CoordStart ==
  /\ coord.pc = "permissions"
  /\ required' = TRUE
  /\ coord' = [coord EXCEPT
       !.pc = "listing",
       !.known = {c \in Clients : store[c] # NoRecord},
       !.todo = {c \in Clients : store[c].status \in Unresolved \cup {"OPEN", "PARTIALLY_FILLED"}}]
  /\ UNCHANGED <<vars, mode, report, kill, stopper, gate>>

\* All open orders; one that the table read before does not know is unexpected.
CoordList ==
  /\ coord.pc = "listing"
  /\ coord' = [coord EXCEPT
       !.pc = "loop",
       !.bad = \E x \in Txids : orders[x].st = "open" /\ orders[x].owner \notin coord.known]
  /\ UNCHANGED <<vars, mode, report, kill, stopper, required, gate>>

CoordNext(c) ==
  /\ coord.pc = "loop" /\ c \in coord.todo
  /\ ReconcileCall(Coord, c)
  /\ coord' = [coord EXCEPT !.todo = @ \ {c}]
  /\ UNCHANGED <<mode, report, kill, stopper, required, gate>>

CoordResume ==
  /\ ReconcileResume(Coord)
  /\ coord' = [coord EXCEPT
       !.bad = @ \/ Finding(task[Coord].local, task[Coord].row) # "CONSISTENT"]
  /\ UNCHANGED <<mode, report, kill, stopper, required, gate>>

\* A query of the broker: when it raises, the reconciliation is over, not ready.
CoordQuery ==
  /\ QueryOpen(Coord) \/ QueryClosed(Coord) \/ ReadFails(Coord)
  /\ IF task'[Coord] = Idle THEN Concluded(FALSE) ELSE UNCHANGED coord
  /\ UNCHANGED <<mode, report, kill, stopper, required, gate>>

\* A call of its own fails: permissions, open orders, fills, balances, the table.
CoordFails ==
  /\ coord.pc \in {"permissions", "listing", "loop", "marking", "lowering"}
  /\ task[Coord] = Idle
  /\ Concluded(FALSE)
  /\ UNCHANGED <<vars, mode, report, kill, stopper, required, gate>>

\* Variant: records left NEW or SUBMITTED do not count.
NoneAmbiguous == \A c \in Clients : store[c].status \notin {"UNKNOWN", "RECONCILIATION_REQUIRED"}

NoneUnresolved == \A c \in Clients : store[c].status \notin Unresolved

\* The unresolved records are read once the loop is over ...
CoordRead ==
  /\ coord.pc = "loop" /\ coord.todo = {} /\ task[Coord] = Idle
  /\ IF ~coord.bad /\ NoneUnresolved
     THEN coord' = [coord EXCEPT !.pc = "marking", !.known = {}]
     ELSE Concluded(FALSE)
  /\ UNCHANGED <<vars, mode, report, kill, stopper, required, gate>>

\* ... and once more by mark_reconciled, which raises if there are any ...
CoordRecheck ==
  /\ coord.pc = "marking"
  /\ IF NoneUnresolved
     THEN coord' = [coord EXCEPT !.pc = "lowering", !.known = {c \in Clients : store[c] # NoRecord}]
     ELSE Concluded(FALSE)
  /\ UNCHANGED <<vars, mode, report, kill, stopper, required, gate>>

\* ... before it lowers the flag in a transaction of its own.
CoordLower ==
  /\ coord.pc = "lowering"
  /\ required' = FALSE
  /\ Concluded(TRUE)
  /\ UNCHANGED <<vars, mode, report, kill, stopper, gate>>

\* run_preflight reads the flag and the kill switch ...
ReportGates ==
  /\ coord.pc = "report"
  /\ coord' = [coord EXCEPT !.pc = "orders", !.ready = @ /\ ~required /\ kill = "clear"]
  /\ UNCHANGED <<vars, mode, report, kill, stopper, required, gate>>

\* ... then the unresolved records, and reports.  others: the checks of
\* configuration, profile, permissions, market and audit.
PreflightReport(others) ==
  /\ coord.pc = "orders"
  /\ report' = IF others /\ coord.ready /\ NoneUnresolved THEN "READY" ELSE "BLOCKED"
  /\ coord' = NoCoordinator
  /\ UNCHANGED <<vars, mode, kill, stopper, required, gate>>

PreflightDies ==
  /\ coord.pc # "idle"
  /\ coord' = NoCoordinator
  /\ task' = [task EXCEPT ![Coord] = Idle]
  /\ UNCHANGED <<store, wire, orders, mode, report, kill, stopper, required, gate>>

---------------------------------------------------------------------------
Operator ==
  \/ BeginPreflight \/ Arm \/ Disarm
  \/ ClearSafety \/ Emergency \/ StopRead \/ StopWrite \/ StopDies

Preflight ==
  \/ PreflightStart \/ CoordStart \/ CoordList \/ CoordResume \/ CoordQuery
  \/ \E c \in Clients : CoordNext(c)
  \/ CoordFails \/ CoordRead \/ CoordRecheck \/ CoordLower \/ ReportGates
  \/ \E others \in BOOLEAN : PreflightReport(others)
  \/ PreflightDies

Trading ==
  \/ \E t \in Tasks \ {Coord} :
       \/ TradingStep(t)
       \/ \E c \in Clients : ReadSafety(t, c) \/ AuthorizedCancel(t, c) \/ Poll(t, c)
  \/ SubmitAuthorized
  \/ Restart

World ==
  \/ Exchange /\ UNCHANGED controls
  \/ \E x \in Txids : ManualOrder(x)

ControlNext == Operator \/ Preflight \/ Trading \/ World

ControlSpec == ControlInit /\ [][ControlNext]_allVars

\* Calls of the trading process end: what it does without awaiting runs on, and
\* its HTTP requests have timeouts.
ControlFairSpec ==
  /\ ControlSpec
  /\ WF_allVars(SubmitAuthorized)
  /\ \A t \in Tasks \ {Coord} : WF_allVars(TradingStep(t))

---------------------------------------------------------------------------
(* Properties.                                                             *)

\* The reconciliation flag is lowered, two transactions after the table was
\* read, on what that read was worth: every intent it held has its order at the
\* exchange and is off the wire, although the trading process kept running; and
\* an intent recorded since belongs to a submission that was past the gates
\* before this preflight raised the flag.  None can have passed them meanwhile.
GateOpensReconciled ==
  [][required /\ ~required' =>
       /\ \A c \in coord.known :
            /\ \E x \in Txids : orders[x].owner = c
            /\ \A t \in Tasks : <<c, t>> \notin wire
       /\ \A c \in Clients \ coord.known :
            store[c] # NoRecord => c \in coord.past]_allVars

\* Once the kill switch stays on, the submissions that had already passed the
\* gate end, and no other ever starts: the entries drain away.
KillSwitchDrains ==
  <>[](kill \in {"stop", "emergency"}) => <>[](\A t \in Tasks : task[t].op # "submit")

=============================================================================

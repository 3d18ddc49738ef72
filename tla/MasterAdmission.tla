--------------------------- MODULE MasterAdmission ---------------------------
(* Capacity reservation and Master Risk Gate admission (app/portfolio):     *)
(*  - MasterReservationLedger.reserve, memoised by request id, refusals too  *)
(*  - evaluate_master_risk_gate, which reads a portfolio snapshot and the    *)
(*    ledger and returns a decision that changes nothing                     *)
(*  - apply_master_risk_gate_decision_to_reservation, called with any        *)
(*    earlier decision: at once, late, again, or never                       *)
(*  - release by the owner of the reservation (a lot that closed, an entry   *)
(*    that cash could not cover)                                             *)
(* Between the observation, the evaluation and the application anything may  *)
(* happen to the ledger: the decision carries the fingerprint of the ledger  *)
(* it was made on, modelled as that ledger.                                  *)
EXTENDS ReservationLedger, Sequences

CONSTANTS Observations,   \* what a snapshot may show: a set of
                          \* [available, crew, total]
          MaxTime,        \* bound: ticks of the clock
          MaxDecisions    \* bound: decisions taken

VARIABLES ledger,      \* MasterReservationLedger._records
          attempts,    \* MasterReservationLedger._attempts: the memoised outcome
          clock,       \* the callers' time
          snapshot,    \* the last portfolio snapshot observed
          decisions    \* the decisions taken, in order; the index is the id

vars == <<ledger, attempts, clock, snapshot, decisions>>

ASSUME BoundAssumption == MaxTime \in Nat /\ MaxDecisions \in Nat

ASSUME ObservationAssumption ==
    Observations \subseteq [available: BOOLEAN,
                            crew: [Crews -> [Exposures -> Nat]],
                            total: [Exposures -> Nat]]

Snapshot == [at: Nat, available: BOOLEAN, crew: [Crews -> [Exposures -> Nat]],
             total: [Exposures -> Nat]]
Decision == [req: Requests, admit: BOOLEAN, seen: [Requests -> Record], at: Nat]

Observed(o) == [at |-> clock, available |-> o.available, crew |-> o.crew, total |-> o.total]

\* The ledger opens on a flat, observable portfolio.
Init ==
    /\ ledger = [r \in Requests |-> NoRecord]
    /\ attempts = [r \in Requests |-> "NONE"]
    /\ clock = 0
    /\ snapshot \in {Observed(o) : o \in Observations}
    /\ decisions = <<>>

Tick ==
    /\ clock < MaxTime
    /\ clock' = clock + 1
    /\ UNCHANGED <<ledger, attempts, snapshot, decisions>>

TakeSnapshot(o) ==
    /\ snapshot' = Observed(o)
    /\ UNCHANGED <<ledger, attempts, clock, decisions>>

\* A request id is tried once: its outcome, even NOT_RESERVED, is returned to
\* every later call.
FirstAttempt(r) == attempts[r] = "NONE"

Reserve(r) ==
    /\ FirstAttempt(r)
    /\ IF Fits(ledger, r)
         THEN /\ ledger' = Reserved(ledger, r, clock)
              /\ attempts' = [attempts EXCEPT ![r] = "RESERVED"]
         ELSE /\ attempts' = [attempts EXCEPT ![r] = "NOT_RESERVED"]
              /\ UNCHANGED ledger
    /\ UNCHANGED <<clock, snapshot, decisions>>

\* The candidate names its reservation, whether it exists yet or not.
Evaluate(r) ==
    /\ Len(decisions) < MaxDecisions
    /\ decisions' = Append(decisions, [req   |-> r,
                                       admit |-> GateAdmits(ledger, snapshot, r),
                                       seen  |-> ledger,
                                       at    |-> clock])
    /\ UNCHANGED <<ledger, attempts, clock, snapshot>>

\* Variant of the check below: a second decision.
ApplicableTwice(d) ==
    /\ ledger[d.req].status # "ABSENT"
    /\ ledger[d.req].requested <= d.at
    /\ d.admit => d.seen = ledger

\* Whether decision d may move its reservation: it is RESERVED, was requested
\* no later than d was made, and, to be committed, in a ledger d was made on.
Applicable(d) ==
    /\ ledger[d.req].status = "RESERVED"
    /\ ledger[d.req].requested <= d.at
    /\ d.admit => d.seen = ledger

\* Every other call raises, or is an exact retry that returns the receipt of
\* the first one; neither changes anything.
Apply(i) ==
    LET d == decisions[i]
    IN  /\ Applicable(d)
        /\ ledger' = IF d.admit THEN Committed(ledger, d.req, d.at, i)
                                ELSE Released(ledger, d.req, d.at, i)
        /\ UNCHANGED <<attempts, clock, snapshot, decisions>>

Release(r) ==
    /\ r \in Active(ledger)
    /\ ledger' = Released(ledger, r, clock, ledger[r].ref)
    /\ UNCHANGED <<attempts, clock, snapshot, decisions>>

Next ==
    \/ Tick
    \/ \E o \in Observations : TakeSnapshot(o)
    \/ \E r \in Requests : Reserve(r) \/ Evaluate(r) \/ Release(r)
    \/ \E i \in 1..Len(decisions) : Apply(i)

Spec == Init /\ [][Next]_vars

-----------------------------------------------------------------------------
\* The variables have their types: a record is in the ledger exactly when its
\* request was granted, and no event or decision lies in the future.
TypeOK ==
    /\ ledger \in [Requests -> Record]
    /\ attempts \in [Requests -> {"NONE", "RESERVED", "NOT_RESERVED"}]
    /\ \A r \in Requests : ledger[r].status = "ABSENT" <=> attempts[r] # "RESERVED"
    /\ clock \in Nat
    /\ snapshot \in Snapshot
    /\ decisions \in Seq(Decision)
    /\ \A i \in 1..Len(decisions) : decisions[i].at <= clock
    /\ \A r \in Requests : ledger[r].changed <= clock

\* Whatever was reserved, committed and released in whatever order, no crew
\* uses more than its envelope and the crews together no more capital than
\* the ledger was opened with (reservation.py:441 "Deterministic in-memory
\* capacity ledger").
CapacityHeld == CapacityOf(ledger)

\* Several candidates are evaluated before any of them is applied, and a
\* decision may be applied long after it was made: what is committed never
\* exceeds the gate's global limits, because every evaluation counts what is
\* only reserved as exposure to come.
AdmittedWithinLimits == CommittedWithinLimits(ledger)

\* A reservation is decided once and only moves forward: a second decision, a
\* late one, or the same request again never touches it; a refused request is
\* never granted; only its owner releases what was committed.
DecidedOnce ==
    [][\A r \in Requests :
        /\ ledger[r].status = "RELEASED" => ledger'[r] = ledger[r]
        /\ ledger[r].ref # 0 => ledger'[r].ref = ledger[r].ref
        /\ attempts[r] = "NOT_RESERVED" => ledger'[r].status = "ABSENT"]_vars

\* Every step on the ledger is one the capacity pool allows.
Pool == INSTANCE CapacityPool WITH
    taken <- With(ledger, "RESERVED"),
    confirmed <- With(ledger, "COMMITTED"),
    returned <- With(ledger, "RELEASED")

PoolSpec == Pool!Spec
=============================================================================

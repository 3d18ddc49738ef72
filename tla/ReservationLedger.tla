------------------------- MODULE ReservationLedger -------------------------
(* The arithmetic of app/portfolio/reservation.py, reconciliation.py and   *)
(* risk_gate_evaluator.py: what a ledger of capacity reservations adds up  *)
(* to, whether a request fits, and whether the Master Risk Gate admits it. *)
(* A ledger is a function of the requests; its transitions are operators   *)
(* that return the next ledger.  No state of its own.                      *)
EXTENDS Naturals

CONSTANTS Crews,        \* the members of the allocation policy
          Requests,     \* the reservation requests there may be
          request,      \* what each asks for
          ceiling,      \* the allocation envelope of each crew
          equity,       \* the capital the ledger was opened with
          limit,        \* the Master Risk Gate's two global limits
          Sum(_, _)     \* Sum(a, S): amount a added up over the requests of S

Exposures == {"risk", "gross"}
Amounts == Exposures \cup {"capital"}
Statuses == {"ABSENT", "RESERVED", "COMMITTED", "RELEASED"}

ASSUME RequestAssumption ==
    /\ request \in [Requests -> [crew: Crews, capital: Nat, risk: Nat, gross: Nat]]
    /\ ceiling \in [Crews -> [Amounts -> Nat]]
    /\ limit \in [Exposures -> Nat]
    /\ equity \in Nat

\* Sum is addition over a finite set of requests: its two laws.
ASSUME SumAssumption ==
    \A a \in Amounts :
        /\ Sum(a, {}) = 0
        /\ \A S \in SUBSET Requests :
              /\ Sum(a, S) \in Nat
              /\ \A r \in Requests \ S :
                    Sum(a, S \cup {r}) = Sum(a, S) + request[r][a]

-----------------------------------------------------------------------------
\* A record of the ledger: when it was requested, its last event, and the
\* decision that moved it (0: none).
Record == [status: Statuses, requested: Nat, changed: Nat, ref: Nat]
NoRecord == [status |-> "ABSENT", requested |-> 0, changed |-> 0, ref |-> 0]

With(ledger, status) == {r \in Requests : ledger[r].status = status}
Active(ledger) == With(ledger, "RESERVED") \cup With(ledger, "COMMITTED")
OfCrew(c, S) == {r \in S : request[r].crew = c}

\* Variant: committed capacity is free.
FitsReservedOnly(ledger, r) ==
    LET c == request[r].crew
    IN  /\ \A a \in Amounts :
              Sum(a, OfCrew(c, With(ledger, "RESERVED"))) + request[r][a] <= ceiling[c][a]
        /\ Sum("capital", With(ledger, "RESERVED")) + request[r].capital <= equity

\* _capacity_reasons: every amount within the crew's envelope, and the
\* capital of all crews within the opening equity.
Fits(ledger, r) ==
    LET c == request[r].crew
    IN  /\ \A a \in Amounts :
              Sum(a, OfCrew(c, Active(ledger))) + request[r][a] <= ceiling[c][a]
        /\ Sum("capital", Active(ledger)) + request[r].capital <= equity

Reserved(ledger, r, t) ==
    [ledger EXCEPT ![r] = [status |-> "RESERVED", requested |-> t, changed |-> t, ref |-> 0]]

Committed(ledger, r, t, ref) ==
    [ledger EXCEPT ![r] = [@ EXCEPT !.status = "COMMITTED", !.changed = t, !.ref = ref]]

Released(ledger, r, t, ref) ==
    [ledger EXCEPT ![r] = [@ EXCEPT !.status = "RELEASED", !.changed = t, !.ref = ref]]

-----------------------------------------------------------------------------
\* A portfolio snapshot: when it was observed, whether it is available, what
\* each crew is exposed to, and the totals.
\* _report_status is PENDING or CONSISTENT: no ledger event after the
\* observation, and no crew exposed to more than it committed.
Reconciled(ledger, snapshot) ==
    /\ snapshot.available
    /\ \A r \in Requests \ With(ledger, "ABSENT") : ledger[r].changed <= snapshot.at
    /\ \A c \in Crews, a \in Exposures :
          snapshot.crew[c][a] <= Sum(a, OfCrew(c, With(ledger, "COMMITTED")))

\* Variant: reserved capacity is not
\* counted as future exposure.
WithinLimitsObserved(ledger, snapshot) ==
    \A a \in Exposures : \A base \in {snapshot.total[a], Sum(a, With(ledger, "COMMITTED"))} :
        base <= limit[a]

\* max(observed, committed) + reserved within the limit; the candidate's own
\* reservation is among the reserved ones.
WithinLimits(ledger, snapshot) ==
    \A a \in Exposures : \A base \in {snapshot.total[a], Sum(a, With(ledger, "COMMITTED"))} :
        base + Sum(a, With(ledger, "RESERVED")) <= limit[a]

GateAdmits(ledger, snapshot, r) ==
    /\ ledger[r].status = "RESERVED"
    /\ Reconciled(ledger, snapshot)
    /\ WithinLimits(ledger, snapshot)

-----------------------------------------------------------------------------
\* The promise of the ledger: no crew has more in use than its envelope, and
\* all crews together no more capital than the opening equity.
CapacityOf(ledger) ==
    /\ \A c \in Crews, a \in Amounts : Sum(a, OfCrew(c, Active(ledger))) <= ceiling[c][a]
    /\ Sum("capital", Active(ledger)) <= equity

\* The promise of the gate: what is committed is within the global limits.
CommittedWithinLimits(ledger) ==
    \A a \in Exposures : Sum(a, With(ledger, "COMMITTED")) <= limit[a]
=============================================================================

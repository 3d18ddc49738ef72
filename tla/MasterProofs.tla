---------------------------- MODULE MasterProofs ----------------------------
(* What is proved of the Master Portfolio, for any crews, requests, envelopes *)
(* and limits.  MasterAdmission: the reservation ledger stays within its      *)
(* capacity and the Master Risk Gate within its limits, however late a        *)
(* decision is applied.  MasterReplay, for any candles, trades and plan       *)
(* length: the account, the ledger and the crews' lots agree between           *)
(* barriers, and a lot leaves at the worse of the prices its candle reached.  *)
EXTENDS MasterAdmission, MasterReplay, SetProofs

-----------------------------------------------------------------------------
(* Sums over sets of requests *)

\* A sum is a natural number, and a member's share can be taken out of it.
LEMMA SumMember ==
    ASSUME NEW a \in Amounts, NEW S \in SUBSET Requests, NEW r \in S
    PROVE  /\ Sum(a, S) \in Nat
           /\ Sum(a, S \ {r}) \in Nat
           /\ request[r][a] \in Nat
           /\ Sum(a, S) = Sum(a, S \ {r}) + request[r][a]
<1>1. S \ {r} \in SUBSET Requests /\ r \in Requests \ (S \ {r})
  OBVIOUS
<1>2. (S \ {r}) \cup {r} = S
  OBVIOUS
<1>3. request[r] \in [crew: Crews, capital: Nat, risk: Nat, gross: Nat]
  BY RequestAssumption
<1>4. request[r][a] \in Nat
  BY <1>3 DEF Amounts, Exposures
<1> QED
  BY <1>1, <1>2, <1>4, SumAssumption

\* Taking requests out one at a time makes no sum larger.
LEMMA SumWithout ==
    ASSUME NEW a \in Amounts, NEW S \in SUBSET Requests, NEW r
    PROVE  /\ Sum(a, S) \in Nat
           /\ Sum(a, S \ {r}) \in Nat
           /\ Sum(a, S \ {r}) <= Sum(a, S)
<1>1. CASE r \in S
  <2>1. /\ Sum(a, S) \in Nat /\ Sum(a, S \ {r}) \in Nat /\ request[r][a] \in Nat
        /\ Sum(a, S) = Sum(a, S \ {r}) + request[r][a]
    BY <1>1, SumMember
  <2> QED
    BY <2>1
<1>2. CASE r \notin S
  <2>1. S \ {r} = S
    BY <1>2
  <2>2. Sum(a, S) \in Nat
    BY SumAssumption
  <2> QED
    BY <2>1, <2>2
<1> QED
  BY <1>1, <1>2

\* A new member adds its share.
LEMMA SumWith ==
    ASSUME NEW a \in Amounts, NEW S \in SUBSET Requests, NEW r \in Requests, r \notin S
    PROVE  /\ Sum(a, S) \in Nat
           /\ request[r][a] \in Nat
           /\ Sum(a, S \cup {r}) = Sum(a, S) + request[r][a]
<1>1. S \cup {r} \in SUBSET Requests /\ (S \cup {r}) \ {r} = S /\ r \in S \cup {r}
  OBVIOUS
<1> QED
  BY <1>1, SumMember

-----------------------------------------------------------------------------
(* What a transition of the ledger does to its sets *)

\* Reserving adds the request to the active ones and commits nothing.
LEMMA ReservedSets ==
    ASSUME NEW L \in [Requests -> Record], NEW r \in Requests, NEW t \in Nat,
           L[r].status = "ABSENT"
    PROVE  /\ Reserved(L, r, t) \in [Requests -> Record]
           /\ r \notin Active(L)
           /\ Active(Reserved(L, r, t)) = Active(L) \cup {r}
           /\ With(Reserved(L, r, t), "COMMITTED") = With(L, "COMMITTED")
BY DEF Reserved, Active, With, Record, Statuses

\* Committing moves a reserved request among the committed ones.
LEMMA CommittedSets ==
    ASSUME NEW L \in [Requests -> Record], NEW r \in Requests, NEW t \in Nat, NEW d \in Nat,
           L[r].status = "RESERVED"
    PROVE  /\ Committed(L, r, t, d) \in [Requests -> Record]
           /\ Active(Committed(L, r, t, d)) = Active(L)
           /\ r \notin With(L, "COMMITTED")
           /\ With(Committed(L, r, t, d), "COMMITTED") = With(L, "COMMITTED") \cup {r}
BY DEF Committed, Active, With, Record, Statuses

\* Releasing takes the request out of both.
LEMMA ReleasedSets ==
    ASSUME NEW L \in [Requests -> Record], NEW r \in Requests, NEW t \in Nat, NEW d \in Nat
    PROVE  /\ Released(L, r, t, d) \in [Requests -> Record]
           /\ Active(Released(L, r, t, d)) = Active(L) \ {r}
           /\ With(Released(L, r, t, d), "COMMITTED") = With(L, "COMMITTED") \ {r}
BY DEF Released, Active, With, Record, Statuses

-----------------------------------------------------------------------------
(* Capacity *)

\* What fits is within the envelopes once it is reserved.
LEMMA CapacityReserve ==
    ASSUME NEW L \in [Requests -> Record], NEW r \in Requests, NEW t \in Nat,
           L[r].status = "ABSENT", CapacityOf(L), Fits(L, r)
    PROVE  CapacityOf(Reserved(L, r, t))
<1> DEFINE A == Active(L)
           M == Active(Reserved(L, r, t))
<1>1. M = A \cup {r} /\ r \notin A
  BY ReservedSets
<1>2. A \in SUBSET Requests
  BY DEF Active, With
<1>3. ASSUME NEW c \in Crews, NEW a \in Amounts
      PROVE  Sum(a, OfCrew(c, M)) <= ceiling[c][a]
  <2>1. CASE request[r].crew = c
    <3>1. OfCrew(c, M) = OfCrew(c, A) \cup {r} /\ r \notin OfCrew(c, A)
      BY <1>1, <2>1 DEF OfCrew
    <3>2. OfCrew(c, A) \in SUBSET Requests
      BY <1>2 DEF OfCrew
    <3>3. Sum(a, OfCrew(c, M)) = Sum(a, OfCrew(c, A)) + request[r][a]
      BY <3>1, <3>2, SumWith
    <3>4. Sum(a, OfCrew(c, A)) + request[r][a] <= ceiling[c][a]
      BY <2>1 DEF Fits
    <3> QED
      BY <3>3, <3>4
  <2>2. CASE request[r].crew # c
    <3>1. OfCrew(c, M) = OfCrew(c, A)
      BY <1>1, <2>2 DEF OfCrew
    <3> QED
      BY <3>1 DEF CapacityOf
  <2> QED
    BY <2>1, <2>2
<1>4. Sum("capital", M) <= equity
  <2>1. "capital" \in Amounts
    BY DEF Amounts
  <2>2. Sum("capital", M) = Sum("capital", A) + request[r]["capital"]
    BY <1>1, <1>2, <2>1, SumWith
  <2>3. Sum("capital", A) + request[r].capital <= equity
    BY DEF Fits
  <2> QED
    BY <2>2, <2>3
<1> QED
  BY <1>3, <1>4 DEF CapacityOf

\* Committing uses what was already reserved.
LEMMA CapacityCommit ==
    ASSUME NEW L \in [Requests -> Record], NEW r \in Requests, NEW t \in Nat, NEW d \in Nat,
           L[r].status = "RESERVED", CapacityOf(L)
    PROVE  CapacityOf(Committed(L, r, t, d))
BY CommittedSets DEF CapacityOf

\* Releasing only gives back.
LEMMA CapacityRelease ==
    ASSUME NEW L \in [Requests -> Record], NEW r \in Requests, NEW t \in Nat, NEW d \in Nat,
           CapacityOf(L)
    PROVE  CapacityOf(Released(L, r, t, d))
<1> DEFINE A == Active(L)
           M == Active(Released(L, r, t, d))
<1>1. M = A \ {r} /\ A \in SUBSET Requests
  BY ReleasedSets DEF Active, With
<1>2. ASSUME NEW c \in Crews, NEW a \in Amounts
      PROVE  Sum(a, OfCrew(c, M)) <= ceiling[c][a]
  <2>1. OfCrew(c, M) = OfCrew(c, A) \ {r} /\ OfCrew(c, A) \in SUBSET Requests
    BY <1>1 DEF OfCrew
  <2>2. /\ Sum(a, OfCrew(c, M)) \in Nat /\ Sum(a, OfCrew(c, A)) \in Nat
        /\ Sum(a, OfCrew(c, M)) <= Sum(a, OfCrew(c, A))
    BY <2>1, SumWithout
  <2>3. Sum(a, OfCrew(c, A)) <= ceiling[c][a] /\ ceiling[c][a] \in Nat
    BY RequestAssumption DEF CapacityOf
  <2> QED
    BY <2>2, <2>3
<1>3. Sum("capital", M) <= equity
  <2>1. "capital" \in Amounts
    BY DEF Amounts
  <2>2. /\ Sum("capital", M) \in Nat /\ Sum("capital", A) \in Nat
        /\ Sum("capital", M) <= Sum("capital", A)
    BY <1>1, <2>1, SumWithout
  <2>3. Sum("capital", A) <= equity /\ equity \in Nat
    BY RequestAssumption DEF CapacityOf
  <2> QED
    BY <2>2, <2>3
<1> QED
  BY <1>2, <1>3 DEF CapacityOf

-----------------------------------------------------------------------------
(* The gate's limits *)

\* What an admission was evaluated on: its own reservation counted among the
\* reserved ones, and committed plus reserved within the limits.
Admissible(L, r) ==
    /\ L[r].status = "RESERVED"
    /\ \A a \in Exposures :
          Sum(a, With(L, "COMMITTED")) + Sum(a, With(L, "RESERVED")) <= limit[a]

\* The strengthening: every admission still on record was made on such a ledger.
SeenAdmissible ==
    \A i \in 1..Len(decisions) :
        decisions[i].admit => Admissible(decisions[i].seen, decisions[i].req)

\* The gate admits only what is admissible, whatever the snapshot shows.
LEMMA GateAdmissible ==
    ASSUME NEW L, NEW s, NEW r, GateAdmits(L, s, r)
    PROVE  Admissible(L, r)
BY DEF GateAdmits, WithinLimits, Admissible

\* Committing an admissible reservation stays within the limits.
LEMMA LimitsCommit ==
    ASSUME NEW L \in [Requests -> Record], NEW r \in Requests, NEW t \in Nat, NEW d \in Nat,
           Admissible(L, r)
    PROVE  CommittedWithinLimits(Committed(L, r, t, d))
<1> SUFFICES ASSUME NEW a \in Exposures
             PROVE  Sum(a, With(Committed(L, r, t, d), "COMMITTED")) <= limit[a]
  BY DEF CommittedWithinLimits
<1> DEFINE C == With(L, "COMMITTED")
           R == With(L, "RESERVED")
<1>1. a \in Amounts /\ C \in SUBSET Requests /\ R \in SUBSET Requests /\ r \in R
  BY DEF Amounts, With, Admissible
<1>2. With(Committed(L, r, t, d), "COMMITTED") = C \cup {r} /\ r \notin C
  BY CommittedSets DEF Admissible
<1>3. /\ Sum(a, C \cup {r}) = Sum(a, C) + request[r][a]
      /\ Sum(a, C) \in Nat /\ request[r][a] \in Nat
  BY <1>1, <1>2, SumWith
<1>4. /\ Sum(a, R) \in Nat /\ Sum(a, R \ {r}) \in Nat
      /\ Sum(a, R) = Sum(a, R \ {r}) + request[r][a]
  BY <1>1, SumMember
<1>5. Sum(a, C) + Sum(a, R) <= limit[a] /\ limit[a] \in Nat
  BY RequestAssumption DEF Admissible
<1> QED
  BY <1>2, <1>3, <1>4, <1>5

\* Reserving commits nothing.
LEMMA LimitsReserve ==
    ASSUME NEW L \in [Requests -> Record], NEW r \in Requests, NEW t \in Nat,
           L[r].status = "ABSENT", CommittedWithinLimits(L)
    PROVE  CommittedWithinLimits(Reserved(L, r, t))
BY ReservedSets DEF CommittedWithinLimits

\* Releasing commits nothing.
LEMMA LimitsRelease ==
    ASSUME NEW L \in [Requests -> Record], NEW r \in Requests, NEW t \in Nat, NEW d \in Nat,
           CommittedWithinLimits(L)
    PROVE  CommittedWithinLimits(Released(L, r, t, d))
<1> SUFFICES ASSUME NEW a \in Exposures
             PROVE  Sum(a, With(Released(L, r, t, d), "COMMITTED")) <= limit[a]
  BY DEF CommittedWithinLimits
<1> DEFINE C == With(L, "COMMITTED")
<1>1. a \in Amounts /\ C \in SUBSET Requests
  BY DEF Amounts, With
<1>2. With(Released(L, r, t, d), "COMMITTED") = C \ {r}
  BY ReleasedSets
<1>3. Sum(a, C) \in Nat /\ Sum(a, C \ {r}) \in Nat /\ Sum(a, C \ {r}) <= Sum(a, C)
  BY <1>1, SumWithout
<1>4. Sum(a, C) <= limit[a] /\ limit[a] \in Nat
  BY RequestAssumption DEF CommittedWithinLimits
<1> QED
  BY <1>2, <1>3, <1>4

-----------------------------------------------------------------------------
(* The invariants of the specification *)

\* The ledger opens empty: nothing is active and nothing committed.
LEMMA InitSets ==
    ASSUME Init
    PROVE  Active(ledger) = {} /\ With(ledger, "COMMITTED") = {}
BY DEF Init, Active, With, NoRecord

\* A decision taken names a request, and neither it nor a record's last event
\* has a time that is not a number.
LEMMA RecordedTypes ==
    ASSUME TypeOK
    PROVE  /\ \A i \in 1..Len(decisions) :
                 decisions[i].req \in Requests /\ decisions[i].at \in Nat
           /\ \A r \in Requests : ledger[r].changed \in Nat /\ ledger[r].ref \in Nat
<1>1. \A i \in 1..Len(decisions) : decisions[i] \in Decision
  BY DEF TypeOK
<1>2. \A d \in Decision : d.req \in Requests /\ d.at \in Nat
  BY DEF Decision
<1>3. \A r \in Requests : ledger[r] \in Record
  BY DEF TypeOK
<1> QED
  BY <1>1, <1>2, <1>3 DEF Record

\* TypeOK is inductive.
LEMMA TypeStep == TypeOK /\ [Next]_vars => TypeOK'
<1> SUFFICES ASSUME TypeOK, [Next]_vars PROVE TypeOK'
  OBVIOUS
<1> USE DEF TypeOK
<1>1. CASE Tick
  <2>1. /\ \A i \in 1..Len(decisions) : decisions[i].at <= clock + 1
        /\ \A r \in Requests : ledger[r].changed <= clock + 1
    BY RecordedTypes
  <2> QED
    BY <1>1, <2>1 DEF Tick
<1>2. ASSUME NEW o \in Observations, TakeSnapshot(o)
      PROVE  TypeOK'
  BY <1>2, ObservationAssumption DEF TakeSnapshot, Observed, Snapshot
<1>3. ASSUME NEW r \in Requests, Reserve(r)
      PROVE  TypeOK'
  <2>1. ledger[r].status = "ABSENT"
    BY <1>3 DEF Reserve, FirstAttempt
  <2>2. CASE Fits(ledger, r)
    <3>1. ledger' = Reserved(ledger, r, clock) /\ ledger' \in [Requests -> Record]
      BY <1>3, <2>1, <2>2, ReservedSets DEF Reserve
    <3> QED
      BY <1>3, <2>2, <3>1 DEF Reserve, Reserved
  <2>3. CASE ~Fits(ledger, r)
    BY <1>3, <2>1, <2>3 DEF Reserve
  <2> QED
    BY <2>2, <2>3
<1>4. ASSUME NEW r \in Requests, Evaluate(r)
      PROVE  TypeOK'
  <2> DEFINE d == [req |-> r, admit |-> GateAdmits(ledger, snapshot, r),
                   seen |-> ledger, at |-> clock]
  <2>1. GateAdmits(ledger, snapshot, r) \in BOOLEAN
    BY DEF GateAdmits
  <2>2. d \in Decision /\ decisions' = Append(decisions, d)
    BY <1>4, <2>1 DEF Decision, Evaluate
  <2> HIDE DEF d
  <2>3. decisions' \in Seq(Decision)
    BY <2>2
  <2>4. \A i \in 1..Len(decisions') : decisions'[i].at <= clock
    <3>1. d.at = clock
      BY DEF d
    <3> QED
      BY <2>2, <3>1
  <2> QED
    BY <1>4, <2>3, <2>4 DEF Evaluate
<1>5. ASSUME NEW r \in Requests, Release(r)
      PROVE  TypeOK'
  <2>1. ledger[r].ref \in Nat /\ ledger[r].status # "ABSENT"
    BY <1>5 DEF Release, Record, Active, With
  <2>2. ledger' \in [Requests -> Record]
    BY <1>5, <2>1, ReleasedSets DEF Release
  <2> QED
    BY <1>5, <2>1, <2>2 DEF Release, Released
<1>6. ASSUME NEW i \in 1..Len(decisions), Apply(i)
      PROVE  TypeOK'
  <2> DEFINE d == decisions[i]
  <2>1. d.req \in Requests /\ d.at \in Nat /\ i \in Nat /\ d.at <= clock
    BY RecordedTypes
  <2>2. ledger[d.req].status = "RESERVED"
    BY <1>6 DEF Apply, Applicable
  <2>3. /\ Committed(ledger, d.req, d.at, i) \in [Requests -> Record]
        /\ Released(ledger, d.req, d.at, i) \in [Requests -> Record]
    BY <2>1, <2>2, CommittedSets, ReleasedSets
  <2> QED
    BY <1>6, <2>1, <2>2, <2>3 DEF Apply, Committed, Released
<1>7. CASE UNCHANGED vars
  BY <1>7 DEF vars
<1> QED
  BY <1>1, <1>2, <1>3, <1>4, <1>5, <1>6, <1>7 DEF Next

\* The opening state has the types.
LEMMA TypeInit == Init => TypeOK
<1> SUFFICES ASSUME Init PROVE TypeOK
  OBVIOUS
<1>1. \A o \in Observations : Observed(o) \in Snapshot
  BY ObservationAssumption DEF Init, Observed, Snapshot
<1> QED
  BY <1>1 DEF Init, TypeOK, Record, NoRecord, Statuses

\* The variables have their types in every reachable state.
THEOREM TypeCorrect == Spec => []TypeOK
<1> QED
  BY TypeInit, TypeStep, PTL DEF Spec

\* The ledger never exceeds its capacity (reservation.py:696): the invariant
\* is inductive once a first attempt is known to have no record.
THEOREM CapacityInvariant == Spec => []CapacityHeld
<1>1. Init => CapacityHeld
  <2> SUFFICES ASSUME Init PROVE CapacityOf(ledger)
    BY DEF CapacityHeld
  <2>1. /\ \A c \in Crews : OfCrew(c, Active(ledger)) = {}
        /\ Active(ledger) = {}
    BY InitSets DEF OfCrew
  <2>2. \A a \in Amounts : Sum(a, {}) = 0
    BY SumAssumption
  <2>3. "capital" \in Amounts /\ equity \in Nat /\ \A c \in Crews, a \in Amounts : ceiling[c][a] \in Nat
    BY RequestAssumption DEF Amounts
  <2> QED
    BY <2>1, <2>2, <2>3 DEF CapacityOf
<1>2. TypeOK /\ CapacityHeld /\ [Next]_vars => CapacityHeld'
  <2> SUFFICES ASSUME TypeOK, CapacityOf(ledger), [Next]_vars
               PROVE  CapacityOf(ledger')
    BY DEF CapacityHeld
  <2>1. ledger \in [Requests -> Record] /\ clock \in Nat
    BY DEF TypeOK
  <2>2. CASE ledger' = ledger
    BY <2>2
  <2>3. ASSUME NEW r \in Requests, Reserve(r)
        PROVE  CapacityOf(ledger')
    <3>1. ledger[r].status = "ABSENT"
      BY <2>3 DEF TypeOK, Reserve, FirstAttempt
    <3> QED
      BY <2>1, <2>3, <3>1, CapacityReserve DEF Reserve
  <2>4. ASSUME NEW r \in Requests, Release(r)
        PROVE  CapacityOf(ledger')
    <3>1. ledger[r].ref \in Nat
      BY <2>1 DEF Record
    <3> QED
      BY <2>1, <2>4, <3>1, CapacityRelease DEF Release
  <2>5. ASSUME NEW i \in 1..Len(decisions), Apply(i)
        PROVE  CapacityOf(ledger')
    <3> DEFINE d == decisions[i]
    <3>1. d.req \in Requests /\ d.at \in Nat /\ i \in Nat
      BY RecordedTypes
    <3>2. /\ ledger[d.req].status = "RESERVED"
          /\ \/ ledger' = Committed(ledger, d.req, d.at, i)
             \/ ledger' = Released(ledger, d.req, d.at, i)
      BY <2>5 DEF Apply, Applicable
    <3> HIDE DEF d
    <3> QED
      BY <2>1, <3>1, <3>2, CapacityCommit, CapacityRelease
  <2> QED
    BY <2>2, <2>3, <2>4, <2>5 DEF Next, vars, Tick, TakeSnapshot, Evaluate
<1> QED
  BY <1>1, <1>2, TypeCorrect, PTL DEF Spec

\* Every admission on record was made on an admissible ledger, and what is
\* committed stays within the limits: together they are inductive.
LEMMA GateInvariant == Spec => [](SeenAdmissible /\ AdmittedWithinLimits)
<1> DEFINE Inv == SeenAdmissible /\ AdmittedWithinLimits
<1>1. Init => Inv
  <2> SUFFICES ASSUME Init PROVE Inv
    OBVIOUS
  <2>1. SeenAdmissible
    BY DEF Init, SeenAdmissible
  <2>2. CommittedWithinLimits(ledger)
    <3>1. With(ledger, "COMMITTED") = {}
      BY InitSets
    <3>2. \A a \in Exposures : Sum(a, {}) = 0 /\ limit[a] \in Nat
      BY SumAssumption, RequestAssumption DEF Amounts
    <3> QED
      BY <3>1, <3>2 DEF CommittedWithinLimits
  <2> QED
    BY <2>1, <2>2 DEF AdmittedWithinLimits
<1>2. TypeOK /\ Inv /\ [Next]_vars => Inv'
  <2> SUFFICES ASSUME TypeOK, SeenAdmissible, CommittedWithinLimits(ledger), [Next]_vars
               PROVE  SeenAdmissible' /\ CommittedWithinLimits(ledger')
    BY DEF AdmittedWithinLimits
  <2>1. ledger \in [Requests -> Record] /\ clock \in Nat /\ decisions \in Seq(Decision)
    BY DEF TypeOK
  <2>2. CASE UNCHANGED <<ledger, decisions>>
    BY <2>2 DEF SeenAdmissible
  <2>3. ASSUME NEW r \in Requests, Reserve(r)
        PROVE  SeenAdmissible' /\ CommittedWithinLimits(ledger')
    <3>1. ledger[r].status = "ABSENT" /\ UNCHANGED decisions
      BY <2>3 DEF TypeOK, Reserve, FirstAttempt
    <3>2. CommittedWithinLimits(ledger')
      BY <2>1, <2>3, <3>1, LimitsReserve DEF Reserve
    <3> QED
      BY <3>1, <3>2 DEF SeenAdmissible
  <2>4. ASSUME NEW r \in Requests, Evaluate(r)
        PROVE  SeenAdmissible' /\ CommittedWithinLimits(ledger')
    <3> DEFINE d == [req |-> r, admit |-> GateAdmits(ledger, snapshot, r),
                     seen |-> ledger, at |-> clock]
    <3>1. decisions' = Append(decisions, d) /\ ledger' = ledger
      BY <2>4 DEF Evaluate
    <3>2. d.admit => Admissible(d.seen, d.req)
      BY GateAdmissible
    <3> HIDE DEF d
    <3>3. ASSUME NEW i \in 1..Len(decisions'), decisions'[i].admit
          PROVE  Admissible(decisions'[i].seen, decisions'[i].req)
      <4>1. CASE i = Len(decisions) + 1
        <5>1. decisions'[i] = d
          BY <2>1, <3>1, <4>1
        <5> QED
          BY <3>2, <3>3, <5>1
      <4>2. CASE i # Len(decisions) + 1
        <5>1. i \in 1..Len(decisions) /\ decisions'[i] = decisions[i]
          BY <2>1, <3>1, <4>2
        <5> QED
          BY <3>3, <5>1 DEF SeenAdmissible
      <4> QED
        BY <4>1, <4>2
    <3>4. SeenAdmissible'
      BY <3>3 DEF SeenAdmissible
    <3> QED
      BY <3>1, <3>4
  <2>5. ASSUME NEW r \in Requests, Release(r)
        PROVE  SeenAdmissible' /\ CommittedWithinLimits(ledger')
    <3>1. ledger[r].ref \in Nat
      BY <2>1 DEF Record
    <3>2. CommittedWithinLimits(ledger')
      BY <2>1, <2>5, <3>1, LimitsRelease DEF Release
    <3> QED
      BY <2>5, <3>2 DEF Release, SeenAdmissible
  <2>6. ASSUME NEW i \in 1..Len(decisions), Apply(i)
        PROVE  SeenAdmissible' /\ CommittedWithinLimits(ledger')
    <3> DEFINE d == decisions[i]
    <3>1. d.req \in Requests /\ d.at \in Nat /\ i \in Nat
      BY RecordedTypes
    <3>2. CASE d.admit
      <4>1. Admissible(ledger, d.req) /\ ledger' = Committed(ledger, d.req, d.at, i)
        BY <2>6, <3>2 DEF Apply, Applicable, SeenAdmissible
      <4>2. CommittedWithinLimits(ledger')
        BY <2>1, <3>1, <4>1, LimitsCommit
      <4> QED
        BY <2>6, <4>2 DEF Apply, SeenAdmissible
    <3>3. CASE ~d.admit
      <4>1. ledger' = Released(ledger, d.req, d.at, i)
        BY <2>6, <3>3 DEF Apply
      <4>2. CommittedWithinLimits(ledger')
        BY <2>1, <3>1, <4>1, LimitsRelease
      <4> QED
        BY <2>6, <4>2 DEF Apply, SeenAdmissible
    <3> QED
      BY <3>2, <3>3
  <2> QED
    BY <2>2, <2>3, <2>4, <2>5, <2>6 DEF Next, vars, Tick, TakeSnapshot
<1> QED
  BY <1>1, <1>2, TypeCorrect, PTL DEF Spec

\* What is committed stays within the gate's limits, for any delay and order
\* of evaluations and applications (risk_gate_admission.py:366): an admission
\* is applied only to the very ledger it was evaluated on, where its own
\* reservation was already counted.
THEOREM AdmissionsWithinLimits == Spec => []AdmittedWithinLimits
BY GateInvariant, PTL

\* A reservation only moves forward and is decided at most once.
THEOREM DecidedOnlyOnce == Spec => DecidedOnce
<1> DEFINE Forward ==
      \A r \in Requests :
        /\ ledger[r].status = "RELEASED" => ledger'[r] = ledger[r]
        /\ ledger[r].ref # 0 => ledger'[r].ref = ledger[r].ref
        /\ attempts[r] = "NOT_RESERVED" => ledger'[r].status = "ABSENT"
      Undecided == \A r \in Requests : ledger[r].status \in {"ABSENT", "RESERVED"} => ledger[r].ref = 0
<1>1. Init => Undecided
  BY DEF Init, NoRecord
<1>2. TypeOK /\ Undecided /\ [Next]_vars => Undecided' /\ [Forward]_vars
  <2> SUFFICES ASSUME TypeOK, Undecided, [Next]_vars PROVE Undecided' /\ Forward
    OBVIOUS
  <2>1. /\ ledger \in [Requests -> Record]
        /\ \A r \in Requests : attempts[r] = "NOT_RESERVED" => ledger[r].status = "ABSENT"
    BY DEF TypeOK
  <2>2. CASE UNCHANGED <<ledger, attempts>>
    BY <2>1, <2>2
  <2>3. ASSUME NEW r \in Requests, Reserve(r)
        PROVE  Undecided' /\ Forward
    <3>1. ledger[r].status = "ABSENT" /\ attempts[r] = "NONE"
      BY <2>3 DEF TypeOK, Reserve, FirstAttempt
    <3> QED
      BY <2>1, <2>3, <3>1 DEF Reserve, Reserved
  <2>4. ASSUME NEW r \in Requests, Release(r)
        PROVE  Undecided' /\ Forward
    BY <2>1, <2>4 DEF Release, Released, Active, With
  <2>5. ASSUME NEW i \in 1..Len(decisions), Apply(i)
        PROVE  Undecided' /\ Forward
    <3>1. decisions[i].req \in Requests
      BY RecordedTypes
    <3> QED
      BY <2>1, <2>5, <3>1 DEF Apply, Applicable, Committed, Released
  <2> QED
    BY <2>2, <2>3, <2>4, <2>5 DEF Next, vars, Tick, TakeSnapshot, Evaluate
<1>3. [][Forward]_vars => DecidedOnce
  BY PTL DEF DecidedOnce
<1> QED
  BY <1>1, <1>2, <1>3, TypeCorrect, PTL DEF Spec

-----------------------------------------------------------------------------
(* Refinement *)

\* What a transition moves between the pool's three sets.
LEMMA PoolSets ==
    ASSUME NEW L \in [Requests -> Record], NEW r \in Requests, NEW t \in Nat, NEW d \in Nat
    PROVE  /\ L[r].status = "ABSENT" =>
                /\ r \notin With(L, "RESERVED") \cup With(L, "COMMITTED") \cup With(L, "RELEASED")
                /\ With(Reserved(L, r, t), "RESERVED") = With(L, "RESERVED") \cup {r}
                /\ With(Reserved(L, r, t), "RELEASED") = With(L, "RELEASED")
           /\ L[r].status = "RESERVED" =>
                /\ With(Committed(L, r, t, d), "RESERVED") = With(L, "RESERVED") \ {r}
                /\ With(Committed(L, r, t, d), "RELEASED") = With(L, "RELEASED")
           /\ /\ With(Released(L, r, t, d), "RESERVED") = With(L, "RESERVED") \ {r}
              /\ With(Released(L, r, t, d), "RELEASED") = With(L, "RELEASED") \cup {r}
<1>1. L[r].status = "ABSENT" =>
                /\ r \notin With(L, "RESERVED") \cup With(L, "COMMITTED") \cup With(L, "RELEASED")
                /\ With(Reserved(L, r, t), "RESERVED") = With(L, "RESERVED") \cup {r}
                /\ With(Reserved(L, r, t), "RELEASED") = With(L, "RELEASED")
  BY DEF Reserved, With, Record, Statuses
<1>2. L[r].status = "RESERVED" =>
                /\ With(Committed(L, r, t, d), "RESERVED") = With(L, "RESERVED") \ {r}
                /\ With(Committed(L, r, t, d), "RELEASED") = With(L, "RELEASED")
  BY DEF Committed, With, Record, Statuses
<1>3. /\ With(Released(L, r, t, d), "RESERVED") = With(L, "RESERVED") \ {r}
      /\ With(Released(L, r, t, d), "RELEASED") = With(L, "RELEASED") \cup {r}
  BY DEF Released, With, Record, Statuses
<1> QED
  BY <1>1, <1>2, <1>3

\* A grant is a step of the pool.
LEMMA ReserveIsTake ==
    ASSUME TypeOK, CapacityHeld, NEW r \in Requests, Reserve(r), Fits(ledger, r)
    PROVE  Pool!Take(r)
<1>1. /\ ledger \in [Requests -> Record] /\ clock \in Nat /\ ledger[r].status = "ABSENT"
      /\ ledger' = Reserved(ledger, r, clock)
  BY DEF TypeOK, Reserve, FirstAttempt
<1>2. /\ Active(ledger') = Active(ledger) \cup {r}
      /\ With(ledger', "COMMITTED") = With(ledger, "COMMITTED")
  BY <1>1, ReservedSets
<1>3. /\ r \notin With(ledger, "RESERVED") \cup With(ledger, "COMMITTED") \cup With(ledger, "RELEASED")
      /\ With(ledger', "RESERVED") = With(ledger, "RESERVED") \cup {r}
      /\ With(ledger', "RELEASED") = With(ledger, "RELEASED")
  BY <1>1, PoolSets
<1>4. CapacityOf(ledger')
  BY <1>1, CapacityReserve DEF CapacityHeld
<1>5. Active(ledger') = With(ledger, "RESERVED") \cup With(ledger, "COMMITTED") \cup {r}
  BY <1>2 DEF Active
<1>6. request[r].crew \in Crews
  BY RequestAssumption
<1>7. /\ \A a \in Amounts : Sum(a, OfCrew(request[r].crew, Active(ledger'))) <= ceiling[request[r].crew][a]
      /\ Sum("capital", Active(ledger')) <= equity
  BY <1>4, <1>6 DEF CapacityOf
<1> QED
  BY <1>2, <1>3, <1>5, <1>7
     DEF Pool!Take, Pool!Amounts, Pool!Exposures, Pool!OfCrew, Amounts, Exposures, OfCrew

\* A release, by the owner or by a rejection, is a step of the pool.
LEMMA ReleaseIsReturn ==
    ASSUME TypeOK, NEW r \in Requests, NEW t \in Nat, NEW d \in Nat,
           r \in Active(ledger), ledger' = Released(ledger, r, t, d)
    PROVE  Pool!Return(r)
<1>1. ledger \in [Requests -> Record]
  BY DEF TypeOK
<1>2. With(ledger', "COMMITTED") = With(ledger, "COMMITTED") \ {r}
  BY <1>1, ReleasedSets
<1>3. /\ With(ledger', "RESERVED") = With(ledger, "RESERVED") \ {r}
      /\ With(ledger', "RELEASED") = With(ledger, "RELEASED") \cup {r}
  BY <1>1, PoolSets
<1> QED
  BY <1>2, <1>3 DEF Pool!Return, Active

\* An admission applied is a step of the pool.
LEMMA CommitIsConfirm ==
    ASSUME TypeOK, NEW r \in Requests, NEW t \in Nat, NEW d \in Nat,
           Admissible(ledger, r), ledger' = Committed(ledger, r, t, d)
    PROVE  Pool!Confirm(r)
<1>1. ledger \in [Requests -> Record] /\ ledger[r].status = "RESERVED"
  BY DEF TypeOK, Admissible
<1>2. With(ledger', "COMMITTED") = With(ledger, "COMMITTED") \cup {r}
  BY <1>1, CommittedSets
<1>3. /\ With(ledger', "RESERVED") = With(ledger, "RESERVED") \ {r}
      /\ With(ledger', "RELEASED") = With(ledger, "RELEASED")
  BY <1>1, PoolSets
<1>4. CommittedWithinLimits(ledger')
  BY <1>1, LimitsCommit
<1>5. r \in With(ledger, "RESERVED")
  BY <1>1 DEF With
<1> QED
  BY <1>2, <1>3, <1>4, <1>5 DEF Pool!Confirm, CommittedWithinLimits, Pool!Exposures, Exposures

\* MasterAdmission implements the capacity pool: every change of the ledger
\* is one the pool allows, and everything else leaves the pool as it is.
THEOREM ImplementsPool == Spec => PoolSpec
<1> DEFINE Inv == TypeOK /\ CapacityHeld /\ SeenAdmissible
<1>1. Init => Pool!Init
  <2> SUFFICES ASSUME Init PROVE Pool!Init
    OBVIOUS
  <2>1. With(ledger, "RESERVED") = {} /\ With(ledger, "RELEASED") = {}
    BY DEF Init, With, NoRecord
  <2> QED
    BY <2>1, InitSets DEF Pool!Init
<1>2. Inv /\ [Next]_vars => [Pool!Next]_(Pool!vars)
  <2> SUFFICES ASSUME Inv, [Next]_vars PROVE [Pool!Next]_(Pool!vars)
    OBVIOUS
  <2>1. CASE ledger' = ledger
    BY <2>1 DEF Pool!vars
  <2>2. ASSUME NEW r \in Requests, Reserve(r), Fits(ledger, r)
        PROVE  Pool!Next
    BY <2>2, ReserveIsTake DEF Pool!Next
  <2>3. ASSUME NEW r \in Requests, Release(r)
        PROVE  Pool!Next
    <3>1. ledger[r].ref \in Nat /\ clock \in Nat
      BY RecordedTypes DEF TypeOK
    <3>2. Pool!Return(r)
      BY <2>3, <3>1, ReleaseIsReturn DEF Release
    <3> QED
      BY <3>2 DEF Pool!Next
  <2>4. ASSUME NEW i \in 1..Len(decisions), Apply(i)
        PROVE  Pool!Next
    <3> DEFINE d == decisions[i]
    <3>1. d.req \in Requests /\ d.at \in Nat /\ i \in Nat
      BY RecordedTypes
    <3>2. d.req \in Active(ledger)
      BY <2>4, <3>1 DEF Apply, Applicable, Active, With
    <3>3. CASE d.admit
      <4>1. Admissible(ledger, d.req) /\ ledger' = Committed(ledger, d.req, d.at, i)
        BY <2>4, <3>3 DEF Apply, Applicable, SeenAdmissible
      <4>2. Pool!Confirm(d.req)
        BY <3>1, <4>1, CommitIsConfirm
      <4> QED
        BY <3>1, <4>2 DEF Pool!Next
    <3>4. CASE ~d.admit
      <4>1. ledger' = Released(ledger, d.req, d.at, i)
        BY <2>4, <3>4 DEF Apply
      <4>2. Pool!Return(d.req)
        BY <3>1, <3>2, <4>1, ReleaseIsReturn
      <4> QED
        BY <3>1, <4>2 DEF Pool!Next
    <3> QED
      BY <3>3, <3>4
  <2> QED
    BY <2>1, <2>2, <2>3, <2>4
       DEF Next, vars, Tick, TakeSnapshot, Evaluate, Reserve
<1> QED
  BY <1>1, <1>2, TypeCorrect, CapacityInvariant, GateInvariant, PTL
     DEF Spec, PoolSpec, Pool!Spec

-----------------------------------------------------------------------------
(* The replay: what is added up over the requests *)

\* What the model adds up is a sum over the set.
LEMMA AcrossIsSum == ASSUME NEW f, NEW S PROVE Across(f, S) = Sums(f, S)[S]
BY Zenon DEF Across, MapThenSumSet, MapThenFoldSet, Sums, SumStep, Pick

\* A sum of integers is one, and a new request adds its share.
LEMMA AcrossMore ==
    ASSUME NEW f \in [Requests -> Int], NEW S \in SUBSET Requests
    PROVE  /\ Across(f, S) \in Int
           /\ Across(f, {}) = 0
           /\ \A r \in Requests \ S : Across(f, S \cup {r}) = Across(f, S) + f[r]
<1>1. \A T \in SUBSET Requests : IsFiniteSet(T) /\ \A x \in T : f[x] \in Int
  BY FS_Subset, TradeAssumption
<1>2. Across(f, S) \in Int
  <2>1. Sums(f, S) \in [SUBSET S -> Int]
    BY <1>1, SumsRecursion
  <2> QED
    BY <2>1, AcrossIsSum
<1>3. Across(f, {}) = 0
  <2>1. Sums(f, {})[{}] = SumStep(f, Sums(f, {}), {})
    BY <1>1, SumsRecursion
  <2> QED
    BY <2>1, AcrossIsSum DEF SumStep
<1>4. ASSUME NEW r \in Requests \ S PROVE Across(f, S \cup {r}) = Across(f, S) + f[r]
  <2> DEFINE T == S \cup {r}
  <2>1. T \in SUBSET Requests /\ r \in T /\ T \ {r} = S /\ S \in (SUBSET T) \cap (SUBSET S)
    OBVIOUS
  <2> HIDE DEF T
  <2>2. Sums(f, T)[T] = f[r] + Sums(f, T)[T \ {r}]
    <3>1. IsFiniteSet(T) /\ (\A x \in T : f[x] \in Int) /\ T \in SUBSET T
      BY <1>1, <2>1
    <3> QED
      BY <2>1, <3>1, SumsAnyOrder
  <2>3. Sums(f, T)[S] = Sums(f, S)[S]
    BY <1>1, <2>1, SumsAgree
  <2>4. Across(f, T) = f[r] + Across(f, S)
    BY <2>1, <2>2, <2>3, AcrossIsSum
  <2>5. f[r] \in Int
    OBVIOUS
  <2> QED
    BY <1>2, <2>4, <2>5 DEF T
<1> QED
  BY <1>2, <1>3, <1>4

\* A request that leaves takes its share away.
LEMMA AcrossLess ==
    ASSUME NEW f \in [Requests -> Int], NEW S \in SUBSET Requests, NEW r \in S
    PROVE  Across(f, S \ {r}) = Across(f, S) - f[r]
<1> DEFINE T == S \ {r}
<1>1. T \in SUBSET Requests /\ r \in Requests \ T /\ T \cup {r} = S
  OBVIOUS
<1> HIDE DEF T
<1>2. Across(f, T) \in Int /\ Across(f, T \cup {r}) = Across(f, T) + f[r]
  BY <1>1, AcrossMore
<1>3. f[r] \in Int
  OBVIOUS
<1>4. Across(f, S) = Across(f, T) + f[r]
  BY <1>1, <1>2
<1>5. Across(f, T) = Across(f, S) - f[r]
  BY <1>2, <1>3, <1>4
<1> QED
  BY <1>5 DEF T

\* Only the shares of the set count.
LEMMA AcrossSame ==
    ASSUME NEW f \in [Requests -> Int], NEW g \in [Requests -> Int],
           NEW S \in SUBSET Requests, \A r \in S : f[r] = g[r]
    PROVE  Across(f, S) = Across(g, S)
<1>1. IsFiniteSet(S) /\ (\A x \in S : f[x] \in Int) /\ (\A x \in S : g[x] \in Int)
      /\ S \in (SUBSET S) \cap (SUBSET S)
  BY FS_Subset, TradeAssumption
<1>2. Sums(f, S)[S] = Sums(g, S)[S]
  BY <1>1, SumsAgree
<1> QED
  BY <1>2, AcrossIsSum

-----------------------------------------------------------------------------
(* The replay: the queues of a candle *)

Line == {s \in Seq(Requests) : IsInjective(s)}

\* The head leaves, and was there once.
LEMMA HeadLeaves ==
    ASSUME NEW s \in Line, s # <<>>
    PROVE  /\ Head(s) \in Requests /\ Head(s) \in Range(s)
           /\ Tail(s) \in Line /\ Range(Tail(s)) = Range(s) \ {Head(s)}
<1>1. /\ s \in Seq(Requests) /\ Len(s) \in Nat \ {0} /\ DOMAIN s = 1..Len(s)
      /\ Tail(s) \in Seq(Requests) /\ DOMAIN Tail(s) = 1..(Len(s) - 1)
      /\ \A i \in 1..(Len(s) - 1) : Tail(s)[i] = s[i + 1]
      /\ Head(s) = s[1] /\ 1 \in DOMAIN s
  <2>1. s \in Seq(Requests)
    BY DEF Line
  <2> QED
    BY <2>1
<1>2. \A i, j \in 1..Len(s) : s[i] = s[j] => i = j
  BY <1>1 DEF Line, IsInjective
<1> DEFINE t == Tail(s)
<1> HIDE DEF t
<1>3. t \in Seq(Requests) /\ DOMAIN t = 1..(Len(s) - 1) /\ \A i \in 1..(Len(s) - 1) : t[i] = s[i + 1]
  BY <1>1 DEF t
<1>4. IsInjective(t)
  <2> SUFFICES ASSUME NEW i \in 1..(Len(s) - 1), NEW j \in 1..(Len(s) - 1), t[i] = t[j]
               PROVE  i = j
    BY <1>3 DEF IsInjective
  <2>1. i + 1 \in 1..Len(s) /\ j + 1 \in 1..Len(s) /\ s[i + 1] = s[j + 1]
    BY <1>1, <1>3
  <2> QED
    BY <1>2, <2>1
<1>5. ASSUME NEW x \in Range(t) PROVE x \in Range(s) \ {Head(s)}
  <2>1. PICK i \in 1..(Len(s) - 1) : x = s[i + 1]
    BY <1>3, <1>5 DEF Range
  <2>2. i + 1 \in 1..Len(s) /\ 1 \in 1..Len(s) /\ i + 1 # 1
    BY <1>1
  <2>3. x # s[1]
    BY <1>2, <2>1, <2>2
  <2> QED
    BY <1>1, <2>1, <2>2, <2>3 DEF Range
<1>6. ASSUME NEW x \in Range(s), x # Head(s) PROVE x \in Range(t)
  <2>1. PICK i \in 1..Len(s) : x = s[i]
    BY <1>1, <1>6 DEF Range
  <2>2. i # 1
    BY <1>1, <1>6, <2>1
  <2>3. i - 1 \in 1..(Len(s) - 1) /\ (i - 1) + 1 = i
    BY <1>1, <2>2
  <2>4. t[i - 1] = x
    BY <1>3, <2>1, <2>3
  <2> QED
    BY <1>3, <2>3, <2>4 DEF Range
<1>7. Head(s) \in Requests /\ Head(s) \in Range(s)
  BY <1>1 DEF Range
<1>8. Range(t) = Range(s) \ {Head(s)}
  BY <1>5, <1>6
<1>9. t \in Line
  BY <1>3, <1>4 DEF Line
<1> QED
  BY <1>7, <1>8, <1>9 DEF t

\* Whoever is not in the line yet may join it.
LEMMA LineJoined ==
    ASSUME NEW s \in Line, NEW r \in Requests, r \notin Range(s)
    PROVE  Append(s, r) \in Line /\ Range(Append(s, r)) = Range(s) \cup {r}
<1> DEFINE t == Append(s, r)
<1>1. /\ s \in Seq(Requests) /\ t \in Seq(Requests) /\ Len(s) \in Nat
      /\ DOMAIN s = 1..Len(s) /\ DOMAIN t = 1..(Len(s) + 1)
      /\ \A i \in 1..Len(s) : t[i] = s[i]
      /\ t[Len(s) + 1] = r
  <2>1. s \in Seq(Requests)
    BY DEF Line
  <2> QED
    BY <2>1
<1>2. \A i, j \in 1..Len(s) : s[i] = s[j] => i = j
  <2>1. IsInjective(s)
    BY DEF Line
  <2> QED
    BY <1>1, <2>1 DEF IsInjective
<1>3. \A i \in 1..Len(s) : s[i] # r
  BY <1>1 DEF Range
<1>4. \A i \in 1..(Len(s) + 1) : i \in 1..Len(s) \/ i = Len(s) + 1
  BY <1>1
<1> HIDE DEF t
<1>5. IsInjective(t)
  BY <1>1, <1>2, <1>3, <1>4 DEF IsInjective
<1>6. Range(t) = Range(s) \cup {r}
  BY <1>1, <1>4 DEF Range
<1> QED
  BY <1>1, <1>5, <1>6 DEF Line, t

\* Two lines without a request in common make one.
LEMMA LinesJoined ==
    ASSUME NEW s \in Line, NEW t \in Line, Range(s) \cap Range(t) = {}
    PROVE  IsInjective(s \o t)
<1> DEFINE u == s \o t
           n == Len(s)
           m == Len(t)
<1>1. /\ n \in Nat /\ m \in Nat /\ DOMAIN s = 1..n /\ DOMAIN t = 1..m /\ DOMAIN u = 1..(n + m)
      /\ \A i \in 1..n : u[i] = s[i]
      /\ \A i \in 1..(n + m) : i > n => u[i] = t[i - n] /\ i - n \in 1..m
  <2>1. s \in Seq(Requests) /\ t \in Seq(Requests)
    BY DEF Line
  <2> QED
    BY <2>1
<1>2. /\ \A i, j \in 1..n : s[i] = s[j] => i = j
      /\ \A i, j \in 1..m : t[i] = t[j] => i = j
      /\ \A i \in 1..n, j \in 1..m : s[i] # t[j]
  <2>1. IsInjective(s) /\ IsInjective(t)
    BY DEF Line
  <2>2. \A i \in 1..n, j \in 1..m : s[i] # t[j]
    BY <1>1 DEF Range
  <2> HIDE DEF n, m
  <2> QED
    BY <1>1, <2>1, <2>2 DEF IsInjective
<1> HIDE DEF u, n, m
<1> SUFFICES ASSUME NEW i \in 1..(n + m), NEW j \in 1..(n + m), u[i] = u[j]
             PROVE  i = j
  BY <1>1 DEF IsInjective, u
<1>3. CASE i <= n /\ j <= n
  <2>1. i \in 1..n /\ j \in 1..n
    BY <1>1, <1>3
  <2> QED
    BY <1>1, <1>2, <2>1
<1>4. CASE i > n /\ j > n
  <2>1. t[i - n] = t[j - n] /\ i - n \in 1..m /\ j - n \in 1..m
    BY <1>1, <1>4
  <2>2. i - n = j - n
    BY <1>2, <2>1
  <2> QED
    BY <1>1, <2>2
<1>5. CASE i <= n /\ j > n
  <2>1. i \in 1..n /\ j - n \in 1..m /\ s[i] = t[j - n]
    BY <1>1, <1>5
  <2> QED
    BY <1>2, <2>1
<1>6. CASE i > n /\ j <= n
  <2>1. j \in 1..n /\ i - n \in 1..m /\ s[j] = t[i - n]
    BY <1>1, <1>6
  <2> QED
    BY <1>2, <2>1
<1> QED
  BY <1>1, <1>3, <1>4, <1>5, <1>6

\* The requests of S before r.
Ahead(S, r) == {q \in S : rank[q] < rank[r]}

\* A finite set of requests has as many places as requests, one each, in the
\* order of rank.
LEMMA PlacesFilled ==
    ASSUME NEW S \in SUBSET Requests
    PROVE  \E s \in [1..Cardinality(S) -> S] :
               \A i, j \in 1..Cardinality(S) : i < j => rank[s[i]] < rank[s[j]]
<1> DEFINE n == Cardinality(S)
           place == [r \in S |-> Cardinality(Ahead(S, r)) + 1]
<1>1. IsFiniteSet(S) /\ n \in Nat
  BY TradeAssumption, FS_Subset, FS_CardinalityType
<1>2. \A r \in S : rank[r] \in Nat
  BY TradeAssumption
<1> HIDE DEF n
<1>3. ASSUME NEW r \in S
      PROVE  /\ IsFiniteSet(Ahead(S, r)) /\ Cardinality(Ahead(S, r)) \in Nat
             /\ Cardinality(Ahead(S, r)) < n
  <2>1. Ahead(S, r) \in SUBSET S /\ r \notin Ahead(S, r)
    BY <1>2 DEF Ahead
  <2>2. /\ IsFiniteSet(Ahead(S, r)) /\ Cardinality(Ahead(S, r)) <= Cardinality(S)
        /\ Cardinality(S) = Cardinality(Ahead(S, r)) => S = Ahead(S, r)
    BY <1>1, <2>1, FS_Subset
  <2>3. Cardinality(Ahead(S, r)) \in Nat
    BY <2>2, FS_CardinalityType
  <2>4. S # Ahead(S, r)
    BY <2>1
  <2> QED
    BY <1>1, <2>2, <2>3, <2>4 DEF n
<1>4. ASSUME NEW q \in S, NEW r \in S, rank[q] < rank[r]
      PROVE  Cardinality(Ahead(S, q)) < Cardinality(Ahead(S, r))
  <2>1. Ahead(S, q) \in SUBSET Ahead(S, r) /\ q \in Ahead(S, r) /\ q \notin Ahead(S, q)
    BY <1>2, <1>4 DEF Ahead
  <2>2. /\ Cardinality(Ahead(S, q)) <= Cardinality(Ahead(S, r))
        /\ Cardinality(Ahead(S, r)) = Cardinality(Ahead(S, q)) => Ahead(S, r) = Ahead(S, q)
    BY <1>3, <2>1, FS_Subset
  <2> QED
    BY <1>3, <2>1, <2>2
<1>5. place \in [S -> 1..n]
  BY <1>1, <1>3
<1>6. \A q, r \in S : rank[q] < rank[r] => place[q] < place[r]
  BY <1>3, <1>4
<1> HIDE DEF place
<1>7. \A q, r \in S : place[q] = place[r] => q = r
  <2> SUFFICES ASSUME NEW q \in S, NEW r \in S, place[q] = place[r] PROVE q = r
    OBVIOUS
  <2>1. place[q] \in Int /\ place[r] \in Int /\ rank[q] \in Nat /\ rank[r] \in Nat
    BY <1>2, <1>5
  <2>2. rank[q] = rank[r]
    BY <1>6, <2>1
  <2> QED
    BY <2>2, TradeAssumption
<1>8. place \in Surjection(S, 1..n)
  <2>1. place \in Injection(S, 1..n)
    BY <1>5, <1>7 DEF Injection, IsInjective
  <2>2. IsFiniteSet(1..n) /\ Cardinality(1..n) = n
    BY <1>1, FS_Interval
  <2> QED
    BY <2>1, <2>2, FS_Injection DEF n
<1>9. \A i \in 1..n : \E r \in S : place[r] = i
  BY <1>8 DEF Surjection
<1> DEFINE s == [i \in 1..n |-> CHOOSE r \in S : place[r] = i]
<1>10. \A i \in 1..n : s[i] \in S /\ place[s[i]] = i
  BY <1>9
<1>11. s \in [1..n -> S]
  BY <1>10
<1> HIDE DEF s
<1>12. ASSUME NEW i \in 1..n, NEW j \in 1..n, i < j PROVE rank[s[i]] < rank[s[j]]
  <2>1. s[i] \in S /\ s[j] \in S /\ place[s[i]] = i /\ place[s[j]] = j
    BY <1>10
  <2>2. rank[s[i]] \in Nat /\ rank[s[j]] \in Nat
    BY <1>2, <2>1
  <2>3. ~(rank[s[j]] < rank[s[i]])
    BY <1>6, <1>12, <2>1
  <2>4. rank[s[i]] # rank[s[j]]
    BY <1>12, <2>1, TradeAssumption
  <2> QED
    BY <2>2, <2>3, <2>4
<1> QED
  BY <1>11, <1>12 DEF n

\* Proposals are put in line, each once.
LEMMA OrderedIsLine ==
    ASSUME NEW S \in SUBSET Requests
    PROVE  Ordered(S) \in Line /\ Range(Ordered(S)) = S
<1> DEFINE n == Cardinality(S)
           s == Ordered(S)
<1>1. /\ s \in [1..n -> S]
      /\ \A i, j \in 1..n : i < j => rank[s[i]] < rank[s[j]]
  BY PlacesFilled, Zenon DEF Ordered
<1>2. IsFiniteSet(S) /\ n \in Nat
  BY TradeAssumption, FS_Subset, FS_CardinalityType
<1> HIDE DEF n, s
<1>3. IsInjective(s)
  <2> SUFFICES ASSUME NEW i \in 1..n, NEW j \in 1..n, s[i] = s[j] PROVE i = j
    BY <1>1 DEF IsInjective
  <2>1. rank[s[i]] \in Nat /\ rank[s[j]] \in Nat
    BY <1>1, TradeAssumption
  <2> QED
    BY <1>1, <1>2, <2>1
<1>4. s \in Seq(Requests)
  <2>1. s \in [1..n -> Requests]
    BY <1>1
  <2> QED
    BY <1>2, <2>1
<1>5. Range(s) = S
  <2>1. s \in Injection(1..n, S)
    BY <1>1, <1>3 DEF Injection
  <2>2. Cardinality(1..n) = n
    BY <1>2, FS_Interval
  <2>3. s \in Surjection(1..n, S)
    BY <1>2, <2>1, <2>2, FS_Injection DEF n
  <2>4. DOMAIN s = 1..n /\ \A x \in S : \E i \in 1..n : s[i] = x
    BY <1>1, <2>3 DEF Surjection
  <2> QED
    BY <1>1, <2>4 DEF Range
<1> QED
  BY <1>3, <1>4, <1>5 DEF Line, s

-----------------------------------------------------------------------------
(* The replay: its invariant.  What it says of the books is said of their    *)
(* values, so that a step can be followed from the old ones to the new.      *)

OpenOf(l) == {r \in Requests : l[r].status = "OPEN"}
ClosedOf(l) == {r \in Requests : l[r].status = "CLOSED"}
FillAt(o, r) == o.close + trade[r].side * Slip

SignedOf == [r \in Requests |-> SignedLot(r)]
MadeOf(l) == [r \in Requests |-> SignedLot(r) * (l[r].exit - l[r].entry)]

\* What each lot cost, those of B at the fill of candle o.
CostOf(l, o, B) == [r \in Requests |-> SignedLot(r) * (IF r \in B THEN FillAt(o, r) ELSE l[r].entry)]

\* The account holds the open lots and what was bought of B.
AccountIs(n, c, l, o, B) ==
    /\ n = Across(SignedOf, OpenOf(l) \cup B)
    /\ c = equity + Across(MadeOf(l), ClosedOf(l)) - Across(CostOf(l, o, B), OpenOf(l) \cup B)

\* Capacity is committed to the open lots and to E, and reserved for W.
BooksAgree(L, l, E, W) ==
    /\ With(L, "COMMITTED") = OpenOf(l) \cup E
    /\ With(L, "RESERVED") = W

MasterShape ==
    /\ candle \in 0..MaxBarriers
    /\ row \in Rows
    /\ phase \in {"NEXT", "OPEN", "CLOSE", "DECIDE", "RESERVE", "ARBITRATE",
                  "EXECUTE", "REGISTER", "ABORTED"}
    /\ queue \in Line /\ passed \in Line /\ Range(queue) \cap Range(passed) = {}
    /\ reservations \in [Requests -> Record]
    /\ lots \in [Requests -> Lot]
    /\ net \in Int /\ cash \in Int

\* A lot was opened by now and on the right side of its stop; a closed one gave
\* its capacity back; what is under way has none yet.
LotsKnown ==
    /\ \A r \in Requests :
          /\ lots[r].opened <= candle
          /\ lots[r].status = "OPEN" => trade[r].side * trade[r].stop < trade[r].side * trade[r].target
          /\ lots[r].status = "CLOSED" => reservations[r].status = "RELEASED"
    /\ \A r \in Range(queue) \cup Range(passed) : lots[r].status = "NONE"

\* How far the books have got with the trades of the candle.
Agrees(E, W, B) == BooksAgree(reservations, lots, E, W) /\ AccountIs(net, cash, lots, row, B)
StageAgrees ==
    /\ InStep => queue = <<>> /\ passed = <<>> /\ Agrees({}, {}, {})
    /\ phase = "RESERVE" => Range(queue) \subseteq With(reservations, "ABSENT") /\ Agrees({}, Range(passed), {})
    /\ phase = "ARBITRATE" => Agrees(Range(passed), Range(queue), {})
    /\ phase = "EXECUTE" => Agrees(Range(passed) \cup Range(queue), {}, Range(passed))
    /\ phase = "REGISTER" => passed = <<>> /\ Agrees(Range(queue), {}, Range(queue))

MasterInv == MasterShape /\ LotsKnown /\ StageAgrees /\ StopsHonoured /\ CapacityOf(reservations)

\* The numbers a trade is made of.
LEMMA TradeNumbers ==
    ASSUME NEW r \in Requests
    PROVE  /\ trade[r].side \in {1, -1} /\ trade[r].side \in Int /\ trade[r].qty \in Nat
           /\ trade[r].stop \in Nat /\ trade[r].target \in Nat
           /\ Slip \in Nat /\ SignedLot(r) \in Int
           /\ \A o \in Rows : /\ o.open \in Nat /\ o.high \in Nat /\ o.low \in Nat /\ o.close \in Nat
                              /\ FillAt(o, r) \in Int
<1>1. trade[r] \in [side: {1, -1}, qty: Nat, stop: Nat, target: Nat] /\ Slip \in Nat
  BY TradeAssumption
<1>2. trade[r].side \in {1, -1} /\ trade[r].qty \in Nat /\ trade[r].stop \in Nat /\ trade[r].target \in Nat
  BY <1>1
<1>3. trade[r].side \in Int
  BY <1>2
<1>4. SignedLot(r) \in Int
  BY <1>2, <1>3 DEF SignedLot
<1>5. ASSUME NEW o \in Rows
      PROVE  /\ o.open \in Nat /\ o.high \in Nat /\ o.low \in Nat /\ o.close \in Nat
             /\ FillAt(o, r) \in Int
  <2>1. o \in [open: Nat, high: Nat, low: Nat, close: Nat]
    BY TradeAssumption
  <2>2. o.open \in Nat /\ o.high \in Nat /\ o.low \in Nat /\ o.close \in Nat
    BY <2>1
  <2> QED
    BY <1>1, <1>3, <2>2 DEF FillAt
<1> QED
  BY <1>1, <1>2, <1>3, <1>4, <1>5

\* What is added up is integers.
LEMMA AccountNumbers ==
    ASSUME NEW l \in [Requests -> Lot], NEW o \in Rows, NEW B
    PROVE  /\ SignedOf \in [Requests -> Int] /\ MadeOf(l) \in [Requests -> Int]
           /\ CostOf(l, o, B) \in [Requests -> Int]
           /\ OpenOf(l) \in SUBSET Requests /\ ClosedOf(l) \in SUBSET Requests
<1>1. \A r \in Requests : l[r].entry \in Int /\ l[r].exit \in Int
  BY DEF Lot
<1>2. \A r \in Requests : SignedLot(r) \in Int /\ FillAt(o, r) \in Int
  BY TradeNumbers
<1>3. SignedOf \in [Requests -> Int]
  BY <1>2 DEF SignedOf
<1>4. MadeOf(l) \in [Requests -> Int]
  BY <1>1, <1>2 DEF MadeOf
<1>5. CostOf(l, o, B) \in [Requests -> Int]
  BY <1>1, <1>2 DEF CostOf
<1>6. OpenOf(l) \in SUBSET Requests /\ ClosedOf(l) \in SUBSET Requests
  BY DEF OpenOf, ClosedOf
<1> QED
  BY <1>3, <1>4, <1>5, <1>6

\* A new candle changes no cost while nothing is being bought.
LEMMA AccountAnyRow ==
    ASSUME NEW n, NEW c, NEW l \in [Requests -> Lot], NEW o \in Rows, NEW p \in Rows,
           AccountIs(n, c, l, o, {})
    PROVE  AccountIs(n, c, l, p, {})
<1>1. CostOf(l, o, {}) = CostOf(l, p, {})
  BY DEF CostOf
<1> QED
  BY <1>1, Zenon DEF AccountIs

\* An entry is bought.
LEMMA AccountBuys ==
    ASSUME NEW n \in Int, NEW c \in Int, NEW l \in [Requests -> Lot], NEW o \in Rows, NEW B \in SUBSET Requests,
           NEW r \in Requests \ (OpenOf(l) \cup B), AccountIs(n, c, l, o, B)
    PROVE  AccountIs(n + SignedLot(r), c - SignedLot(r) * FillAt(o, r), l, o, B \cup {r})
<1> DEFINE S == OpenOf(l) \cup B
           old == CostOf(l, o, B)
           after == CostOf(l, o, B \cup {r})
           made == Across(MadeOf(l), ClosedOf(l))
<1>1. /\ S \in SUBSET Requests /\ r \in Requests \ S /\ S \cup {r} = OpenOf(l) \cup (B \cup {r})
      /\ SignedOf \in [Requests -> Int] /\ old \in [Requests -> Int] /\ after \in [Requests -> Int]
      /\ made \in Int
  BY AccountNumbers, AcrossMore
<1>2. /\ SignedOf[r] = SignedLot(r) /\ after[r] = SignedLot(r) * FillAt(o, r)
      /\ SignedLot(r) \in Int /\ FillAt(o, r) \in Int
  BY TradeNumbers DEF SignedOf, CostOf
<1>3. \A q \in S : old[q] = after[q]
  BY <1>1 DEF CostOf
<1>4. n = Across(SignedOf, S) /\ c = equity + made - Across(old, S)
  BY DEF AccountIs
<1> HIDE DEF S, old, after, made
<1>5. Across(SignedOf, S \cup {r}) = Across(SignedOf, S) + SignedLot(r)
  BY <1>1, <1>2, AcrossMore
<1>6. Across(after, S) = Across(old, S)
  BY <1>1, <1>3, AcrossSame
<1>7. /\ Across(after, S \cup {r}) = Across(after, S) + SignedLot(r) * FillAt(o, r)
      /\ Across(after, S) \in Int
  BY <1>1, <1>2, AcrossMore
<1>8. equity \in Int /\ SignedLot(r) * FillAt(o, r) \in Int
  BY <1>2, RequestAssumption
<1>9. n + SignedLot(r) = Across(SignedOf, S \cup {r})
  BY <1>4, <1>5
<1>10. c - SignedLot(r) * FillAt(o, r) = equity + made - Across(after, S \cup {r})
  BY <1>1, <1>4, <1>6, <1>7, <1>8
<1> QED
  BY <1>1, <1>9, <1>10 DEF AccountIs, made, after, S

\* The lots after r left at price x.
LotsAfterExit(l, r, x) == [l EXCEPT ![r].status = "CLOSED", ![r].exit = x]

\* A lot is sold.
LEMMA AccountSells ==
    ASSUME NEW n \in Int, NEW c \in Int, NEW l \in [Requests -> Lot], NEW o \in Rows,
           NEW r \in OpenOf(l), NEW x \in Int, AccountIs(n, c, l, o, {})
    PROVE  /\ LotsAfterExit(l, r, x) \in [Requests -> Lot]
           /\ OpenOf(LotsAfterExit(l, r, x)) = OpenOf(l) \ {r}
           /\ AccountIs(n - SignedLot(r), c + SignedLot(r) * x, LotsAfterExit(l, r, x), o, {})
<1> DEFINE m == LotsAfterExit(l, r, x)
           S == OpenOf(l)
           T == ClosedOf(l)
           cost == CostOf(l, o, {})
           costs == CostOf(m, o, {})
           made == MadeOf(l)
           makes == MadeOf(m)
           a == SignedLot(r)
           e == l[r].entry
<1>1. r \in Requests /\ l[r] \in Lot /\ l[r].status = "OPEN"
  BY DEF OpenOf
<1>2. /\ m \in [Requests -> Lot]
      /\ m[r].status = "CLOSED" /\ m[r].exit = x /\ m[r].entry = e
      /\ \A q \in Requests \ {r} : m[q] = l[q]
  BY <1>1 DEF LotsAfterExit, Lot
<1> HIDE DEF m
<1>3. OpenOf(m) = S \ {r} /\ ClosedOf(m) = T \cup {r} /\ r \in S /\ r \in Requests \ T
  BY <1>1, <1>2 DEF OpenOf, ClosedOf
<1>4. /\ SignedOf \in [Requests -> Int] /\ cost \in [Requests -> Int] /\ costs \in [Requests -> Int]
      /\ made \in [Requests -> Int] /\ makes \in [Requests -> Int]
      /\ S \in SUBSET Requests /\ T \in SUBSET Requests
  BY <1>2, AccountNumbers
<1>5. a \in Int /\ e \in Int
  BY <1>1, TradeNumbers DEF Lot
<1>6. SignedOf[r] = a /\ cost[r] = a * e /\ makes[r] = a * (x - e)
  BY <1>1, <1>2 DEF SignedOf, CostOf, MadeOf
<1>7. (\A q \in S \ {r} : cost[q] = costs[q]) /\ (\A q \in T : made[q] = makes[q])
  BY <1>2, <1>3, <1>4 DEF CostOf, MadeOf
<1>8. S \cup {} = S
  OBVIOUS
<1>9. n = Across(SignedOf, S) /\ c = equity + Across(made, T) - Across(cost, S)
  BY <1>8 DEF AccountIs
<1> HIDE DEF S, T, cost, costs, made, makes, a, e
<1>10. Across(SignedOf, S \ {r}) = Across(SignedOf, S) - a
  BY <1>3, <1>4, <1>6, AcrossLess
<1>11. S \ {r} \in SUBSET Requests
  BY <1>4
<1>12. /\ Across(costs, S \ {r}) = Across(cost, S) - a * e
       /\ Across(cost, S) \in Int
  <2>1. Across(cost, S \ {r}) = Across(cost, S) - a * e
    BY <1>3, <1>4, <1>6, AcrossLess
  <2>2. Across(cost, S \ {r}) = Across(costs, S \ {r})
    BY <1>4, <1>7, <1>11, AcrossSame
  <2>3. Across(cost, S) \in Int
    BY <1>4, AcrossMore
  <2> QED
    BY <2>1, <2>2, <2>3
<1>13. /\ Across(makes, T \cup {r}) = Across(made, T) + a * (x - e)
       /\ Across(made, T) \in Int
  <2>1. Across(makes, T \cup {r}) = Across(makes, T) + a * (x - e)
    BY <1>3, <1>4, <1>6, AcrossMore
  <2>2. Across(made, T) = Across(makes, T)
    BY <1>4, <1>7, AcrossSame
  <2>3. Across(made, T) \in Int
    BY <1>4, AcrossMore
  <2> QED
    BY <2>1, <2>2, <2>3
<1>14. a * (x - e) = a * x - a * e /\ a * x \in Int /\ a * e \in Int /\ equity \in Int
  BY <1>5, RequestAssumption
<1>15. c + a * x = equity + Across(makes, T \cup {r}) - Across(costs, S \ {r})
  BY <1>9, <1>12, <1>13, <1>14
<1>16. (S \ {r}) \cup {} = S \ {r}
  OBVIOUS
<1>17. AccountIs(n - a, c + a * x, m, o, {})
  <2>1. n - a = Across(SignedOf, OpenOf(m) \cup {})
    BY <1>3, <1>9, <1>10, <1>16 DEF S
  <2>2. c + a * x = equity + Across(MadeOf(m), ClosedOf(m)) - Across(CostOf(m, o, {}), OpenOf(m) \cup {})
    BY <1>3, <1>15, <1>16 DEF S, T, makes, costs
  <2> QED
    BY <2>1, <2>2 DEF AccountIs
<1> QED
  BY <1>2, <1>3, <1>17 DEF m, S, a

\* The lots after those of S were registered on candle t, filled at row o.
LotsAfterEntry(l, S, o, t) ==
    [r \in Requests |-> IF r \in S THEN [status |-> "OPEN", entry |-> FillAt(o, r), opened |-> t, exit |-> 0]
                                   ELSE l[r]]

\* What was bought becomes lots.
LEMMA AccountRegisters ==
    ASSUME NEW n \in Int, NEW c \in Int, NEW l \in [Requests -> Lot], NEW o \in Rows, NEW t \in Nat,
           NEW S \in SUBSET Requests, \A r \in S : l[r].status = "NONE", AccountIs(n, c, l, o, S)
    PROVE  /\ LotsAfterEntry(l, S, o, t) \in [Requests -> Lot]
           /\ OpenOf(LotsAfterEntry(l, S, o, t)) = OpenOf(l) \cup S
           /\ AccountIs(n, c, LotsAfterEntry(l, S, o, t), o, {})
<1> DEFINE m == LotsAfterEntry(l, S, o, t)
           U == OpenOf(l) \cup S
           cost == CostOf(l, o, S)
           costs == CostOf(m, o, {})
           made == MadeOf(l)
           makes == MadeOf(m)
<1>1. m \in [Requests -> Lot]
  <2>1. \A r \in Requests : FillAt(o, r) \in Int
    BY TradeNumbers
  <2> QED
    BY <2>1 DEF LotsAfterEntry, Lot
<1>2. /\ \A r \in S : m[r].status = "OPEN" /\ m[r].entry = FillAt(o, r)
      /\ \A r \in Requests \ S : m[r] = l[r]
  BY DEF LotsAfterEntry
<1> HIDE DEF m
<1>3. OpenOf(m) = U /\ ClosedOf(m) = ClosedOf(l) /\ \A r \in ClosedOf(l) : r \in Requests \ S
  BY <1>2 DEF OpenOf, ClosedOf
<1>4. /\ cost \in [Requests -> Int] /\ costs \in [Requests -> Int]
      /\ made \in [Requests -> Int] /\ makes \in [Requests -> Int]
      /\ U \in SUBSET Requests /\ ClosedOf(l) \in SUBSET Requests
  BY <1>1, AccountNumbers
<1>5. \A r \in U : cost[r] = costs[r]
  <2>1. \A r \in S : cost[r] = costs[r]
    BY <1>2 DEF CostOf
  <2>2. \A r \in Requests \ S : cost[r] = costs[r]
    BY <1>2 DEF CostOf
  <2> QED
    BY <1>4, <2>1, <2>2
<1>6. \A r \in ClosedOf(l) : made[r] = makes[r]
  BY <1>2, <1>3 DEF MadeOf
<1>7. Across(cost, U) = Across(costs, U)
  <2> HIDE DEF cost, costs, U
  <2> QED
    BY <1>4, <1>5, AcrossSame
<1>8. Across(made, ClosedOf(l)) = Across(makes, ClosedOf(l))
  <2> HIDE DEF made, makes
  <2> QED
    BY <1>4, <1>6, AcrossSame
<1>9. n = Across(SignedOf, U) /\ c = equity + Across(made, ClosedOf(l)) - Across(cost, U)
  BY DEF AccountIs
<1>10. AccountIs(n, c, m, o, {})
  <2>1. OpenOf(m) \cup {} = U
    BY <1>3
  <2> QED
    BY <1>3, <1>7, <1>8, <1>9, <2>1, Zenon DEF AccountIs
<1> QED
  BY <1>1, <1>3, <1>10 DEF m

-----------------------------------------------------------------------------
(* The replay: each step keeps the invariant *)

\* The next candle opens.
LEMMA NextBarrierKeeps ==
    ASSUME MasterInv, NEW o \in Rows, NextBarrier(o)
    PROVE  MasterInv'
<1>1. /\ phase = "NEXT" /\ phase' = "OPEN" /\ candle' = candle + 1 /\ row' = o /\ candle < MaxBarriers
      /\ queue' = queue /\ passed' = passed /\ reservations' = reservations
      /\ lots' = lots /\ net' = net /\ cash' = cash
  BY DEF NextBarrier
<1>2. /\ candle \in Nat /\ candle <= MaxBarriers /\ MaxBarriers \in Nat /\ row \in Rows
      /\ lots \in [Requests -> Lot]
  BY TradeAssumption DEF MasterInv, MasterShape
<1>3. queue = <<>> /\ passed = <<>> /\ BooksAgree(reservations, lots, {}, {}) /\ AccountIs(net, cash, lots, row, {})
  BY <1>1 DEF MasterInv, StageAgrees, InStep, Agrees
<1>4. MasterShape'
  <2>1. candle' \in 0..MaxBarriers
    BY <1>1, <1>2
  <2> QED
    BY <1>1, <2>1 DEF MasterInv, MasterShape
<1>5. LotsKnown'
  <2>1. \A r \in Requests : lots[r].opened <= candle /\ lots[r].opened \in Nat
    BY <1>2 DEF MasterInv, LotsKnown, Lot
  <2>2. \A r \in Requests : lots[r].opened <= candle + 1
    BY <1>2, <2>1
  <2> QED
    BY <1>1, <2>2 DEF MasterInv, LotsKnown
<1>6. StageAgrees'
  <2>1. AccountIs(net, cash, lots, o, {})
    BY <1>2, <1>3, AccountAnyRow
  <2> QED
    BY <1>1, <1>3, <2>1 DEF StageAgrees, InStep, Agrees
<1>7. StopsHonoured' /\ CapacityOf(reservations')
  BY <1>1 DEF MasterInv, StopsHonoured
<1> QED
  BY <1>4, <1>5, <1>6, <1>7 DEF MasterInv

\* What a lot of an older candle did not reach.
LEMMA NothingReached ==
    ASSUME row \in Rows, NEW r \in Requests, LotResolution(r).reason = "NONE"
    PROVE  /\ ~LotResolution(r).gap
           /\ ~Reached(-trade[r].side, WorstPrice(trade[r].side), trade[r].stop)
           /\ ~Reached(trade[r].side, BestPrice(trade[r].side), trade[r].target)
BY DEF LotResolution, NoLotExit

\* A gap is a reason to leave.
LEMMA GapLeaves ==
    ASSUME NEW r \in Requests, LotResolution(r).gap
    PROVE  LotResolution(r).reason # "NONE"
BY DEF LotResolution, NoLotExit

\* The open is through.
LEMMA OpenDoneKeeps ==
    ASSUME MasterInv, OpenDone
    PROVE  MasterInv'
<1>1. /\ phase = "OPEN" /\ phase' = "CLOSE" /\ Leaving = {} /\ candle' = candle /\ row' = row
      /\ queue' = queue /\ passed' = passed /\ reservations' = reservations
      /\ lots' = lots /\ net' = net /\ cash' = cash
  BY DEF OpenDone
<1>2. \A r \in Requests : Older(r) => ~LotResolution(r).gap
  BY <1>1, GapLeaves DEF Leaving
<1>3. \A r \in Requests : (Older(r) <=> Older(r)') /\ LotResolution(r)' = LotResolution(r)
  BY <1>1 DEF Older, LotResolution, WorstPrice, BestPrice
<1>4. StopsHonoured'
  BY <1>1, <1>2, <1>3 DEF StopsHonoured
<1>5. MasterShape'
  BY <1>1 DEF MasterInv, MasterShape
<1>6. LotsKnown'
  BY <1>1 DEF MasterInv, LotsKnown
<1>7. StageAgrees'
  BY <1>1 DEF MasterInv, StageAgrees, InStep, Agrees
<1> QED
  BY <1>1, <1>4, <1>5, <1>6, <1>7 DEF MasterInv

\* The candle is through.
LEMMA CloseDoneKeeps ==
    ASSUME MasterInv, CloseDone
    PROVE  MasterInv'
<1>1. /\ phase = "CLOSE" /\ phase' = "DECIDE" /\ Leaving = {} /\ candle' = candle /\ row' = row
      /\ queue' = queue /\ passed' = passed /\ reservations' = reservations
      /\ lots' = lots /\ net' = net /\ cash' = cash
  BY DEF CloseDone
<1>2. ASSUME NEW r \in OpenLots, lots[r].opened < candle
      PROVE  /\ ~Reached(-trade[r].side, WorstPrice(trade[r].side), trade[r].stop)
             /\ ~Reached(trade[r].side, BestPrice(trade[r].side), trade[r].target)
  <2>1. r \in Requests /\ Older(r)
    BY <1>2 DEF OpenLots, Older
  <2>2. LotResolution(r).reason = "NONE"
    BY <1>1, <2>1 DEF Leaving
  <2> QED
    BY <2>1, <2>2, NothingReached DEF MasterInv, MasterShape
<1>3. \A s \in Int : WorstPrice(s)' = WorstPrice(s) /\ BestPrice(s)' = BestPrice(s)
  BY <1>1 DEF WorstPrice, BestPrice
<1>4. StopsHonoured'
  <2>1. \A r \in OpenLots' : r \in OpenLots /\ trade[r].side \in Int
    BY <1>1, TradeNumbers DEF OpenLots
  <2> QED
    BY <1>1, <1>2, <1>3, <2>1 DEF StopsHonoured
<1>5. MasterShape'
  BY <1>1 DEF MasterInv, MasterShape
<1>6. LotsKnown'
  BY <1>1 DEF MasterInv, LotsKnown
<1>7. StageAgrees'
  BY <1>1 DEF MasterInv, StageAgrees, InStep, Agrees
<1> QED
  BY <1>1, <1>4, <1>5, <1>6, <1>7 DEF MasterInv

\* A lot that leaves fills at a price.
LEMMA ExitPrice ==
    ASSUME row \in Rows, NEW r \in Requests
    PROVE  LotResolution(r).price \in Int /\ ExitFill(r) \in Int
<1>1. /\ trade[r].side \in Int /\ trade[r].stop \in Int /\ trade[r].target \in Int /\ Slip \in Int
      /\ row.open \in Int
  BY TradeNumbers
<1>2. LotResolution(r).price \in Int
  BY <1>1 DEF LotResolution, NoLotExit
<1> QED
  BY <1>1, <1>2 DEF ExitFill

\* A lot leaves: the account is paid and the capacity comes back.
LEMMA ExitLotKeeps ==
    ASSUME MasterInv, NEW r \in Requests, ExitLot(r)
    PROVE  MasterInv'
<1> DEFINE x == ExitFill(r)
<1>1. /\ phase \in {"OPEN", "CLOSE"} /\ phase' = phase /\ r \in Leaving /\ candle' = candle /\ row' = row
      /\ queue' = queue /\ passed' = passed
      /\ reservations' = Released(reservations, r, candle, 0)
      /\ lots' = LotsAfterExit(lots, r, x)
      /\ net' = net - SignedLot(r) /\ cash' = cash + SignedLot(r) * x
  BY DEF ExitLot, LotsAfterExit, NetAfterExit
<1>2. /\ candle \in Nat /\ row \in Rows /\ lots \in [Requests -> Lot] /\ net \in Int /\ cash \in Int
      /\ reservations \in [Requests -> Record]
  BY TradeAssumption DEF MasterInv, MasterShape
<1>3. queue = <<>> /\ passed = <<>> /\ BooksAgree(reservations, lots, {}, {}) /\ AccountIs(net, cash, lots, row, {})
  BY <1>1 DEF MasterInv, StageAgrees, InStep, Agrees
<1>4. r \in OpenOf(lots) /\ lots[r].opened < candle
  BY <1>1 DEF Leaving, Older, OpenOf
<1>5. x \in Int /\ SignedLot(r) \in Int
  BY <1>2, ExitPrice, TradeNumbers
<1> HIDE DEF x
<1>6. /\ lots' \in [Requests -> Lot] /\ OpenOf(lots') = OpenOf(lots) \ {r}
      /\ AccountIs(net', cash', lots', row', {})
  <2>1. /\ LotsAfterExit(lots, r, x) \in [Requests -> Lot]
        /\ OpenOf(LotsAfterExit(lots, r, x)) = OpenOf(lots) \ {r}
        /\ AccountIs(net - SignedLot(r), cash + SignedLot(r) * x, LotsAfterExit(lots, r, x), row, {})
    BY <1>2, <1>3, <1>4, <1>5, AccountSells
  <2> QED
    BY <1>1, <2>1, Zenon
<1>7. /\ reservations' \in [Requests -> Record]
      /\ With(reservations', "COMMITTED") = With(reservations, "COMMITTED") \ {r}
      /\ With(reservations', "RESERVED") = With(reservations, "RESERVED") \ {r}
  BY <1>1, <1>2, ReleasedSets, PoolSets
<1>8. MasterShape'
  <2>1. net' \in Int /\ cash' \in Int
    BY <1>1, <1>2, <1>5
  <2> QED
    BY <1>1, <1>6, <1>7, <2>1 DEF MasterInv, MasterShape
<1>9. /\ lots'[r].status = "CLOSED" /\ lots'[r].opened = lots[r].opened /\ lots'[r].exit = x
      /\ \A q \in Requests \ {r} : lots'[q] = lots[q]
  BY <1>1, <1>2 DEF LotsAfterExit, Lot
<1>10. LotsKnown'
  <2>1. /\ reservations'[r].status = "RELEASED"
        /\ \A q \in Requests \ {r} : reservations'[q] = reservations[q]
    BY <1>1, <1>2 DEF Released, Record
  <2>2. Range(queue') \cup Range(passed') = {}
    BY <1>1, <1>3 DEF Range
  <2>3. \A q \in Requests :
          /\ lots'[q].opened <= candle'
          /\ lots'[q].status = "OPEN" => trade[q].side * trade[q].stop < trade[q].side * trade[q].target
          /\ lots'[q].status = "CLOSED" => reservations'[q].status = "RELEASED"
    BY <1>1, <1>9, <2>1 DEF MasterInv, LotsKnown
  <2> QED
    BY <2>2, <2>3 DEF LotsKnown
<1>11. StageAgrees'
  <2>1. BooksAgree(reservations', lots', {}, {})
    BY <1>3, <1>6, <1>7 DEF BooksAgree
  <2> QED
    BY <1>1, <1>3, <1>6, <2>1 DEF StageAgrees, InStep, Agrees
<1>12. StopsHonoured'
  <2>1. \A q \in Requests : LotResolution(q)' = LotResolution(q)
    BY <1>1 DEF LotResolution, WorstPrice, BestPrice
  <2>2. \A q \in Requests : Older(q)' => Older(q)
    BY <1>1, <1>9 DEF Older
  <2> QED
    BY <1>1, <2>1, <2>2 DEF MasterInv, StopsHonoured
<1>13. CapacityOf(reservations')
  BY <1>1, <1>2, CapacityRelease DEF MasterInv
<1> QED
  BY <1>8, <1>10, <1>11, <1>12, <1>13 DEF MasterInv

\* Each crew proposes.
LEMMA ProposeKeeps ==
    ASSUME MasterInv, NEW P \in SUBSET Requests, ProposeTrades(P)
    PROVE  MasterInv'
<1>1. /\ phase = "DECIDE" /\ phase' = "RESERVE" /\ candle' = candle /\ row' = row
      /\ queue' = Ordered(P) /\ passed' = passed /\ reservations' = reservations
      /\ lots' = lots /\ net' = net /\ cash' = cash
      /\ \A r \in P : reservations[r].status = "ABSENT"
  BY DEF ProposeTrades
<1>2. passed = <<>> /\ BooksAgree(reservations, lots, {}, {}) /\ AccountIs(net, cash, lots, row, {})
  BY <1>1 DEF MasterInv, StageAgrees, InStep, Agrees
<1>3. queue' \in Line /\ Range(queue') = P /\ Range(passed') = {}
  BY <1>1, <1>2, OrderedIsLine DEF Range
<1>4. MasterShape'
  BY <1>1, <1>3 DEF MasterInv, MasterShape
<1>5. LotsKnown'
  <2>1. ASSUME NEW r \in P PROVE lots[r].status = "NONE"
    <3>1. reservations[r].status = "ABSENT" /\ r \notin OpenOf(lots)
      BY <1>1, <1>2 DEF BooksAgree, With
    <3>2. lots[r].status \in {"NONE", "OPEN", "CLOSED"}
      BY DEF MasterInv, MasterShape, Lot
    <3> QED
      BY <3>1, <3>2 DEF MasterInv, LotsKnown, OpenOf
  <2> QED
    BY <1>1, <1>3, <2>1 DEF MasterInv, LotsKnown
<1>6. StageAgrees'
  <2>1. Range(queue') \subseteq With(reservations', "ABSENT")
    BY <1>1, <1>3 DEF With
  <2>2. Agrees({}, Range(passed), {})'
    BY <1>1, <1>2, <1>3 DEF Agrees
  <2> QED
    BY <1>1, <2>1, <2>2 DEF StageAgrees, InStep
<1>7. StopsHonoured' /\ CapacityOf(reservations')
  BY <1>1 DEF MasterInv, StopsHonoured
<1> QED
  BY <1>4, <1>5, <1>6, <1>7 DEF MasterInv

\* A phase of the decisions is over: what it passed on is the next one's queue.
LEMMA PhaseDoneKeeps ==
    ASSUME MasterInv, PhaseDone
    PROVE  MasterInv'
<1>1. /\ phase \in {"RESERVE", "ARBITRATE", "EXECUTE"} /\ phase' = Following[phase]
      /\ queue = <<>> /\ queue' = passed /\ passed' = <<>> /\ candle' = candle /\ row' = row
      /\ reservations' = reservations /\ lots' = lots /\ net' = net /\ cash' = cash
  BY DEF PhaseDone, Following
<1>2. /\ phase = "RESERVE" => phase' = "ARBITRATE"
      /\ phase = "ARBITRATE" => phase' = "EXECUTE"
      /\ phase = "EXECUTE" => phase' = "REGISTER"
  BY <1>1 DEF Following
<1>3. Range(queue) = {} /\ Range(passed') = {} /\ Range(queue') = Range(passed) /\ passed' \in Line
  BY <1>1 DEF Range, Line, IsInjective
<1>4. MasterShape'
  BY <1>1, <1>2, <1>3 DEF MasterInv, MasterShape
<1>5. LotsKnown'
  BY <1>1, <1>3 DEF MasterInv, LotsKnown
<1>6. StageAgrees'
  <2>1. CASE phase = "RESERVE"
    <3>1. Agrees(Range(passed), Range(queue), {})'
      BY <1>1, <1>3, <2>1 DEF MasterInv, StageAgrees, Agrees
    <3> QED
      BY <1>2, <2>1, <3>1 DEF StageAgrees, InStep
  <2>2. CASE phase = "ARBITRATE"
    <3>1. Range(passed') \cup Range(queue') = Range(passed)
      BY <1>3
    <3>2. Agrees(Range(passed) \cup Range(queue), {}, Range(passed))'
      BY <1>1, <1>3, <2>2, <3>1 DEF MasterInv, StageAgrees, Agrees
    <3> QED
      BY <1>2, <2>2, <3>2 DEF StageAgrees, InStep
  <2>3. CASE phase = "EXECUTE"
    <3>1. Range(passed) \cup Range(queue) = Range(queue')
      BY <1>3
    <3>2. Agrees(Range(queue), {}, Range(queue))'
      BY <1>1, <1>3, <2>3, <3>1 DEF MasterInv, StageAgrees, Agrees
    <3> QED
      BY <1>1, <1>2, <2>3, <3>2 DEF StageAgrees, InStep
  <2> QED
    BY <1>1, <2>1, <2>2, <2>3
<1>7. StopsHonoured' /\ CapacityOf(reservations')
  BY <1>1, <1>2 DEF MasterInv, StopsHonoured
<1> QED
  BY <1>4, <1>5, <1>6, <1>7 DEF MasterInv

\* A proposal reserves what fits.
LEMMA ReserveKeeps ==
    ASSUME MasterInv, ReserveNext
    PROVE  MasterInv'
<1> DEFINE r == Head(queue)
<1>1. /\ phase = "RESERVE" /\ phase' = "RESERVE" /\ candle' = candle /\ row' = row
      /\ lots' = lots /\ net' = net /\ cash' = cash
      /\ queue # <<>> /\ queue' = Tail(queue)
  BY DEF ReserveNext, Processed
<1>2. /\ candle \in Nat /\ row \in Rows /\ queue \in Line /\ passed \in Line
      /\ Range(queue) \cap Range(passed) = {}
      /\ reservations \in [Requests -> Record] /\ CapacityOf(reservations)
  BY TradeAssumption DEF MasterInv, MasterShape
<1>3. /\ r \in Requests /\ r \in Range(queue)
      /\ Tail(queue) \in Line /\ Range(Tail(queue)) = Range(queue) \ {r}
  BY <1>1, <1>2, HeadLeaves
<1>4. /\ Range(queue) \subseteq With(reservations, "ABSENT")
      /\ BooksAgree(reservations, lots, {}, Range(passed)) /\ AccountIs(net, cash, lots, row, {})
  BY <1>1 DEF MasterInv, StageAgrees, Agrees
<1>5. reservations[r].status = "ABSENT" /\ r \notin Range(passed)
  BY <1>2, <1>3, <1>4 DEF With
<1>6. CASE Fits(reservations, r)
  <2>1. passed' = Append(passed, r) /\ reservations' = Reserved(reservations, r, candle)
    BY <1>6 DEF ReserveNext, Processed
  <2>2. passed' \in Line /\ Range(passed') = Range(passed) \cup {r}
    BY <1>2, <1>3, <1>5, <2>1, LineJoined
  <2>3. /\ reservations' \in [Requests -> Record]
        /\ With(reservations', "COMMITTED") = With(reservations, "COMMITTED")
        /\ With(reservations', "RESERVED") = With(reservations, "RESERVED") \cup {r}
    BY <1>2, <1>3, <1>5, <2>1, ReservedSets, PoolSets
  <2>4. CapacityOf(reservations')
    BY <1>2, <1>3, <1>5, <1>6, <2>1, CapacityReserve
  <2>5. \A q \in Requests \ {r} : reservations'[q] = reservations[q]
    BY <1>2, <2>1 DEF Reserved
  <2> HIDE DEF r
  <2>6. MasterShape'
    BY <1>1, <1>2, <1>3, <2>2, <2>3 DEF MasterInv, MasterShape
  <2>7. LotsKnown'
    <3>1. lots[r].status = "NONE"
      BY <1>3 DEF MasterInv, LotsKnown
    <3>2. Range(queue') \cup Range(passed') \subseteq Range(queue) \cup Range(passed)
      BY <1>1, <1>3, <2>2
    <3> QED
      BY <1>1, <2>5, <3>1, <3>2 DEF MasterInv, LotsKnown
  <2>8. StageAgrees'
    <3>1. Range(queue') \subseteq With(reservations', "ABSENT")
      BY <1>1, <1>3, <1>4, <2>5 DEF With
    <3>2. BooksAgree(reservations', lots', {}, Range(passed'))
      BY <1>1, <1>4, <2>2, <2>3 DEF BooksAgree
    <3> QED
      BY <1>1, <1>4, <3>1, <3>2 DEF StageAgrees, InStep, Agrees
  <2> QED
    BY <1>1, <2>4, <2>6, <2>7, <2>8 DEF MasterInv, StopsHonoured
<1>7. CASE ~Fits(reservations, r)
  <2>1. passed' = passed /\ reservations' = reservations
    BY <1>7 DEF ReserveNext, Processed
  <2> HIDE DEF r
  <2>2. Range(queue') \subseteq Range(queue)
    BY <1>1, <1>3
  <2>3. MasterShape'
    BY <1>1, <1>2, <1>3, <2>1, <2>2 DEF MasterInv, MasterShape
  <2>4. LotsKnown'
    BY <1>1, <2>1, <2>2 DEF MasterInv, LotsKnown
  <2>5. StageAgrees'
    BY <1>1, <1>4, <2>1, <2>2 DEF StageAgrees, InStep, Agrees
  <2> QED
    BY <1>1, <2>1, <2>3, <2>4, <2>5 DEF MasterInv, StopsHonoured
<1> QED
  BY <1>6, <1>7

\* A reservation is admitted, or given back.
LEMMA ArbitrateKeeps ==
    ASSUME MasterInv, ArbitrateNext
    PROVE  MasterInv'
<1> DEFINE r == Head(queue)
<1>1. /\ phase = "ARBITRATE" /\ phase' = "ARBITRATE" /\ candle' = candle /\ row' = row
      /\ lots' = lots /\ net' = net /\ cash' = cash
      /\ queue # <<>> /\ queue' = Tail(queue)
  BY DEF ArbitrateNext, Processed
<1>2. /\ candle \in Nat /\ 0 \in Nat /\ row \in Rows /\ queue \in Line /\ passed \in Line
      /\ Range(queue) \cap Range(passed) = {}
      /\ reservations \in [Requests -> Record] /\ CapacityOf(reservations)
  BY TradeAssumption DEF MasterInv, MasterShape
<1>3. /\ r \in Requests /\ r \in Range(queue)
      /\ Tail(queue) \in Line /\ Range(Tail(queue)) = Range(queue) \ {r}
  BY <1>1, <1>2, HeadLeaves
<1>4. BooksAgree(reservations, lots, Range(passed), Range(queue)) /\ AccountIs(net, cash, lots, row, {})
  BY <1>1 DEF MasterInv, StageAgrees, Agrees
<1>5. reservations[r].status = "RESERVED" /\ r \notin Range(passed) /\ lots[r].status = "NONE"
  BY <1>2, <1>3, <1>4 DEF BooksAgree, With, MasterInv, LotsKnown
<1>6. CASE GateAdmits(reservations, before, r)
  <2>1. passed' = Append(passed, r) /\ reservations' = Committed(reservations, r, candle, 0)
    BY <1>6 DEF ArbitrateNext, Processed
  <2>2. passed' \in Line /\ Range(passed') = Range(passed) \cup {r}
    BY <1>2, <1>3, <1>5, <2>1, LineJoined
  <2>3. /\ reservations' \in [Requests -> Record]
        /\ With(reservations', "COMMITTED") = With(reservations, "COMMITTED") \cup {r}
        /\ With(reservations', "RESERVED") = With(reservations, "RESERVED") \ {r}
    BY <1>2, <1>3, <1>5, <2>1, CommittedSets, PoolSets
  <2>4. CapacityOf(reservations')
    BY <1>2, <1>3, <1>5, <2>1, CapacityCommit
  <2>5. \A q \in Requests \ {r} : reservations'[q] = reservations[q]
    BY <1>2, <2>1 DEF Committed
  <2> HIDE DEF r
  <2>6. MasterShape'
    BY <1>1, <1>2, <1>3, <2>2, <2>3 DEF MasterInv, MasterShape
  <2>7. LotsKnown'
    <3>1. Range(queue') \cup Range(passed') \subseteq Range(queue) \cup Range(passed)
      BY <1>1, <1>3, <2>2
    <3> QED
      BY <1>1, <1>5, <2>5, <3>1 DEF MasterInv, LotsKnown
  <2>8. StageAgrees'
    <3>1. BooksAgree(reservations', lots', Range(passed'), Range(queue'))
      BY <1>1, <1>3, <1>4, <2>2, <2>3 DEF BooksAgree
    <3> QED
      BY <1>1, <1>4, <3>1 DEF StageAgrees, InStep, Agrees
  <2> QED
    BY <1>1, <2>4, <2>6, <2>7, <2>8 DEF MasterInv, StopsHonoured
<1>7. CASE ~GateAdmits(reservations, before, r)
  <2>1. passed' = passed /\ reservations' = Released(reservations, r, candle, 0)
    BY <1>7 DEF ArbitrateNext, Processed
  <2>2. /\ reservations' \in [Requests -> Record]
        /\ With(reservations', "COMMITTED") = With(reservations, "COMMITTED") \ {r}
        /\ With(reservations', "RESERVED") = With(reservations, "RESERVED") \ {r}
    BY <1>2, <1>3, <2>1, ReleasedSets, PoolSets
  <2>3. CapacityOf(reservations')
    BY <1>2, <1>3, <2>1, CapacityRelease
  <2>4. \A q \in Requests \ {r} : reservations'[q] = reservations[q]
    BY <1>2, <2>1 DEF Released
  <2> HIDE DEF r
  <2>5. Range(queue') \subseteq Range(queue)
    BY <1>1, <1>3
  <2>6. MasterShape'
    BY <1>1, <1>2, <1>3, <2>1, <2>2, <2>5 DEF MasterInv, MasterShape
  <2>7. LotsKnown'
    BY <1>1, <1>5, <2>1, <2>4, <2>5 DEF MasterInv, LotsKnown
  <2>8. StageAgrees'
    <3>1. r \notin With(reservations, "COMMITTED")
      BY <1>5 DEF With
    <3>2. BooksAgree(reservations', lots', Range(passed'), Range(queue'))
      BY <1>1, <1>3, <1>4, <2>1, <2>2, <3>1 DEF BooksAgree
    <3> QED
      BY <1>1, <1>4, <3>2 DEF StageAgrees, InStep, Agrees
  <2> QED
    BY <1>1, <2>3, <2>6, <2>7, <2>8 DEF MasterInv, StopsHonoured
<1> QED
  BY <1>6, <1>7

\* A market order fills and the account pays, or the capacity is given back.
LEMMA ExecuteKeeps ==
    ASSUME MasterInv, ExecuteNext
    PROVE  MasterInv'
<1> DEFINE r == Head(queue)
<1>1. /\ phase = "EXECUTE" /\ phase' = "EXECUTE" /\ candle' = candle /\ row' = row
      /\ lots' = lots /\ queue # <<>> /\ queue' = Tail(queue)
  BY DEF ExecuteNext, Processed
<1>2. /\ candle \in Nat /\ 0 \in Nat /\ row \in Rows /\ queue \in Line /\ passed \in Line
      /\ Range(queue) \cap Range(passed) = {}
      /\ reservations \in [Requests -> Record] /\ CapacityOf(reservations)
      /\ lots \in [Requests -> Lot] /\ net \in Int /\ cash \in Int
  BY TradeAssumption DEF MasterInv, MasterShape
<1>3. /\ r \in Requests /\ r \in Range(queue)
      /\ Tail(queue) \in Line /\ Range(Tail(queue)) = Range(queue) \ {r}
  BY <1>1, <1>2, HeadLeaves
<1>4. /\ BooksAgree(reservations, lots, Range(passed) \cup Range(queue), {})
      /\ AccountIs(net, cash, lots, row, Range(passed))
  BY <1>1 DEF MasterInv, StageAgrees, Agrees
<1>5. r \notin Range(passed) /\ lots[r].status = "NONE" /\ r \notin OpenOf(lots)
  BY <1>2, <1>3 DEF MasterInv, LotsKnown, OpenOf
<1>6. CASE Affordable(r)
  <2>1. /\ passed' = Append(passed, r) /\ reservations' = reservations
        /\ net' = net + SignedLot(r) /\ cash' = cash - SignedLot(r) * FillAt(row, r)
    BY <1>6 DEF ExecuteNext, Processed, FillAt
  <2>2. passed' \in Line /\ Range(passed') = Range(passed) \cup {r}
    BY <1>2, <1>3, <1>5, <2>1, LineJoined
  <2>3. Range(passed) \in SUBSET Requests
    BY <1>2 DEF Line, Range
  <2>4. SignedLot(r) \in Int /\ FillAt(row, r) \in Int
    BY <1>2, <1>3, TradeNumbers
  <2> HIDE DEF r
  <2>5. AccountIs(net', cash', lots', row', Range(passed'))
    <3>1. AccountIs(net + SignedLot(r), cash - SignedLot(r) * FillAt(row, r), lots, row, Range(passed) \cup {r})
      BY <1>2, <1>3, <1>4, <1>5, <2>3, AccountBuys
    <3> QED
      BY <1>1, <2>1, <2>2, <3>1, Zenon
  <2>6. Range(passed') \cup Range(queue') = Range(passed) \cup Range(queue)
    BY <1>1, <1>3, <2>2
  <2>7. MasterShape'
    <3>1. net' \in Int /\ cash' \in Int
      BY <1>2, <2>1, <2>4
    <3>2. Range(queue') \cap Range(passed') = {}
      BY <1>1, <1>2, <1>3, <2>2
    <3> QED
      BY <1>1, <1>2, <1>3, <2>1, <2>2, <3>1, <3>2 DEF MasterInv, MasterShape
  <2>8. LotsKnown'
    BY <1>1, <2>1, <2>6 DEF MasterInv, LotsKnown
  <2>9. StageAgrees'
    <3>1. BooksAgree(reservations', lots', Range(passed') \cup Range(queue'), {})
      BY <1>1, <1>4, <2>1, <2>6 DEF BooksAgree
    <3> QED
      BY <1>1, <2>5, <3>1 DEF StageAgrees, InStep, Agrees
  <2> QED
    BY <1>1, <1>2, <2>1, <2>7, <2>8, <2>9 DEF MasterInv, StopsHonoured
<1>7. CASE ~Affordable(r)
  <2>1. /\ passed' = passed /\ reservations' = Released(reservations, r, candle, 0)
        /\ net' = net /\ cash' = cash
    BY <1>7 DEF ExecuteNext, Processed, Vetoed
  <2>2. /\ reservations' \in [Requests -> Record]
        /\ With(reservations', "COMMITTED") = With(reservations, "COMMITTED") \ {r}
        /\ With(reservations', "RESERVED") = With(reservations, "RESERVED") \ {r}
    BY <1>2, <1>3, <2>1, ReleasedSets, PoolSets
  <2>3. CapacityOf(reservations')
    BY <1>2, <1>3, <2>1, CapacityRelease
  <2>4. \A q \in Requests \ {r} : reservations'[q] = reservations[q]
    BY <1>2, <2>1 DEF Released
  <2> HIDE DEF r
  <2>5. Range(queue') \subseteq Range(queue)
    BY <1>1, <1>3
  <2>6. MasterShape'
    BY <1>1, <1>2, <1>3, <2>1, <2>2, <2>5 DEF MasterInv, MasterShape
  <2>7. LotsKnown'
    BY <1>1, <1>5, <2>1, <2>4, <2>5 DEF MasterInv, LotsKnown
  <2>8. StageAgrees'
    <3>1. BooksAgree(reservations', lots', Range(passed') \cup Range(queue'), {})
      BY <1>1, <1>3, <1>4, <1>5, <2>1, <2>2 DEF BooksAgree
    <3> QED
      BY <1>1, <1>4, <2>1, <3>1 DEF StageAgrees, InStep, Agrees
  <2> QED
    BY <1>1, <2>3, <2>6, <2>7, <2>8 DEF MasterInv, StopsHonoured
<1> QED
  BY <1>6, <1>7

\* What was filled becomes lots, or ends the replay.
LEMMA RegisterKeeps ==
    ASSUME MasterInv, RegisterLots
    PROVE  MasterInv'
<1> DEFINE S == Range(queue)
<1>1. /\ phase = "REGISTER" /\ queue' = <<>> /\ passed' = passed /\ candle' = candle /\ row' = row
      /\ reservations' = reservations /\ net' = net /\ cash' = cash
  BY DEF RegisterLots
<1>2. /\ candle \in Nat /\ row \in Rows /\ queue \in Line
      /\ lots \in [Requests -> Lot] /\ net \in Int /\ cash \in Int
  BY TradeAssumption DEF MasterInv, MasterShape
<1>3. passed = <<>> /\ BooksAgree(reservations, lots, S, {}) /\ AccountIs(net, cash, lots, row, S)
  BY <1>1 DEF MasterInv, StageAgrees, Agrees
<1>4. S \in SUBSET Requests /\ \A r \in S : lots[r].status = "NONE"
  BY <1>2 DEF Line, Range, MasterInv, LotsKnown
<1>5. queue' \in Line /\ Range(queue') = {} /\ Range(passed') = {}
  BY <1>1, <1>3 DEF Line, IsInjective, Range
<1>6. CASE \A r \in S : Valid(r)
  <2>1. phase' = "NEXT" /\ lots' = LotsAfterEntry(lots, S, row, candle)
    BY <1>6 DEF RegisterLots, LotsAfterEntry, EntryFill, FillAt
  <2>2. \A r \in S : trade[r].side * trade[r].stop < trade[r].side * trade[r].target
    <3> SUFFICES ASSUME NEW r \in S
                 PROVE  trade[r].side * trade[r].stop < trade[r].side * trade[r].target
      OBVIOUS
    <3>1. /\ trade[r].side \in {1, -1} /\ trade[r].stop \in Nat /\ trade[r].target \in Nat
          /\ EntryFill(r) \in Int
      BY <1>2, <1>4, TradeNumbers DEF EntryFill, FillAt
    <3>2. Valid(r)
      BY <1>6
    <3> QED
      BY <3>1, <3>2 DEF Valid, Reached
  <2> HIDE DEF S
  <2>3. /\ lots' \in [Requests -> Lot] /\ OpenOf(lots') = OpenOf(lots) \cup S
        /\ AccountIs(net', cash', lots', row', {})
    <3>1. /\ LotsAfterEntry(lots, S, row, candle) \in [Requests -> Lot]
          /\ OpenOf(LotsAfterEntry(lots, S, row, candle)) = OpenOf(lots) \cup S
          /\ AccountIs(net, cash, LotsAfterEntry(lots, S, row, candle), row, {})
      BY <1>2, <1>3, <1>4, AccountRegisters
    <3> QED
      BY <1>1, <2>1, <3>1, Zenon
  <2>4. MasterShape'
    BY <1>1, <1>5, <2>1, <2>3 DEF MasterInv, MasterShape
  <2>5. LotsKnown'
    <3>1. /\ \A r \in S : lots'[r].status = "OPEN" /\ lots'[r].opened = candle
          /\ \A r \in Requests \ S : lots'[r] = lots[r]
      BY <1>4, <2>1 DEF LotsAfterEntry
    <3>2. ASSUME NEW r \in Requests
          PROVE  /\ lots'[r].opened <= candle'
                 /\ lots'[r].status = "OPEN" => trade[r].side * trade[r].stop < trade[r].side * trade[r].target
                 /\ lots'[r].status = "CLOSED" => reservations'[r].status = "RELEASED"
      <4>1. CASE r \in S
        BY <1>1, <1>2, <2>2, <3>1, <4>1
      <4>2. CASE r \notin S
        BY <1>1, <3>1, <4>2 DEF MasterInv, LotsKnown
      <4> QED
        BY <4>1, <4>2
    <3> QED
      BY <1>5, <3>2 DEF LotsKnown
  <2>6. StageAgrees'
    <3>1. BooksAgree(reservations', lots', {}, {})
      BY <1>1, <1>3, <2>3 DEF BooksAgree
    <3> QED
      BY <1>1, <1>3, <2>1, <2>3, <3>1 DEF StageAgrees, InStep, Agrees
  <2> QED
    BY <1>1, <2>1, <2>4, <2>5, <2>6 DEF MasterInv, StopsHonoured
<1>7. CASE ~\A r \in S : Valid(r)
  <2>1. phase' = "ABORTED" /\ lots' = lots
    BY <1>7 DEF RegisterLots
  <2>2. MasterShape'
    BY <1>1, <1>5, <2>1 DEF MasterInv, MasterShape
  <2>3. LotsKnown'
    BY <1>1, <1>5, <2>1 DEF MasterInv, LotsKnown
  <2>4. StageAgrees'
    BY <2>1 DEF StageAgrees, InStep
  <2> QED
    BY <1>1, <2>1, <2>2, <2>3, <2>4 DEF MasterInv, StopsHonoured
<1> QED
  BY <1>6, <1>7

-----------------------------------------------------------------------------
(* The replay: what holds throughout *)

\* The account opens flat, with the opening capital.
LEMMA MasterStart == MasterInit => MasterInv
<1> SUFFICES ASSUME MasterInit PROVE MasterInv
  OBVIOUS
<1>1. /\ candle = 0 /\ row \in Rows /\ phase = "NEXT" /\ queue = <<>> /\ passed = <<>>
      /\ reservations = [r \in Requests |-> NoRecord] /\ lots = [r \in Requests |-> NoLot]
      /\ net = 0 /\ cash = equity
  BY DEF MasterInit
<1>2. <<>> \in Line /\ Range(<<>>) = {}
  BY DEF Line, IsInjective, Range
<1>3. /\ \A r \in Requests : reservations[r].status = "ABSENT" /\ lots[r].status = "NONE"
      /\ reservations \in [Requests -> Record] /\ lots \in [Requests -> Lot]
      /\ \A r \in Requests : lots[r].opened = 0
  BY <1>1 DEF NoRecord, NoLot, Record, Lot, Statuses
<1>4. MasterShape
  BY <1>1, <1>2, <1>3, TradeAssumption, RequestAssumption DEF MasterShape
<1>5. LotsKnown
  BY <1>1, <1>2, <1>3 DEF LotsKnown
<1>6. /\ OpenOf(lots) = {} /\ ClosedOf(lots) = {}
      /\ With(reservations, "COMMITTED") = {} /\ With(reservations, "RESERVED") = {}
  BY <1>3 DEF OpenOf, ClosedOf, With
<1>7. AccountIs(net, cash, lots, row, {})
  <2>1. Across(SignedOf, {}) = 0 /\ Across(MadeOf(lots), {}) = 0 /\ Across(CostOf(lots, row, {}), {}) = 0
    <3>1. /\ SignedOf \in [Requests -> Int] /\ MadeOf(lots) \in [Requests -> Int]
          /\ CostOf(lots, row, {}) \in [Requests -> Int] /\ {} \in SUBSET Requests
      BY <1>1, <1>3, AccountNumbers
    <3> QED
      BY <3>1, AcrossMore, Zenon
  <2>2. {} \cup {} = {} /\ equity \in Int
    BY RequestAssumption
  <2>3. net = Across(SignedOf, OpenOf(lots) \cup {})
    BY <1>1, <1>6, <2>1, <2>2
  <2>4. cash = equity + Across(MadeOf(lots), ClosedOf(lots)) - Across(CostOf(lots, row, {}), OpenOf(lots) \cup {})
    <3>1. Across(MadeOf(lots), ClosedOf(lots)) = 0 /\ Across(CostOf(lots, row, {}), OpenOf(lots) \cup {}) = 0
      BY <1>6, <2>1, <2>2, Zenon
    <3> QED
      BY <1>1, <2>2, <3>1
  <2> QED
    BY <2>3, <2>4 DEF AccountIs
<1>8. StageAgrees
  <2>1. BooksAgree(reservations, lots, {}, {})
    BY <1>6 DEF BooksAgree
  <2>2. Agrees({}, {}, {})
    BY <1>7, <2>1 DEF Agrees
  <2> QED
    BY <1>1, <2>2 DEF StageAgrees, InStep
<1>9. StopsHonoured
  BY <1>1 DEF StopsHonoured
<1>10. CapacityOf(reservations)
  <2>1. Active(reservations) = {} /\ \A c \in Crews : OfCrew(c, Active(reservations)) = {}
    BY <1>6 DEF Active, OfCrew
  <2>2. \A a \in Amounts : Sum(a, {}) = 0
    BY SumAssumption
  <2>3. "capital" \in Amounts /\ equity \in Nat /\ \A c \in Crews, a \in Amounts : ceiling[c][a] \in Nat
    BY RequestAssumption DEF Amounts
  <2> QED
    BY <2>1, <2>2, <2>3 DEF CapacityOf
<1> QED
  BY <1>4, <1>5, <1>8, <1>9, <1>10 DEF MasterInv

\* Every step keeps it.
LEMMA MasterStepKeeps == MasterInv /\ [MasterNext]_masterVars => MasterInv'
<1> SUFFICES ASSUME MasterInv, [MasterNext]_masterVars PROVE MasterInv'
  OBVIOUS
<1>1. CASE UNCHANGED masterVars
  <2>1. /\ candle' = candle /\ row' = row /\ phase' = phase /\ queue' = queue /\ passed' = passed
        /\ reservations' = reservations /\ lots' = lots /\ net' = net /\ cash' = cash
    BY <1>1 DEF masterVars
  <2>2. MasterShape' /\ LotsKnown' /\ CapacityOf(reservations')
    BY <2>1 DEF MasterInv, MasterShape, LotsKnown
  <2>3. StageAgrees'
    BY <2>1 DEF MasterInv, StageAgrees, Agrees, InStep
  <2>4. StopsHonoured'
    <3>1. /\ OpenLots' = OpenLots
          /\ \A r \in Requests : (Older(r)' <=> Older(r)) /\ LotResolution(r)' = LotResolution(r)
          /\ \A s \in Int : WorstPrice(s)' = WorstPrice(s) /\ BestPrice(s)' = BestPrice(s)
      BY <2>1 DEF OpenLots, Older, LotResolution, WorstPrice, BestPrice
    <3>2. \A r \in OpenLots : r \in Requests /\ trade[r].side \in Int
      BY TradeNumbers DEF OpenLots
    <3> QED
      BY <2>1, <3>1, <3>2 DEF MasterInv, StopsHonoured
  <2> QED
    BY <2>2, <2>3, <2>4 DEF MasterInv
<1>2. CASE Finished
  BY <1>1, <1>2 DEF Finished
<1>3. CASE \E o \in Rows : NextBarrier(o)
  BY <1>3, NextBarrierKeeps
<1>4. CASE \E r \in Requests : ExitLot(r)
  BY <1>4, ExitLotKeeps
<1>5. CASE \E P \in SUBSET Requests : ProposeTrades(P)
  BY <1>5, ProposeKeeps
<1> QED
  BY <1>1, <1>2, <1>3, <1>4, <1>5, OpenDoneKeeps, CloseDoneKeeps, PhaseDoneKeeps, ReserveKeeps,
     ArbitrateKeeps, ExecuteKeeps, RegisterKeeps DEF MasterNext

\* What the Master's books promise follows.
LEMMA MasterInvImplies == MasterInv => LotsHold
<1> SUFFICES ASSUME MasterInv PROVE LotsHold
  OBVIOUS
<1>1. MasterTypeOK
  <2>1. /\ queue \in Line /\ passed \in Line /\ Range(passed) \cap Range(queue) = {}
        /\ queue \in Seq(Requests) /\ passed \in Seq(Requests)
    BY DEF MasterInv, MasterShape, Line
  <2>2. IsInjective(passed \o queue)
    BY <2>1, LinesJoined
  <2> QED
    BY <2>1, <2>2 DEF MasterInv, MasterShape, MasterTypeOK
<1>2. ASSUME InStep
      PROVE  BooksAgree(reservations, lots, {}, {}) /\ AccountIs(net, cash, lots, row, {})
  BY <1>2 DEF MasterInv, StageAgrees, Agrees
<1>3. OpenOf(lots) = OpenLots /\ OpenOf(lots) \cup {} = OpenLots /\ ClosedOf(lots) = ClosedLots
  BY DEF OpenOf, ClosedOf, OpenLots, ClosedLots
<1>4. /\ SignedOf = [r \in Requests |-> SignedLot(r)]
      /\ MadeOf(lots) = [r \in Requests |-> SignedLot(r) * (lots[r].exit - lots[r].entry)]
      /\ CostOf(lots, row, {}) = [r \in Requests |-> SignedLot(r) * lots[r].entry]
  BY DEF SignedOf, MadeOf, CostOf
<1>5. NetMatchesLots /\ CrewsOwnTheAccount
  <2> SUFFICES ASSUME InStep
               PROVE  /\ net = Across([r \in Requests |-> SignedLot(r)], OpenLots)
                      /\ cash = equity
                           + Across([r \in Requests |-> SignedLot(r) * (lots[r].exit - lots[r].entry)], ClosedLots)
                           - Across([r \in Requests |-> SignedLot(r) * lots[r].entry], OpenLots)
    BY DEF NetMatchesLots, CrewsOwnTheAccount
  <2>1. /\ net = Across(SignedOf, OpenLots)
        /\ cash = equity + Across(MadeOf(lots), ClosedLots) - Across(CostOf(lots, row, {}), OpenLots)
    BY <1>2, <1>3, Zenon DEF AccountIs
  <2> QED
    BY <1>4, <2>1, Zenon
<1>6. LotsBacked
  BY <1>2, <1>3 DEF LotsBacked, BooksAgree
<1>7. StopsHonoured
  BY DEF MasterInv
<1> QED
  BY <1>1, <1>5, <1>6, <1>7 DEF LotsHold

\* Between barriers the one account, the reservation ledger and the crews' lots
\* say the same, after any mix of entries, exits, vetoes and candles; no lot
\* outlives a candle that reached its stop.
THEOREM LotsAlwaysHold == MasterSpec => []LotsHold
BY MasterStart, MasterStepKeeps, MasterInvImplies, PTL DEF MasterSpec

\* What a lot may do in one step.
LeavesAdversely(r) ==
    (lots[r].status = "OPEN" /\ lots'[r].status = "CLOSED") =>
        /\ lots[r].opened < candle
        /\ (/\ Reached(-trade[r].side, WorstPrice(trade[r].side), trade[r].stop)
            /\ ~Reached(trade[r].side, row.open, trade[r].target)) =>
              ~Reached(trade[r].side, lots'[r].exit, trade[r].target)

\* A lot whose candle reached both leaves short of its target.
LEMMA ExitStepAdverse ==
    ASSUME MasterInv, NEW r \in Requests, ExitLot(r)
    PROVE  \A q \in Requests : LeavesAdversely(q)
<1>1. /\ Older(r) /\ row \in Rows /\ lots \in [Requests -> Lot]
      /\ lots' = LotsAfterExit(lots, r, ExitFill(r))
  BY DEF ExitLot, Leaving, LotsAfterExit, MasterInv, MasterShape
<1>2. lots'[r].exit = ExitFill(r) /\ \A q \in Requests \ {r} : lots'[q] = lots[q]
  BY <1>1 DEF LotsAfterExit, Lot
<1>3. /\ trade[r].side \in {1, -1} /\ trade[r].side \in Int /\ trade[r].stop \in Int /\ trade[r].target \in Int
      /\ Slip \in Nat /\ row.open \in Int
      /\ WorstPrice(trade[r].side) \in Int /\ BestPrice(trade[r].side) \in Int
  BY <1>1, TradeNumbers DEF WorstPrice, BestPrice
<1>4. trade[r].side * trade[r].stop < trade[r].side * trade[r].target /\ lots[r].opened < candle
  BY <1>1 DEF MasterInv, LotsKnown, Older
<1>5. ASSUME Reached(-trade[r].side, WorstPrice(trade[r].side), trade[r].stop),
             ~Reached(trade[r].side, row.open, trade[r].target)
      PROVE  ~Reached(trade[r].side, ExitFill(r), trade[r].target)
  <2>1. /\ LotResolution(r).reason = "STOP"
        /\ LotResolution(r).price \in {row.open, trade[r].stop}
    BY <1>5 DEF LotResolution
  <2>2. ExitFill(r) \in {row.open - trade[r].side * Slip, trade[r].stop - trade[r].side * Slip}
    BY <2>1 DEF ExitFill
  <2>3. trade[r].side * row.open < trade[r].side * trade[r].target
    BY <1>3, <1>5 DEF Reached
  <2>4. CASE trade[r].side = 1
    BY <1>3, <1>4, <2>2, <2>3, <2>4 DEF Reached
  <2>5. CASE trade[r].side = -1
    BY <1>3, <1>4, <2>2, <2>3, <2>5 DEF Reached
  <2> QED
    BY <1>3, <2>4, <2>5
<1> QED
  BY <1>2, <1>4, <1>5 DEF LeavesAdversely

\* Crews are never credited with the better of two prices the candle reached.
THEOREM ExitsAdverseFirst == MasterSpec => AdverseFirst
<1>1. MasterInv /\ [MasterNext]_masterVars => \A r \in Requests : LeavesAdversely(r)
  <2> SUFFICES ASSUME MasterInv, [MasterNext]_masterVars, ~\E r \in Requests : ExitLot(r)
               PROVE  \A r \in Requests : LeavesAdversely(r)
    BY ExitStepAdverse
  <2>1. \A r \in Requests : lots'[r] = lots[r] \/ lots'[r].status = "OPEN"
    <3>1. CASE RegisterLots
      BY <3>1 DEF RegisterLots
    <3>2. CASE ~RegisterLots
      <4>1. lots' = lots
        BY <3>2 DEF MasterNext, masterVars, NextBarrier, OpenDone, CloseDone, ProposeTrades, PhaseDone,
                    ReserveNext, ArbitrateNext, ExecuteNext, Finished
      <4> QED
        BY <4>1
    <3> QED
      BY <3>1, <3>2
  <2> QED
    BY <2>1 DEF LeavesAdversely
<1>2. [][\A r \in Requests : LeavesAdversely(r)]_masterVars => AdverseFirst
  <2>1. (\A r \in Requests : LeavesAdversely(r)) =>
            \A r \in Requests :
                (lots[r].status = "OPEN" /\ lots'[r].status = "CLOSED") =>
                    /\ lots[r].opened < candle
                    /\ (/\ Reached(-trade[r].side, WorstPrice(trade[r].side), trade[r].stop)
                        /\ ~Reached(trade[r].side, row.open, trade[r].target)) =>
                          ~Reached(trade[r].side, lots'[r].exit, trade[r].target)
    BY DEF LeavesAdversely
  <2> QED
    BY <2>1, PTL DEF AdverseFirst
<1> QED
  BY <1>1, <1>2, MasterStart, MasterStepKeeps, PTL DEF MasterSpec

-----------------------------------------------------------------------------
(* The replay: the ledger is used as the capacity pool promises *)

\* A proposal that fits takes capacity.
LEMMA ReplayTakes ==
    ASSUME MasterInv, NEW r \in Requests, reservations[r].status = "ABSENT", Fits(reservations, r),
           reservations' = Reserved(reservations, r, candle)
    PROVE  ReplayPool!Take(r)
<1>1. reservations \in [Requests -> Record] /\ candle \in Nat /\ CapacityOf(reservations)
  BY TradeAssumption DEF MasterInv, MasterShape
<1>2. /\ Active(reservations') = Active(reservations) \cup {r}
      /\ With(reservations', "COMMITTED") = With(reservations, "COMMITTED")
  BY <1>1, ReservedSets
<1>3. /\ r \notin With(reservations, "RESERVED") \cup With(reservations, "COMMITTED") \cup With(reservations, "RELEASED")
      /\ With(reservations', "RESERVED") = With(reservations, "RESERVED") \cup {r}
      /\ With(reservations', "RELEASED") = With(reservations, "RELEASED")
  BY <1>1, PoolSets
<1>4. CapacityOf(reservations')
  BY <1>1, CapacityReserve
<1>5. Active(reservations') = With(reservations, "RESERVED") \cup With(reservations, "COMMITTED") \cup {r}
  BY <1>2 DEF Active
<1>6. request[r].crew \in Crews
  BY RequestAssumption
<1>7. /\ \A a \in Amounts : Sum(a, OfCrew(request[r].crew, Active(reservations'))) <= ceiling[request[r].crew][a]
      /\ Sum("capital", Active(reservations')) <= equity
  BY <1>4, <1>6 DEF CapacityOf
<1> QED
  BY <1>2, <1>3, <1>5, <1>7
     DEF ReplayPool!Take, ReplayPool!Amounts, ReplayPool!Exposures, ReplayPool!OfCrew, Amounts, Exposures, OfCrew

\* What the gate admits is confirmed within the limits.
LEMMA ReplayConfirms ==
    ASSUME MasterInv, NEW r \in Requests, GateAdmits(reservations, before, r),
           reservations' = Committed(reservations, r, candle, 0)
    PROVE  ReplayPool!Confirm(r)
<1>1. /\ reservations \in [Requests -> Record] /\ candle \in Nat /\ 0 \in Nat
      /\ Admissible(reservations, r) /\ reservations[r].status = "RESERVED"
  BY GateAdmissible, TradeAssumption DEF MasterInv, MasterShape, Admissible
<1>2. With(reservations', "COMMITTED") = With(reservations, "COMMITTED") \cup {r}
  BY <1>1, CommittedSets
<1>3. /\ With(reservations', "RESERVED") = With(reservations, "RESERVED") \ {r}
      /\ With(reservations', "RELEASED") = With(reservations, "RELEASED")
  BY <1>1, PoolSets
<1>4. CommittedWithinLimits(reservations')
  BY <1>1, LimitsCommit
<1>5. r \in With(reservations, "RESERVED")
  BY <1>1 DEF With
<1> QED
  BY <1>2, <1>3, <1>4, <1>5 DEF ReplayPool!Confirm, CommittedWithinLimits, ReplayPool!Exposures, Exposures

\* What is rejected, vetoed or closed goes back.
LEMMA ReplayReturns ==
    ASSUME MasterInv, NEW r \in Requests, reservations[r].status \in {"RESERVED", "COMMITTED"},
           reservations' = Released(reservations, r, candle, 0)
    PROVE  ReplayPool!Return(r)
<1>1. reservations \in [Requests -> Record] /\ candle \in Nat /\ 0 \in Nat
  BY TradeAssumption DEF MasterInv, MasterShape
<1>2. With(reservations', "COMMITTED") = With(reservations, "COMMITTED") \ {r}
  BY <1>1, ReleasedSets
<1>3. /\ With(reservations', "RESERVED") = With(reservations, "RESERVED") \ {r}
      /\ With(reservations', "RELEASED") = With(reservations, "RELEASED") \cup {r}
  BY <1>1, PoolSets
<1>4. r \in With(reservations, "RESERVED") \cup With(reservations, "COMMITTED")
  BY DEF With
<1> QED
  BY <1>2, <1>3, <1>4 DEF ReplayPool!Return

\* The head of a phase's queue is a request with the phase's status.
LEMMA HeadStatus ==
    ASSUME MasterInv, queue # <<>>
    PROVE  /\ Head(queue) \in Requests
           /\ phase = "RESERVE" => reservations[Head(queue)].status = "ABSENT"
           /\ phase = "ARBITRATE" => reservations[Head(queue)].status = "RESERVED"
<1>1. Head(queue) \in Requests /\ Head(queue) \in Range(queue)
  BY HeadLeaves DEF MasterInv, MasterShape
<1>2. phase = "RESERVE" => Range(queue) \subseteq With(reservations, "ABSENT")
  BY DEF MasterInv, StageAgrees
<1>3. phase = "ARBITRATE" => With(reservations, "RESERVED") = Range(queue)
  BY DEF MasterInv, StageAgrees, Agrees, BooksAgree
<1> QED
  BY <1>1, <1>2, <1>3 DEF With

\* The coordinated replay implements the capacity pool: the runner reserves
\* only what fits, commits only within the limits, and what a veto, a rejection
\* or an exit gives back never comes back.
THEOREM ReplayImplementsPool == MasterSpec => ReplayPoolSpec
<1>1. MasterInit => ReplayPool!Init
  <2> SUFFICES ASSUME MasterInit PROVE ReplayPool!Init
    OBVIOUS
  <2>1. \A r \in Requests : reservations[r].status = "ABSENT"
    BY DEF MasterInit, NoRecord
  <2> QED
    BY <2>1 DEF ReplayPool!Init, With
<1>2. MasterInv /\ [MasterNext]_masterVars => ReplayPoolStep
  <2> SUFFICES ASSUME MasterInv, [MasterNext]_masterVars, reservations' # reservations
               PROVE  \E r \in Requests : ReplayPool!Take(r) \/ ReplayPool!Confirm(r) \/ ReplayPool!Return(r)
    BY DEF ReplayPoolStep, ReplayPool!Next
  <2>1. ASSUME NEW r \in Requests, ExitLot(r) PROVE ReplayPool!Return(r)
    BY <2>1, ReplayReturns DEF ExitLot
  <2>2. CASE ReserveNext
    <3> DEFINE r == Head(queue)
    <3>1. /\ phase = "RESERVE" /\ queue # <<>>
          /\ Fits(reservations, r) /\ reservations' = Reserved(reservations, r, candle)
      BY <2>2 DEF ReserveNext
    <3>2. r \in Requests /\ reservations[r].status = "ABSENT"
      BY <3>1, HeadStatus
    <3> HIDE DEF r
    <3>3. ReplayPool!Take(r)
      BY <3>1, <3>2, ReplayTakes
    <3> QED
      BY <3>2, <3>3
  <2>3. CASE ArbitrateNext
    <3> DEFINE r == Head(queue)
    <3>1. /\ phase = "ARBITRATE" /\ queue # <<>>
          /\ reservations' = IF GateAdmits(reservations, before, r) THEN Committed(reservations, r, candle, 0)
                                                                    ELSE Released(reservations, r, candle, 0)
      BY <2>3 DEF ArbitrateNext
    <3>2. r \in Requests /\ reservations[r].status = "RESERVED"
      BY <3>1, HeadStatus
    <3> HIDE DEF r
    <3>3. ReplayPool!Confirm(r) \/ ReplayPool!Return(r)
      BY <3>1, <3>2, ReplayConfirms, ReplayReturns
    <3> QED
      BY <3>2, <3>3
  <2>4. CASE ExecuteNext
    <3> DEFINE r == Head(queue)
    <3>1. /\ queue # <<>> /\ reservations[r].status = "COMMITTED"
          /\ reservations' = Released(reservations, r, candle, 0)
      BY <2>4 DEF ExecuteNext, Vetoed
    <3>2. r \in Requests
      BY <3>1, HeadStatus
    <3> HIDE DEF r
    <3>3. ReplayPool!Return(r)
      BY <3>1, <3>2, ReplayReturns
    <3> QED
      BY <3>2, <3>3
  <2> QED
    BY <2>1, <2>2, <2>3, <2>4
       DEF MasterNext, masterVars, NextBarrier, OpenDone, CloseDone, ProposeTrades, PhaseDone, RegisterLots, Finished
<1> QED
  BY <1>1, <1>2, MasterStart, MasterStepKeeps, PTL DEF MasterSpec, ReplayPoolSpec

=============================================================================

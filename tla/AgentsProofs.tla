----------------------------- MODULE AgentsProofs -----------------------------
(***************************************************************************)
(* What is proved of the models and of the decisions people take with their  *)
(* advice.  First the gateway's budget and the pipeline over it, for any     *)
(* specialists, routes, prices and limit; then the replacement of the        *)
(* allocation policy (AllocationPolicy), the promotion of a candidate        *)
(* (Recruitment) and the runs of task forces (TaskForce), whatever the       *)
(* numbers of changes, processes, candidates, members and documents.         *)
(***************************************************************************)
EXTENDS Orchestration, AllocationPolicy, Recruitment, TaskForce, SetProofs

---------------------------------------------------------------------------
(* The pipeline.  GatewayInv is inductive for the calls alone: next to the   *)
(* properties it says what a call that waits or backs off may still do.      *)
(* StageInv adds which calls may be running at each stage and what was       *)
(* audited on the way there; together they are inductive for the whole.      *)

\* A call that waits or backs off is on a route, and only backs off with an
\* attempt left.
CallsOK ==
    \A c \in Calls :
        /\ call[c].pc \in {"waiting", "backoff"} => call[c].route \in 1..Routes
        /\ call[c].pc = "backoff" => call[c].attempt < MaxAttempts

GatewayInv == GatewayTypeOK /\ CallsOK /\ BudgetHeld /\ NothingLeaks /\ SpendRecorded

GatewayStep(c) == Invoke(c) \/ Retry(c) \/ Provider(c)

Running(c) == call[c].pc \in {"waiting", "backoff"}
OfStage(c) == c = run.stage \/ (At("specialists") /\ c \in run.selected)

\* Where the run is, and what its result rests on.
StageInv ==
    /\ \A c \in Calls : Running(c) => OfStage(c)
    /\ At("idle") => \A c \in Calls : call[c] = Idle
    /\ ~At("idle") => run.result = "NONE"
    /\ run.stage \in {"specialists", "palermo", "final"} =>
          /\ run.selected # {}
          /\ run.level = "MINI_CREW" => Cardinality(run.selected) <= 2
    /\ At("specialists") => run.audited = {"plan"}
    /\ At("palermo") => run.audited = {"plan"} \cup run.selected
    /\ At("final") => run.audited = {"plan", "palermo"} \cup run.selected

Inv == TypeOK /\ GatewayInv /\ StageInv /\ ProposalEarned

-----------------------------------------------------------------------------
(* The ledger's sums.                                                      *)

\* Changing one call's reservation changes the total by the difference.
LEMMA TotalChanges ==
    ASSUME NEW f \in [Calls -> Amounts], NEW c \in Calls, NEW a \in Amounts
    PROVE  /\ Total(f) \in Nat
           /\ f[c] \in Nat /\ a \in Nat
           /\ [f EXCEPT ![c] = a] \in [Calls -> Amounts]
           /\ Total([f EXCEPT ![c] = a]) \in Nat
           /\ Total([f EXCEPT ![c] = a]) + f[c] = Total(f) + a
<1>1. Amounts \subseteq Nat  BY GatewayAssumption DEF Amounts
<1>2. [f EXCEPT ![c] = a] \in [Calls -> Amounts]  OBVIOUS
<1> QED  BY <1>1, <1>2, TotalAssumption

\* Giving a reservation back.
LEMMA GivenBack ==
    ASSUME NEW f \in [Calls -> Amounts], NEW c \in Calls
    PROVE  /\ Total(f) \in Nat /\ f[c] \in Nat
           /\ [f EXCEPT ![c] = 0] \in [Calls -> Amounts]
           /\ Total([f EXCEPT ![c] = 0]) \in Nat
           /\ Total([f EXCEPT ![c] = 0]) + f[c] = Total(f)
<1>1. 0 \in Amounts  BY DEF Amounts
<1>2. /\ Total(f) \in Nat /\ f[c] \in Nat
      /\ [f EXCEPT ![c] = 0] \in [Calls -> Amounts]
      /\ Total([f EXCEPT ![c] = 0]) \in Nat
  BY <1>1, TotalChanges
<1>3. Total([f EXCEPT ![c] = 0]) + f[c] = Total(f) + 0
  BY <1>1, TotalAssumption
<1> QED  BY <1>2, <1>3

\* The amounts that matter are amounts.
LEMMA AmountsOK ==
    /\ 0 \in Amounts
    /\ \A r \in 1..Routes : cost[r] \in Amounts /\ cost[r] \in Nat
    /\ \A r \in 1..Routes : \A a \in actual[r] : a \in Nat
BY GatewayAssumption DEF Amounts

-----------------------------------------------------------------------------
(* One step of a call.                                                     *)

\* Reserving within the budget and sending keeps the invariant.
LEMMA SendKeeps ==
    ASSUME GatewayInv, NEW c \in Calls, NEW r \in 1..Routes, NEW k \in 1..MaxAttempts,
           Fits(c, r), Send(c, r, k)
    PROVE  GatewayInv'
<1> USE DEF GatewayInv
<1> DEFINE next == [pc |-> "waiting", route |-> r, attempt |-> k]
<1>1. /\ reserved' = [reserved EXCEPT ![c] = cost[r]]
      /\ call' = [call EXCEPT ![c] = next]
      /\ spent' = spent /\ recorded' = recorded /\ billed' = billed /\ over' = over
  BY DEF Send
<1>2. cost[r] \in Amounts /\ cost[r] \in Nat  BY AmountsOK
<1>3. reserved \in [Calls -> Amounts] /\ call \in [Calls -> Call]  BY DEF GatewayTypeOK
<1>4. /\ Total(reserved) \in Nat /\ reserved[c] \in Nat
      /\ reserved' \in [Calls -> Amounts] /\ Total(reserved') \in Nat
      /\ Total(reserved') + reserved[c] = Total(reserved) + cost[r]
  <2> DEFINE f == reserved
             a == cost[r]
  <2>1. f \in [Calls -> Amounts] /\ a \in Amounts  BY <1>2, <1>3
  <2> HIDE DEF f, a
  <2>2. /\ Total(f) \in Nat /\ f[c] \in Nat
        /\ [f EXCEPT ![c] = a] \in [Calls -> Amounts]
        /\ Total([f EXCEPT ![c] = a]) \in Nat
    BY <2>1, TotalChanges
  <2>3. Total([f EXCEPT ![c] = a]) + f[c] = Total(f) + a
    BY <2>1, TotalAssumption
  <2> QED  BY <1>1, <2>2, <2>3 DEF f, a
<1>5. next \in Call  BY GatewayAssumption DEF Call
<1>6. GatewayTypeOK'  BY <1>1, <1>3, <1>4, <1>5 DEF GatewayTypeOK
<1>7. \A d \in Calls : d # c => call'[d] = call[d] /\ reserved'[d] = reserved[d]
  BY <1>1, <1>3
<1>8. call'[c] = next /\ reserved'[c] = cost[r]  BY <1>1, <1>3
<1>9. CallsOK'  BY <1>7, <1>8 DEF CallsOK
<1>10. BudgetHeld'
  <2>1. spent + Total(reserved) + cost[r] <= HardLimit  BY DEF Fits
  <2>2. spent \in Nat /\ over \in Nat /\ HardLimit \in Nat /\ reserved[c] \in Nat
    BY <1>4, GatewayAssumption DEF GatewayTypeOK
  <2> QED  BY <1>1, <1>2, <1>4, <2>1, <2>2 DEF BudgetHeld
<1>11. NothingLeaks'  BY <1>7, <1>8 DEF NothingLeaks
<1>12. SpendRecorded'  BY <1>1 DEF SpendRecorded
<1> QED  BY <1>6, <1>9, <1>10, <1>11, <1>12

\* A call that holds nothing and changes nothing but where it is.
LEMMA MovedKeeps ==
    ASSUME GatewayInv, NEW c \in Calls, NEW to \in Failures,
           call[c].pc # "waiting", Moved(c, to), UNCHANGED budgetVars
    PROVE  GatewayInv'
<1> USE DEF GatewayInv, Moved, budgetVars
<1>1. call' \in [Calls -> Call]  BY DEF GatewayTypeOK, Call, Failures
<1>2. \A d \in Calls : d # c => call'[d] = call[d]  BY DEF GatewayTypeOK
<1>3. call'[c].pc = to  BY DEF GatewayTypeOK, Call
<1>4. to \notin {"waiting", "backoff"}  BY DEF Failures
<1>5. GatewayTypeOK'  BY <1>1 DEF GatewayTypeOK
<1>6. CallsOK'  BY <1>2, <1>3, <1>4 DEF CallsOK
<1>7. NothingLeaks'  BY <1>2 DEF NothingLeaks
<1>8. BudgetHeld' /\ SpendRecorded'  BY DEF BudgetHeld, SpendRecorded
<1> QED  BY <1>5, <1>6, <1>7, <1>8

\* Trying the routes of the chain, from any of them on.
LEMMA TryRoutesKeeps ==
    ASSUME GatewayInv, NEW c \in Calls, NEW from \in Nat \ {0},
           call[c].pc # "waiting", TryRoutes(c, from)
    PROVE  GatewayInv'
<1>1. CASE \E r \in from..Routes : Fits(c, r) /\ Send(c, r, 1)
  <2>1. PICK r \in from..Routes : Fits(c, r) /\ Send(c, r, 1)  BY <1>1
  <2>2. r \in 1..Routes /\ 1 \in 1..MaxAttempts  BY GatewayAssumption
  <2> QED  BY <2>1, <2>2, SendKeeps
<1>2. CASE Moved(c, "budget") /\ UNCHANGED budgetVars
  BY <1>2, MovedKeeps DEF Failures
<1> QED  BY <1>1, <1>2 DEF TryRoutes

\* A call that stops waiting: its reservation is given back and the call is
\* wherever an answer or a failure takes it.
LEMMA LeavesKeeps ==
    ASSUME GatewayInv, NEW c \in Calls, NEW to \in {"done", "backoff"} \cup Failures,
           call[c].pc = "waiting", Moved(c, to),
           to = "backoff" => call[c].attempt < MaxAttempts,
           reserved' = [reserved EXCEPT ![c] = 0]
    PROVE  /\ call' \in [Calls -> Call] /\ reserved' \in [Calls -> Amounts]
           /\ CallsOK' /\ NothingLeaks'
           /\ Total(reserved) \in Nat /\ reserved[c] \in Nat /\ Total(reserved') \in Nat
           /\ Total(reserved') + reserved[c] = Total(reserved)
<1> USE DEF GatewayInv, Moved
<1>1. call' \in [Calls -> Call]  BY DEF GatewayTypeOK, Call, Failures
<1>2. \A d \in Calls : d # c => call'[d] = call[d] /\ reserved'[d] = reserved[d]
  BY DEF GatewayTypeOK
<1>3. /\ call'[c].pc = to /\ call'[c].route = call[c].route
      /\ call'[c].attempt = call[c].attempt /\ reserved'[c] = 0
  BY DEF GatewayTypeOK, Call
<1>4. CallsOK'
  <2>1. call[c].route \in 1..Routes  BY DEF CallsOK
  <2>2. \A d \in Calls \ {c} :
          /\ call'[d].pc \in {"waiting", "backoff"} => call'[d].route \in 1..Routes
          /\ call'[d].pc = "backoff" => call'[d].attempt < MaxAttempts
    BY <1>2 DEF CallsOK
  <2> QED  BY <1>3, <2>1, <2>2 DEF CallsOK
<1>5. NothingLeaks'  BY <1>2, <1>3 DEF NothingLeaks
<1>6. /\ Total(reserved) \in Nat /\ reserved[c] \in Nat
      /\ reserved' \in [Calls -> Amounts] /\ Total(reserved') \in Nat
      /\ Total(reserved') + reserved[c] = Total(reserved)
  <2>1. reserved \in [Calls -> Amounts]  BY DEF GatewayTypeOK
  <2> QED  BY <2>1, GivenBack
<1> QED  BY <1>1, <1>4, <1>5, <1>6

\* An answer that is settled, and recorded unless it broke the limit.
LEMMA SettledKeeps ==
    ASSUME GatewayInv, NEW c \in Calls, NEW to \in {"done", "backoff"} \cup Failures,
           NEW a \in Nat, call[c].pc = "waiting", Moved(c, to),
           to = "backoff" => call[c].attempt < MaxAttempts,
           Settle(c, a),
           recorded' = recorded + a \/ (Overspends(c, a) /\ recorded' = recorded)
    PROVE  GatewayInv'
<1> USE DEF GatewayInv
<1>1. /\ spent' = spent + a /\ billed' = billed + a
      /\ over' = over + (IF a > reserved[c] THEN a - reserved[c] ELSE 0)
      /\ reserved' = [reserved EXCEPT ![c] = 0]
  BY DEF Settle
<1>2. /\ call' \in [Calls -> Call] /\ reserved' \in [Calls -> Amounts]
      /\ CallsOK' /\ NothingLeaks'
      /\ Total(reserved) \in Nat /\ reserved[c] \in Nat /\ Total(reserved') \in Nat
      /\ Total(reserved') + reserved[c] = Total(reserved)
  BY <1>1, LeavesKeeps
<1>3. /\ spent \in Nat /\ recorded \in Nat /\ billed \in Nat /\ over \in Nat
      /\ HardLimit \in Nat
  BY GatewayAssumption DEF GatewayTypeOK
<1>4. GatewayTypeOK'  BY <1>1, <1>2, <1>3 DEF GatewayTypeOK
<1>5. BudgetHeld'  BY <1>1, <1>2, <1>3 DEF BudgetHeld
<1>6. SpendRecorded'  BY <1>1, <1>3 DEF SpendRecorded, Overspends
<1> QED  BY <1>2, <1>4, <1>5, <1>6

\* A failure whose reservation is released.
LEMMA ReleasedKeeps ==
    ASSUME GatewayInv, NEW c \in Calls, NEW to \in {"done", "backoff"} \cup Failures,
           NEW a \in Nat, call[c].pc = "waiting", Moved(c, to),
           to = "backoff" => call[c].attempt < MaxAttempts,
           ReleaseBudget(c, a)
    PROVE  GatewayInv'
<1> USE DEF GatewayInv
<1>1. /\ spent' = spent /\ recorded' = recorded /\ over' = over /\ billed' = billed + a
      /\ reserved' = [reserved EXCEPT ![c] = 0]
  BY DEF ReleaseBudget
<1>2. /\ call' \in [Calls -> Call] /\ reserved' \in [Calls -> Amounts]
      /\ CallsOK' /\ NothingLeaks'
      /\ Total(reserved) \in Nat /\ reserved[c] \in Nat /\ Total(reserved') \in Nat
      /\ Total(reserved') + reserved[c] = Total(reserved)
  BY <1>1, LeavesKeeps
<1>3. /\ spent \in Nat /\ recorded \in Nat /\ billed \in Nat /\ over \in Nat
      /\ HardLimit \in Nat
  BY GatewayAssumption DEF GatewayTypeOK
<1>4. GatewayTypeOK'  BY <1>1, <1>2, <1>3 DEF GatewayTypeOK
<1>5. BudgetHeld'  BY <1>1, <1>2, <1>3 DEF BudgetHeld
<1>6. SpendRecorded'  BY <1>1 DEF SpendRecorded
<1> QED  BY <1>2, <1>4, <1>5, <1>6

\* Where a call that may try again goes.
LEMMA AgainOrMoves ==
    ASSUME NEW c \in Calls, NEW failure \in Failures, AgainOr(c, failure)
    PROVE  \E to \in {"done", "backoff"} \cup Failures :
              Moved(c, to) /\ (to = "backoff" => call[c].attempt < MaxAttempts)
<1>1. CASE call[c].attempt < MaxAttempts
  BY <1>1 DEF AgainOr
<1>2. CASE ~(call[c].attempt < MaxAttempts)
  <2>1. Moved(c, failure)  BY <1>2 DEF AgainOr
  <2> QED  BY <2>1 DEF Failures
<1> QED  BY <1>1, <1>2

\* What the provider may do to a call that waits.
LEMMA ProviderKeeps ==
    ASSUME GatewayInv, NEW c \in Calls, Provider(c)
    PROVE  GatewayInv'
<1>1. call[c].pc = "waiting" => call[c].route \in 1..Routes
  BY DEF GatewayInv, CallsOK
<1>2. \A a \in Charges(c, actual) \cup Charges(c, failed) : a \in Nat
  BY <1>1, GatewayAssumption DEF Charges
<1>3. ASSUME NEW a \in Charges(c, actual), IncompleteAnswer(c, a)
      PROVE  GatewayInv'
  <2>1. PICK to \in {"budget", "failed"} : Moved(c, to)
    BY <1>3 DEF IncompleteAnswer
  <2>2. to \in {"done", "backoff"} \cup Failures /\ to # "backoff"  BY DEF Failures
  <2>3. /\ call[c].pc = "waiting" /\ Settle(c, a) /\ recorded' = recorded + a
    BY <1>3 DEF IncompleteAnswer
  <2> QED  BY <1>2, <2>1, <2>2, <2>3, SettledKeeps
<1>4. ASSUME NEW a \in Charges(c, actual), NEW valid \in BOOLEAN, Answer(c, a, valid)
      PROVE  GatewayInv'
  <2>1. call[c].pc = "waiting" /\ Settle(c, a)  BY <1>4 DEF Answer
  <2>2. CASE Overspends(c, a)
    <3>1. Moved(c, "budget") /\ recorded' = recorded  BY <1>4, <2>2 DEF Answer
    <3> QED  BY <1>2, <2>1, <2>2, <3>1, SettledKeeps DEF Failures
  <2>3. CASE ~Overspends(c, a)
    <3>1. recorded' = recorded + a  BY <1>4, <2>3 DEF Answer
    <3>2. CASE valid
      <4>1. Moved(c, "done")  BY <1>4, <2>3, <3>2 DEF Answer
      <4> QED  BY <1>2, <2>1, <3>1, <4>1, SettledKeeps
    <3>3. CASE ~valid
      <4>1. AgainOr(c, "failed") /\ "failed" \in Failures
        BY <1>4, <2>3, <3>3 DEF Answer, Failures
      <4> QED  BY <1>2, <2>1, <3>1, <4>1, AgainOrMoves, SettledKeeps
    <3> QED  BY <3>2, <3>3
  <2> QED  BY <2>2, <2>3
<1>5. ASSUME NEW a \in Charges(c, failed), RetryableFailure(c, a)
      PROVE  GatewayInv'
  <2>1. call[c].pc = "waiting" /\ ReleaseBudget(c, a) /\ AgainOr(c, "failed")
    BY <1>5 DEF RetryableFailure
  <2>2. "failed" \in Failures  BY DEF Failures
  <2> QED  BY <1>2, <2>1, <2>2, AgainOrMoves, ReleasedKeeps
<1>6. ASSUME NEW a \in Charges(c, failed), NEW failure \in {"failed", "other"}, FinalFailure(c, a, failure)
      PROVE  GatewayInv'
  <2>1. call[c].pc = "waiting" /\ ReleaseBudget(c, a) /\ Moved(c, failure)
    BY <1>6 DEF FinalFailure
  <2>2. failure \in Failures  BY DEF Failures
  <2> QED  BY <1>2, <2>1, <2>2, ReleasedKeeps
<1> QED  BY <1>3, <1>4, <1>5, <1>6 DEF Provider

\* Every step of a call keeps the gateway's invariant.
LEMMA GatewayStepKeeps ==
    ASSUME GatewayInv, NEW c \in Calls, GatewayStep(c)
    PROVE  GatewayInv'
<1>1. CASE Invoke(c)
  BY <1>1, TryRoutesKeeps DEF Invoke
<1>2. CASE Retry(c)
  <2>1. /\ call[c].pc = "backoff" /\ call[c].route \in 1..Routes
        /\ call[c].attempt + 1 \in 1..MaxAttempts
    BY <1>2, GatewayAssumption DEF Retry, GatewayInv, GatewayTypeOK, CallsOK, Call
  <2>2. CASE Fits(c, call[c].route)
    <3>1. Send(c, call[c].route, call[c].attempt + 1)  BY <1>2, <2>2 DEF Retry
    <3> QED  BY <2>1, <2>2, <3>1, SendKeeps
  <2>3. CASE ~Fits(c, call[c].route)
    <3>1. TryRoutes(c, call[c].route + 1)  BY <1>2, <2>3 DEF Retry
    <3>2. call[c].route + 1 \in Nat \ {0}  BY <2>1, GatewayAssumption
    <3> QED  BY <2>1, <3>1, <3>2, TryRoutesKeeps
  <2> QED  BY <2>2, <2>3
<1>3. CASE Provider(c)
  BY <1>3, ProviderKeeps
<1> QED  BY <1>1, <1>2, <1>3 DEF GatewayStep

\* A step of a call changes that call and nothing of the others; a call that
\* waits or backs off afterwards did so before, or was just invoked.
LEMMA OnlyThisCall ==
    ASSUME GatewayTypeOK, NEW c \in Calls, GatewayStep(c)
    PROVE  \A d \in Calls : d # c => call'[d] = call[d]
<1> USE DEF Send, Moved, GatewayTypeOK
<1>1. ASSUME NEW from \in Nat, TryRoutes(c, from)
      PROVE  \A d \in Calls : d # c => call'[d] = call[d]
  BY <1>1 DEF TryRoutes
<1>2. CASE Invoke(c)
  BY <1>2, <1>1 DEF Invoke
<1>3. CASE Retry(c)
  <2>1. call[c].route + 1 \in Nat  BY GatewayAssumption DEF Call
  <2>2. CASE Fits(c, call[c].route)
    BY <1>3, <2>2 DEF Retry
  <2>3. CASE ~Fits(c, call[c].route)
    BY <1>3, <2>3, <2>1, <1>1 DEF Retry
  <2> QED  BY <2>2, <2>3
<1>4. CASE Provider(c)
  <2>1. \E to : Moved(c, to)
    BY <1>4 DEF Provider, IncompleteAnswer, Answer, RetryableFailure, FinalFailure, AgainOr
  <2> QED  BY <2>1
<1> QED  BY <1>2, <1>3, <1>4 DEF GatewayStep

-----------------------------------------------------------------------------
(* The pipeline.                                                           *)

\* A call that neither waits nor backs off holds nothing.
LEMMA QuietHoldsNothing ==
    ASSUME Inv, \A c \in Calls : ~Running(c)
    PROVE  \A c \in Calls : reserved[c] = 0
BY DEF Inv, GatewayInv, NothingLeaks, Running

\* Nothing but the run changes.
LEMMA GatewayRests ==
    ASSUME GatewayInv, UNCHANGED gatewayVars
    PROVE  GatewayInv'
BY DEF GatewayInv, gatewayVars, GatewayTypeOK, CallsOK, BudgetHeld, NothingLeaks, SpendRecorded

\* Returning a result once no call is running.
LEMMA EndKeeps ==
    ASSUME Inv, \A c \in Calls : ~Running(c),
           NEW result \in Results, NEW audited \in SUBSET Calls, End(result, audited),
           result = "TRADE_PROPOSAL" =>
              /\ run.stage = "final"
              /\ audited = {"plan", "palermo", "final"} \cup run.selected
    PROVE  Inv'
<1>1. /\ run' = [run EXCEPT !.stage = "idle", !.result = result, !.audited = audited]
      /\ call' = [c \in Calls |-> Idle] /\ seen' = seen
      /\ spent' = spent /\ reserved' = reserved /\ recorded' = recorded
      /\ billed' = billed /\ over' = over
  BY DEF End, budgetVars
<1>2. \A c \in Calls : reserved[c] = 0  BY QuietHoldsNothing
<1>3. GatewayInv  BY DEF Inv
<1>4. Idle \in Call /\ Idle.pc = "idle"  BY GatewayAssumption DEF Call, Idle
<1>5. GatewayTypeOK'  BY <1>1, <1>3, <1>4 DEF GatewayInv, GatewayTypeOK
<1>6. CallsOK'  BY <1>1, <1>4 DEF CallsOK
<1>7. BudgetHeld' /\ SpendRecorded'
  BY <1>1, <1>3 DEF GatewayInv, BudgetHeld, SpendRecorded
<1>8. NothingLeaks'  BY <1>1, <1>2 DEF NothingLeaks
<1>9. run \in Run /\ seen \in 0..MaxOpportunities  BY DEF Inv, TypeOK
<1>10. run' \in Run /\ run'.stage = "idle" /\ run'.result = result
       /\ run'.audited = audited /\ run'.selected = run.selected /\ run'.level = run.level
  BY <1>1, <1>9 DEF Run, Stages
<1>11. TypeOK'  BY <1>1, <1>5, <1>9, <1>10 DEF TypeOK
<1>12. StageInv'  BY <1>1, <1>4, <1>10 DEF StageInv, Running, At
<1>13. ProposalEarned'
  BY <1>10 DEF ProposalEarned, Inv, StageInv
<1> QED  BY <1>5, <1>6, <1>7, <1>8, <1>11, <1>12, <1>13 DEF Inv, GatewayInv

\* Going on to a stage whose call has not been started.
LEMMA AdvanceKeeps ==
    ASSUME Inv, \A c \in Calls : ~Running(c),
           NEW next \in Run, Advance(next),
           next.stage \in {"specialists", "palermo", "final"}, next.result = "NONE",
           next.selected # {},
           next.level = "MINI_CREW" => Cardinality(next.selected) <= 2,
           next.stage = "specialists" => next.audited = {"plan"},
           next.stage = "palermo" => next.audited = {"plan"} \cup next.selected,
           next.stage = "final" => next.audited = {"plan", "palermo"} \cup next.selected
    PROVE  Inv'
<1>1. run' = next /\ UNCHANGED gatewayVars /\ seen' = seen  BY DEF Advance
<1>2. GatewayInv'  BY <1>1, GatewayRests DEF Inv
<1>3. TypeOK'  BY <1>1, <1>2 DEF Inv, TypeOK, GatewayInv
<1>4. StageInv'
  BY <1>1 DEF StageInv, Running, At, gatewayVars
<1>5. ProposalEarned'  BY <1>1 DEF ProposalEarned
<1> QED  BY <1>2, <1>3, <1>4, <1>5 DEF Inv

\* While the calls of a stage have ended, none is running.
LEMMA StageQuiet ==
    ASSUME Inv, \A c \in Calls : OfStage(c) => call[c].pc \notin {"waiting", "backoff"}
    PROVE  \A c \in Calls : ~Running(c)
BY DEF Inv, StageInv, Running

LEMMA BeginKeeps ==
    ASSUME Inv, NEW priority \in {"low", "mini", "full"}, NEW usable \in BOOLEAN,
           Begin(priority, usable)
    PROVE  Inv'
<1> DEFINE level == GateLevel(priority)
           stage == IF usable /\ level # "SKIP_AI" THEN "plan" ELSE "idle"
           result == IF ~usable THEN "FAILED"
                     ELSE IF level = "SKIP_AI" THEN "NO_ANALYSIS" ELSE "NONE"
<1>1. level \in Levels  BY DEF GateLevel, Levels
<1>2. /\ stage \in {"plan", "idle"} /\ (stage = "plan" => result = "NONE")
      /\ result \in {"FAILED", "NO_ANALYSIS", "NONE"}
  OBVIOUS
<1>3. /\ At("idle") /\ seen < MaxOpportunities /\ seen' = seen + 1 /\ UNCHANGED gatewayVars
      /\ run' = [NoRun EXCEPT !.level = level, !.stage = stage, !.result = result]
  BY DEF Begin
<1> HIDE DEF level, stage, result
<1>4. /\ run' \in Run /\ run'.stage = stage /\ run'.result = result
  BY <1>1, <1>2, <1>3 DEF Run, NoRun, Stages, Results
<1>5. GatewayInv'  BY <1>3, GatewayRests DEF Inv
<1>6. seen' \in 0..MaxOpportunities  BY <1>3, CrewAssumption DEF Inv, TypeOK
<1>7. TypeOK'  BY <1>4, <1>5, <1>6 DEF TypeOK, GatewayInv
<1>8. \A c \in Calls : call[c] = Idle /\ call'[c] = Idle
  BY <1>3 DEF Inv, StageInv, gatewayVars
<1>9. StageInv'
  BY <1>2, <1>4, <1>8 DEF StageInv, Running, At, Idle
<1>10. ProposalEarned'  BY <1>2, <1>4 DEF ProposalEarned
<1> QED  BY <1>5, <1>7, <1>9, <1>10 DEF Inv

\* The call of a core agent that has ended leaves nothing running.
LEMMA CoreQuiet ==
    ASSUME Inv, run.stage \in {"plan", "palermo", "final"},
           call[run.stage].pc \notin {"waiting", "backoff"}
    PROVE  \A c \in Calls : ~Running(c)
BY StageQuiet DEF OfStage, At

LEMMA PlannedKeeps ==
    ASSUME Inv, NEW decision \in {"NO_ANALYSIS", "MINI_CREW", "FULL_CREW"},
           NEW S \in SUBSET Specialists, Planned(decision, S)
    PROVE  Inv'
<1>1. At("plan") /\ call["plan"].pc = "done"  BY DEF Planned
<1>2. \A c \in Calls : ~Running(c)  BY <1>1, CoreQuiet DEF At
<1>3. {"plan"} \in SUBSET Calls  BY CrewAssumption
<1>4. ASSUME NEW result \in {"FAILED", "NO_ANALYSIS"}, End(result, {"plan"})
      PROVE  Inv'
  <2>1. result \in Results /\ result # "TRADE_PROPOSAL"  BY DEF Results
  <2> QED  BY <1>2, <1>3, <1>4, <2>1, EndKeeps
<1>5. CASE Acceptable(run.level, decision, S) /\ decision # "NO_ANALYSIS"
  <2> DEFINE next == [run EXCEPT !.stage = "specialists", !.selected = S, !.audited = {"plan"}]
  <2>1. Advance(next)  BY <1>5 DEF Planned
  <2>2. run \in Run /\ run.result = "NONE"  BY <1>1 DEF Inv, TypeOK, StageInv, At
  <2>3. /\ next \in Run /\ next.stage = "specialists" /\ next.selected = S
        /\ next.audited = {"plan"} /\ next.level = run.level /\ next.result = "NONE"
    BY <1>3, <2>2 DEF Run, Stages
  <2>4. S # {} /\ (run.level = "MINI_CREW" => Cardinality(S) <= 2)
    BY <1>5 DEF Acceptable
  <2> HIDE DEF next
  <2> QED  BY <1>2, <2>1, <2>3, <2>4, AdvanceKeeps
<1>6. CASE ~(Acceptable(run.level, decision, S) /\ decision # "NO_ANALYSIS")
  BY <1>4, <1>6 DEF Planned
<1> QED  BY <1>5, <1>6

LEMMA FirstRoundKeeps ==
    ASSUME Inv, NEW grounded \in SUBSET Specialists, FirstRound(grounded)
    PROVE  Inv'
<1> DEFINE good == {s \in run.selected : call[s].pc = "done"} \cap grounded
<1>1. At("specialists") /\ Gathered(run.selected)  BY DEF FirstRound
<1>2. run \in Run /\ run.selected \in SUBSET Specialists /\ run.audited \in SUBSET Calls
  BY DEF Inv, TypeOK, Run
<1>3. /\ run.audited = {"plan"} /\ run.result = "NONE" /\ run.selected # {}
      /\ run.level = "MINI_CREW" => Cardinality(run.selected) <= 2
  BY <1>1 DEF Inv, StageInv, At
<1>4. \A c \in Calls : ~Running(c)
  <2>1. \A s \in run.selected : call[s].pc \notin {"waiting", "backoff"}
    BY <1>1 DEF Gathered, Ended, Failures
  <2>2. "specialists" \notin Calls  BY CrewAssumption DEF Stages
  <2> QED  BY <1>1, <2>1, <2>2, StageQuiet DEF OfStage, At
<1>5. good \subseteq Calls  BY <1>2, CrewAssumption
<1> HIDE DEF good
<1>6. CASE good = run.selected
  <2> DEFINE next == [run EXCEPT !.stage = "palermo", !.audited = run.audited \cup good]
  <2>1. Advance(next)  BY <1>6 DEF FirstRound, good
  <2>2. /\ next \in Run /\ next.stage = "palermo" /\ next.selected = run.selected
        /\ next.audited = {"plan"} \cup run.selected /\ next.level = run.level
        /\ next.result = "NONE"
    BY <1>2, <1>3, <1>5, <1>6 DEF Run, Stages
  <2> HIDE DEF next
  <2> QED  BY <1>3, <1>4, <2>1, <2>2, AdvanceKeeps
<1>7. CASE good # run.selected
  <2>1. End("FAILED", run.audited \cup good)  BY <1>7 DEF FirstRound, good
  <2>2. "FAILED" \in Results /\ run.audited \cup good \in SUBSET Calls
    BY <1>2, <1>5 DEF Results
  <2> QED  BY <1>4, <2>1, <2>2, EndKeeps
<1> QED  BY <1>6, <1>7

LEMMA ReviewedKeeps ==
    ASSUME Inv, Reviewed
    PROVE  Inv'
<1> DEFINE next == [run EXCEPT !.stage = "final", !.audited = run.audited \cup {"palermo"}]
<1>1. At("palermo") /\ call["palermo"].pc = "done" /\ Advance(next)  BY DEF Reviewed
<1>2. \A c \in Calls : ~Running(c)  BY <1>1, CoreQuiet DEF At
<1>3. run \in Run /\ run.audited \in SUBSET Calls /\ "palermo" \in Calls
  BY CrewAssumption DEF Inv, TypeOK, Run
<1>4. /\ run.audited = {"plan"} \cup run.selected /\ run.result = "NONE" /\ run.selected # {}
      /\ run.level = "MINI_CREW" => Cardinality(run.selected) <= 2
  BY <1>1 DEF Inv, StageInv, At
<1>5. /\ next \in Run /\ next.stage = "final" /\ next.selected = run.selected
      /\ next.audited = {"plan", "palermo"} \cup run.selected /\ next.level = run.level
      /\ next.result = "NONE"
  BY <1>3, <1>4 DEF Run, Stages
<1> HIDE DEF next
<1> QED  BY <1>1, <1>2, <1>4, <1>5, AdvanceKeeps

LEMMA FinalizedKeeps ==
    ASSUME Inv, NEW verdict \in {"NO_TRADE", "TRADE_PROPOSAL", "FAILED"}, Finalized(verdict)
    PROVE  Inv'
<1>1. At("final") /\ call["final"].pc = "done"  BY DEF Finalized
<1>2. \A c \in Calls : ~Running(c)  BY <1>1, CoreQuiet DEF At
<1>3. run.audited \in SUBSET Calls /\ "final" \in Calls /\ verdict \in Results
  BY CrewAssumption DEF Inv, TypeOK, Run, Results
<1>4. run.audited = {"plan", "palermo"} \cup run.selected
  BY <1>1 DEF Inv, StageInv, At
<1>5. CASE verdict = "FAILED"
  BY <1>2, <1>3, <1>5, EndKeeps DEF Finalized
<1>6. CASE verdict # "FAILED"
  <2>1. End(verdict, run.audited \cup {"final"})  BY <1>6 DEF Finalized
  <2>2. run.audited \cup {"final"} = {"plan", "palermo", "final"} \cup run.selected
    BY <1>4
  <2> QED  BY <1>1, <1>2, <1>3, <2>1, <2>2, EndKeeps DEF At
<1> QED  BY <1>5, <1>6

\* A core agent that failed, or an exception that leaves the run.
LEMMA CoreEndsKeep ==
    ASSUME Inv, CoreFailed \/ Escapes
    PROVE  Inv'
<1>1. /\ run.stage \in {"plan", "palermo", "final"} /\ call[run.stage].pc \in {"done"} \cup Failures
      /\ End("FAILED", run.audited) \/ End("RAISED", {})
  BY DEF CoreFailed, Escapes, CoreStages, Failures, At
<1>2. \A c \in Calls : ~Running(c)  BY <1>1, CoreQuiet DEF Failures
<1>3. run.audited \in SUBSET Calls /\ {} \in SUBSET Calls /\ {"FAILED", "RAISED"} \subseteq Results
  BY DEF Inv, TypeOK, Run, Results
<1>4. CASE End("FAILED", run.audited)  BY <1>2, <1>3, <1>4, EndKeeps
<1>5. CASE End("RAISED", {})  BY <1>2, <1>3, <1>5, EndKeeps
<1> QED  BY <1>1, <1>4, <1>5

\* A step of a call, invoked by its stage or already under way.
LEMMA CallStepKeeps ==
    ASSUME Inv, NEW c \in Calls, CallStep(c)
    PROVE  Inv'
<1>1. run' = run /\ seen' = seen /\ GatewayStep(c)
  BY DEF CallStep, Start, GatewayStep
<1>2. GatewayInv'  BY <1>1, GatewayStepKeeps DEF Inv
<1>3. TypeOK'  BY <1>1, <1>2 DEF Inv, TypeOK, GatewayInv
<1>4. \A d \in Calls : d # c => call'[d] = call[d]
  BY <1>1, OnlyThisCall DEF Inv, TypeOK
<1>5. OfStage(c)
  <2>1. CASE Start(c)
    BY <2>1 DEF Start, OfStage
  <2>2. CASE Provider(c) \/ Retry(c)
    <3>1. Running(c)
      BY <2>2 DEF Provider, IncompleteAnswer, Answer, RetryableFailure, FinalFailure, Retry, Running
    <3> QED  BY <3>1 DEF Inv, StageInv
  <2> QED  BY <2>1, <2>2 DEF CallStep
<1>6. ~At("idle")
  <2>1. "idle" \notin Calls  BY CrewAssumption DEF Stages
  <2> QED  BY <1>5, <2>1 DEF OfStage, At
<1>7. StageInv'
  BY <1>1, <1>4, <1>5, <1>6 DEF Inv, StageInv, Running, OfStage, At
<1>8. ProposalEarned'  BY <1>1 DEF Inv, ProposalEarned
<1> QED  BY <1>2, <1>3, <1>7, <1>8 DEF Inv

-----------------------------------------------------------------------------
(* The results.                                                            *)

LEMMA InitInv == Init => Inv
<1> SUFFICES ASSUME Init PROVE Inv
  OBVIOUS
<1> USE DEF Init, GatewayInit
<1>1. Idle \in Call /\ Idle.pc = "idle"  BY GatewayAssumption DEF Call, Idle
<1>2. 0 \in Amounts /\ HardLimit \in Nat  BY AmountsOK, GatewayAssumption
<1>3. GatewayTypeOK  BY <1>1, <1>2 DEF GatewayTypeOK
<1>4. Total(reserved) = 0  BY TotalAssumption
<1>5. BudgetHeld  BY <1>2, <1>4 DEF BudgetHeld
<1>6. CallsOK /\ NothingLeaks /\ SpendRecorded
  BY <1>1 DEF CallsOK, NothingLeaks, SpendRecorded
<1>7. TypeOK
  BY <1>3, CrewAssumption DEF TypeOK, Run, NoRun, Stages, Levels, Results
<1>8. StageInv  BY <1>1 DEF StageInv, Running, At, NoRun
<1>9. ProposalEarned  BY DEF ProposalEarned, NoRun
<1> QED  BY <1>3, <1>5, <1>6, <1>7, <1>8, <1>9 DEF Inv, GatewayInv

LEMMA NextInv == Inv /\ [Next]_vars => Inv'
<1> SUFFICES ASSUME Inv, [Next]_vars PROVE Inv'
  OBVIOUS
<1>1. CASE UNCHANGED vars
  <2>1. UNCHANGED gatewayVars /\ run' = run /\ seen' = seen  BY <1>1 DEF vars
  <2>2. GatewayInv'  BY <2>1, GatewayRests DEF Inv
  <2>3. TypeOK'  BY <2>1, <2>2 DEF Inv, TypeOK, GatewayInv
  <2>4. StageInv'
    BY <2>1 DEF Inv, StageInv, Running, OfStage, At, gatewayVars
  <2>5. ProposalEarned'  BY <2>1 DEF Inv, ProposalEarned
  <2> QED  BY <2>2, <2>3, <2>4, <2>5 DEF Inv
<1>2. CASE \E priority \in {"low", "mini", "full"}, usable \in BOOLEAN : Begin(priority, usable)
  BY <1>2, BeginKeeps
<1>3. CASE Pipeline
  BY <1>3, PlannedKeeps, FirstRoundKeeps, ReviewedKeeps, FinalizedKeeps, CoreEndsKeep
  DEF Pipeline
<1>4. CASE \E c \in Calls : CallStep(c)
  BY <1>4, CallStepKeeps
<1> QED  BY <1>1, <1>2, <1>3, <1>4 DEF Next

\* Inv is an invariant of the specification.
THEOREM InvHolds == Spec => []Inv
BY InitInv, NextInv, PTL DEF Spec

\* The variables keep their types.
THEOREM TypeCorrect == Spec => []TypeOK
<1>1. Inv => TypeOK  BY DEF Inv
<1> QED  BY <1>1, InvHolds, PTL

\* The hard budget: whatever the number of concurrent calls, routes and
\* retries, spending and reservations exceed the limit only by what providers
\* charged beyond a reservation (AIBudgetLedger.reserve and settle).
THEOREM BudgetNeverExceeded == Spec => []BudgetHeld
<1>1. Inv => BudgetHeld  BY DEF Inv, GatewayInv
<1> QED  BY <1>1, InvHolds, PTL

\* Every way out of _run_route gives its reservation back.
THEOREM NoReservationLeaks == Spec => []NothingLeaks
<1>1. Inv => NothingLeaks  BY DEF Inv, GatewayInv
<1> QED  BY <1>1, InvHolds, PTL

\* The usage records account for the ledger's spending until a provider breaks
\* the limit.
THEOREM SpendingRecorded == Spec => []SpendRecorded
<1>1. Inv => SpendRecorded  BY DEF Inv, GatewayInv
<1> QED  BY <1>1, InvHolds, PTL

\* Both, as the model checker asks for them.
THEOREM LedgerAgreement == Spec => []LedgerAgrees
<1>1. NothingLeaks /\ SpendRecorded => LedgerAgrees  BY DEF LedgerAgrees
<1> QED  BY <1>1, NoReservationLeaks, SpendingRecorded, PTL

\* A result is only returned once no request of the opportunity is under way.
THEOREM ResultsEndClean == Spec => []EndsClean
<1>1. ASSUME Inv PROVE EndsClean
  <2>1. At("idle") => \A c \in Calls : call[c] = Idle  BY <1>1 DEF Inv, StageInv
  <2>2. \A c \in Calls : reserved[c] # 0 => call[c].pc = "waiting"
    BY <1>1 DEF Inv, GatewayInv, NothingLeaks
  <2>3. Idle.pc # "waiting"  BY DEF Idle
  <2> QED  BY <2>1, <2>2, <2>3 DEF EndsClean
<1> QED  BY <1>1, InvHolds, PTL

\* A trade proposal rests on every agent the run selected, and on no more than
\* the compute gate allowed.
THEOREM ProposalsEarned == Spec => []ProposalEarned
<1>1. Inv => ProposalEarned  BY DEF Inv
<1> QED  BY <1>1, InvHolds, PTL

\* What is left of a run, in money, in calls and in evidence, as the model checker
\* asks for it.
THEOREM ResultsAlwaysHold == Spec => []ResultsHold
<1>1. LedgerAgrees /\ EndsClean /\ ProposalEarned => ResultsHold  BY DEF ResultsHold
<1> QED  BY <1>1, LedgerAgreement, ResultsEndClean, ProposalsEarned, PTL

---------------------------------------------------------------------------
(* The allocation policy.  A document keeps what the step that wrote it      *)
(* checked: the invariant says what that is at each stage, and that the     *)
(* replacements are of changes whose documents no longer move.              *)

MaybePolicy == Policies \cup {Absent}

Papers ==
  [stage : PaperStages, base : MaybePolicy,
   advice : {"NONE", "PROPOSE_CHANGE", "KEEP_CURRENT", "ABSTAIN"}, proposed : Allocations \cup {Absent},
   review : {"NONE", "ACCEPT", "REJECT", "DEFER"}, authorization : {"NONE", "AUTHORIZE", "REJECT", "DEFER"},
   requested : MaybePolicy, outcome : {"NONE", "APPLIED", "CAS_CONFLICT"}, observed : MaybePolicy]

Applied == {"ATTEMPTED", "RECEIPTED", "SEALED"}
Candidacy == {"CANDIDATE", "DECIDED", "BLOCKED", "READY"} \cup Applied

\* What the documents of a change are worth at its stage.
Documented(paper) ==
  /\ paper.stage # "NEW" => paper.base \in Policies
  /\ paper.stage \in {"ADVISED", "REVIEWED"} \cup Candidacy /\ paper.advice = "PROPOSE_CHANGE" =>
       paper.proposed \in Options(paper.base)
  /\ paper.stage \in Candidacy => paper.advice = "PROPOSE_CHANGE" /\ paper.review = "ACCEPT"
  /\ paper.stage \in {"READY"} \cup Applied => paper.authorization = "AUTHORIZE"
  /\ paper.outcome # "NONE" <=> paper.stage \in Applied

Replacement == [by : Changes, from : Policies, to : Policies]

\* What a committed replacement rests on, for good.
Rests(entry) ==
  /\ papers[entry.by].stage \in {"READY"} \cup Applied
  /\ EarnedOn(entry.by, entry.from, entry.to)

StoreInv ==
  /\ store \in MaybePolicy /\ open \subseteq Changes /\ attempts \in 0 .. MaxReplacements
  /\ ledger \in Seq(Replacement)
  /\ ledger = <<>> => store \in {Absent, FirstPolicy}
  /\ ledger # <<>> => ledger[1].from = FirstPolicy /\ ledger[Len(ledger)].to = store
  /\ \A i \in 1 .. Len(ledger) - 1 : ledger[i].to = ledger[i + 1].from

PolicyInv ==
  /\ StoreInv
  /\ papers \in [Changes -> Papers] /\ \A c \in Changes : Documented(papers[c])
  /\ \A i \in DOMAIN ledger : Rests(ledger[i])

\* What a filed paper may not take back, once a replacement can rest on it.
Stays(old, new) ==
  old.stage \in {"READY"} \cup Applied =>
    /\ new.stage \in {"READY"} \cup Applied
    /\ new.base = old.base /\ new.proposed = old.proposed /\ new.advice = old.advice
    /\ new.review = old.review /\ new.authorization = old.authorization

\* A change may move its papers to others that are worth what their stage says and
\* keep what a replacement rests on.
LEMMA PapersMove ==
  ASSUME PolicyInv, NEW c \in Changes, NEW paper \in Papers, Documented(paper), Stays(papers[c], paper),
         papers' = [papers EXCEPT ![c] = paper], UNCHANGED ledger
  PROVE  /\ papers' \in [Changes -> Papers] /\ \A d \in Changes : Documented(papers'[d])
         /\ \A i \in DOMAIN ledger' : Rests(ledger[i])'
<1>1. papers' \in [Changes -> Papers] /\ \A d \in Changes : Documented(papers'[d])
  BY DEF PolicyInv
<1>2. ASSUME NEW i \in DOMAIN ledger PROVE Rests(ledger[i])'
  <2>1. ledger[i] \in Replacement /\ ledger'[i] = ledger[i] BY DEF PolicyInv, StoreInv
  <2>2. Rests(ledger[i]) BY DEF PolicyInv
  <2>3. CASE ledger[i].by = c BY <2>1, <2>2, <2>3 DEF Rests, EarnedOn, Stays, PolicyInv, Replacement
  <2>4. CASE ledger[i].by # c BY <2>1, <2>2, <2>4 DEF Rests, EarnedOn, PolicyInv, Replacement
  <2> QED BY <2>3, <2>4
<1> QED BY <1>1, <1>2

\* So a step that only files a paper keeps the invariant.
LEMMA FilingKeeps ==
  ASSUME PolicyInv, NEW c \in Changes, NEW paper \in Papers, Documented(paper), Stays(papers[c], paper),
         Filed(c, paper)
  PROVE  PolicyInv'
<1>1. StoreInv' BY DEF PolicyInv, StoreInv, Filed
<1>2. /\ papers' \in [Changes -> Papers] /\ \A d \in Changes : Documented(papers'[d])
      /\ \A i \in DOMAIN ledger' : Rests(ledger[i])'
  BY PapersMove DEF Filed
<1> QED BY <1>1, <1>2 DEF PolicyInv


LEMMA PolicyStart == ASSUME PolicyAssumption, PolicyInit PROVE PolicyInv
<1>1. ledger = <<>> /\ ledger \in Seq(Replacement) /\ DOMAIN ledger = {} /\ Len(ledger) = 0 BY DEF PolicyInit
<1>2. NoPapers \in Papers /\ Documented(NoPapers)
  BY DEF NoPapers, Papers, MaybePolicy, PaperStages, Documented, Candidacy, Applied
<1>3. papers \in [Changes -> Papers] /\ \A c \in Changes : Documented(papers[c]) BY <1>2 DEF PolicyInit
<1>4. 0 \in 0 .. MaxReplacements BY DEF PolicyAssumption
<1> QED BY <1>1, <1>3, <1>4 DEF PolicyInit, PolicyInv, StoreInv, MaybePolicy

\* A process opens the store: the papers stand, and only an empty store takes the
\* initial policy.
LEMMA OpenKeeps ==
  ASSUME PolicyAssumption, PolicyInv, NEW c \in Changes, NEW initial \in {FirstPolicy, Absent}, OpenStore(c, initial)
  PROVE  PolicyInv'
<1>1. UNCHANGED <<papers, attempts, ledger>> /\ open' \subseteq Changes BY DEF OpenStore, PolicyInv, StoreInv
<1>2. store' \in MaybePolicy BY DEF OpenStore, Bootstrap, PolicyInv, StoreInv, MaybePolicy, PolicyAssumption
<1>3. store' = store \/ (store = Absent /\ store' = FirstPolicy) BY DEF OpenStore, Bootstrap
<1>4. ASSUME ledger # <<>> PROVE store # Absent
  <2>1. Len(ledger) \in DOMAIN ledger BY <1>4 DEF PolicyInv, StoreInv
  <2>2. ledger[Len(ledger)] \in Replacement BY <2>1 DEF PolicyInv, StoreInv
  <2>3. ledger[Len(ledger)].to \in Policies BY <2>2 DEF Replacement
  <2> QED BY <1>4, <2>3 DEF PolicyInv, StoreInv, PolicyAssumption
<1>5. StoreInv' BY <1>1, <1>2, <1>3, <1>4 DEF PolicyInv, StoreInv
<1>6. (\A i \in DOMAIN ledger : Rests(ledger[i]))' BY <1>1 DEF PolicyInv, Rests, EarnedOn
<1> QED BY <1>1, <1>5, <1>6 DEF PolicyInv

\* A process ends: an attempt without its receipt is documents that are READY again.
LEMMA CrashKeeps ==
  ASSUME PolicyInv, NEW c \in Changes, Crash(c) PROVE PolicyInv'
<1> DEFINE paper == Left(papers[c])
<1>1. paper \in Papers /\ Documented(paper) /\ Stays(papers[c], paper)
  <2>1. papers[c] \in Papers /\ Documented(papers[c]) BY DEF PolicyInv
  <2>2. CASE papers[c].stage = "ATTEMPTED"
    <3>1. paper = [papers[c] EXCEPT !.stage = "READY", !.requested = Absent, !.outcome = "NONE", !.observed = Absent]
      BY <2>2 DEF Left
    <3> QED BY <2>1, <2>2, <3>1 DEF Papers, PaperStages, MaybePolicy, Documented, Candidacy, Applied, Stays
  <2>3. CASE papers[c].stage # "ATTEMPTED" BY <2>1, <2>3 DEF Left, Stays
  <2> QED BY <2>2, <2>3
<1>2. papers' = [papers EXCEPT ![c] = paper] /\ UNCHANGED <<store, attempts, ledger>> /\ open' \subseteq open
  BY DEF Crash
<1> HIDE DEF paper
<1>3. /\ papers' \in [Changes -> Papers] /\ \A d \in Changes : Documented(papers'[d])
      /\ \A i \in DOMAIN ledger' : Rests(ledger[i])'
  BY <1>1, <1>2, PapersMove
<1>4. StoreInv' BY <1>2 DEF PolicyInv, StoreInv
<1> QED BY <1>3, <1>4 DEF PolicyInv

\* The documents of a change, one step after the other.
LEMMA AnalyseKeeps ==
  ASSUME PolicyAssumption, PolicyInv, NEW c \in Changes, Analyse(c) PROVE PolicyInv'
<1> DEFINE paper == [papers[c] EXCEPT !.stage = "ANALYSED", !.base = store]
<1>1. papers[c] \in Papers /\ Documented(papers[c]) /\ papers[c].stage = "NEW" /\ store \in Policies
  BY DEF PolicyInv, StoreInv, Analyse, Stands, MaybePolicy
<1>2. paper \in Papers /\ Documented(paper) /\ Stays(papers[c], paper)
  BY <1>1 DEF Papers, PaperStages, MaybePolicy, Documented, Candidacy, Applied, Stays
<1>3. Filed(c, paper) BY DEF Analyse
<1> QED BY <1>2, <1>3, FilingKeeps

LEMMA AdviseKeeps ==
  ASSUME PolicyInv, NEW c \in Changes, NEW advice \in {"PROPOSE_CHANGE", "KEEP_CURRENT", "ABSTAIN"}, Advise(c, advice)
  PROVE  PolicyInv'
<1>1. papers[c] \in Papers /\ Documented(papers[c]) /\ papers[c].stage = "ANALYSED" BY DEF PolicyInv, Advise, Stands
<1>2. papers[c].base \in Policies BY <1>1 DEF Documented
<1>3. PICK proposed \in Proposals(advice, papers[c].base) :
        Filed(c, [papers[c] EXCEPT !.stage = "ADVISED", !.advice = advice, !.proposed = proposed])
  BY DEF Advise
<1>4. /\ proposed \in Allocations \cup {Absent}
      /\ advice = "PROPOSE_CHANGE" => proposed \in Options(papers[c].base)
  BY <1>2, <1>3 DEF Proposals, Options, Policies
<1> DEFINE paper == [papers[c] EXCEPT !.stage = "ADVISED", !.advice = advice, !.proposed = proposed]
<1>5. paper \in Papers BY <1>1, <1>4 DEF Papers, PaperStages
<1>6. /\ paper.stage = "ADVISED" /\ paper.advice = advice /\ paper.proposed = proposed
      /\ paper.base = papers[c].base /\ paper.outcome = papers[c].outcome
  BY <1>1 DEF Papers
<1>7. Documented(paper) /\ Stays(papers[c], paper)
  BY <1>1, <1>2, <1>4, <1>6 DEF Documented, Candidacy, Applied, Stays
<1> QED BY <1>3, <1>5, <1>7, FilingKeeps

LEMMA ReviewKeeps ==
  ASSUME PolicyInv, NEW c \in Changes, NEW action \in {"ACCEPT", "REJECT", "DEFER"}, Review(c, action) PROVE PolicyInv'
<1> DEFINE paper == [papers[c] EXCEPT !.stage = "REVIEWED", !.review = action]
<1>1. papers[c] \in Papers /\ Documented(papers[c]) /\ papers[c].stage = "ADVISED" BY DEF PolicyInv, Review, Stands
<1>2. paper \in Papers BY <1>1 DEF Papers, PaperStages
<1>3. Documented(paper) /\ Stays(papers[c], paper) BY <1>1 DEF Papers, Documented, Candidacy, Applied, Stays
<1>4. Filed(c, paper) BY DEF Review
<1> QED BY <1>2, <1>3, <1>4, FilingKeeps

LEMMA PrepareKeeps ==
  ASSUME PolicyInv, NEW c \in Changes, Prepare(c) PROVE PolicyInv'
<1> DEFINE paper == [papers[c] EXCEPT !.stage = "CANDIDATE"]
<1>1. papers[c] \in Papers /\ Documented(papers[c]) /\ papers[c].stage = "REVIEWED" BY DEF PolicyInv, Prepare, Stands
<1>2. papers[c].review = "ACCEPT" /\ papers[c].advice = "PROPOSE_CHANGE" BY DEF Prepare, ReviewedFor
<1>3. paper \in Papers BY <1>1 DEF Papers, PaperStages
<1>4. Documented(paper) /\ Stays(papers[c], paper) BY <1>1, <1>2 DEF Papers, Documented, Candidacy, Applied, Stays
<1>5. Filed(c, paper) BY DEF Prepare
<1> QED BY <1>3, <1>4, <1>5, FilingKeeps

LEMMA AuthorizeKeeps ==
  ASSUME PolicyInv, NEW c \in Changes, NEW action \in {"AUTHORIZE", "REJECT", "DEFER"}, Authorize(c, action)
  PROVE  PolicyInv'
<1> DEFINE paper == [papers[c] EXCEPT !.stage = "DECIDED", !.authorization = action]
<1>1. papers[c] \in Papers /\ Documented(papers[c]) /\ papers[c].stage \in {"CANDIDATE", "BLOCKED"}
  BY DEF PolicyInv, Authorize, Stands
<1>2. paper \in Papers BY <1>1 DEF Papers, PaperStages
<1>3. Documented(paper) /\ Stays(papers[c], paper) BY <1>1 DEF Papers, Documented, Candidacy, Applied, Stays
<1>4. Filed(c, paper) BY DEF Authorize
<1> QED BY <1>2, <1>3, <1>4, FilingKeeps

LEMMA PreflightKeeps ==
  ASSUME PolicyInv, NEW c \in Changes, Preflight(c) PROVE PolicyInv'
<1>1. papers[c] \in Papers /\ Documented(papers[c]) /\ papers[c].stage = "DECIDED" BY DEF PolicyInv, Preflight, Stands
<1>2. PICK stage \in {"READY", "BLOCKED"} :
        /\ stage = "READY" => papers[c].authorization = "AUTHORIZE"
        /\ Filed(c, [papers[c] EXCEPT !.stage = stage])
  BY DEF Preflight, Ready
<1> DEFINE paper == [papers[c] EXCEPT !.stage = stage]
<1>3. paper \in Papers BY <1>1 DEF Papers, PaperStages
<1>4. Documented(paper) /\ Stays(papers[c], paper) BY <1>1, <1>2 DEF Papers, Documented, Candidacy, Applied, Stays
<1> QED BY <1>2, <1>3, <1>4, FilingKeeps

LEMMA ReceiptKeeps ==
  ASSUME PolicyInv, NEW c \in Changes, Receipt(c) \/ Seal(c) PROVE PolicyInv'
<1>1. papers[c] \in Papers /\ Documented(papers[c]) /\ papers[c].stage \in {"ATTEMPTED", "RECEIPTED"}
  BY DEF PolicyInv, Receipt, Seal, Stands
<1>2. PICK stage \in {"RECEIPTED", "SEALED"} : Filed(c, [papers[c] EXCEPT !.stage = stage]) BY DEF Receipt, Seal
<1> DEFINE paper == [papers[c] EXCEPT !.stage = stage]
<1>3. paper \in Papers BY <1>1 DEF Papers, PaperStages
<1>4. Documented(paper) /\ Stays(papers[c], paper) BY <1>1 DEF Papers, Documented, Candidacy, Applied, Stays
<1> QED BY <1>2, <1>3, <1>4, FilingKeeps


\* The replacement: the swap succeeds on the very policy the change was reviewed on,
\* so the entry it adds is earned, and it goes on from the last one.
LEMMA ApplyKeeps ==
  ASSUME PolicyAssumption, PolicyInv, NEW c \in Changes, NEW id \in PolicyIds, NEW source \in SourceRefs,
         Apply(c, id, source)
  PROVE  PolicyInv'
<1> DEFINE new == Built(c, id, source)
           swapped == Swaps(papers[c].base, new)
           outcome == IF swapped THEN "APPLIED" ELSE "CAS_CONFLICT"
           paper == [papers[c] EXCEPT !.stage = "ATTEMPTED", !.requested = new, !.observed = store, !.outcome = outcome]
           entry == [by |-> c, from |-> store, to |-> new]
<1>1. papers[c] \in Papers /\ Documented(papers[c]) /\ papers[c].stage \in {"READY", "RECEIPTED", "SEALED"}
  BY DEF PolicyInv, Apply, Stands
<1>2. /\ papers[c].base \in Policies /\ papers[c].proposed \in Options(papers[c].base)
      /\ papers[c].advice = "PROPOSE_CHANGE" /\ papers[c].review = "ACCEPT" /\ papers[c].authorization = "AUTHORIZE"
  BY <1>1 DEF Documented, Candidacy, Applied
<1>3. /\ new \in Policies /\ new.envelopes = papers[c].proposed
      /\ Members(new) = Members(papers[c].base) /\ Configured(new.envelopes)
  BY <1>2 DEF Built, Policies, Options, Members
<1>4. store \in MaybePolicy BY DEF PolicyInv, StoreInv
<1>5. paper \in Papers
  <2>1. outcome \in {"NONE", "APPLIED", "CAS_CONFLICT"} /\ new \in MaybePolicy BY <1>3 DEF MaybePolicy
  <2> HIDE DEF outcome, new
  <2> QED BY <1>1, <1>4, <2>1, ZenonT(40) DEF Papers, PaperStages
<1>6. /\ paper.stage = "ATTEMPTED" /\ paper.outcome = outcome /\ paper.base = papers[c].base
      /\ paper.proposed = papers[c].proposed /\ paper.advice = papers[c].advice
      /\ paper.review = papers[c].review /\ paper.authorization = papers[c].authorization
  BY <1>1 DEF Papers
<1>7. Documented(paper) /\ Stays(papers[c], paper) BY <1>2, <1>6 DEF Documented, Candidacy, Applied, Stays
<1>8. papers' = [papers EXCEPT ![c] = paper] BY DEF Apply
<1>9. /\ store' = IF swapped THEN new ELSE store
      /\ ledger' = IF swapped THEN Append(ledger, entry) ELSE ledger
      /\ UNCHANGED open /\ attempts < MaxReplacements /\ attempts' = attempts + 1
  BY DEF Apply
<1>10. swapped => store = papers[c].base BY DEF Swaps, Matches
<1> HIDE DEF new, swapped, paper
<1>11. attempts' \in 0 .. MaxReplacements BY <1>9 DEF PolicyInv, StoreInv, PolicyAssumption
<1>12. CASE ~swapped
  <2>1. UNCHANGED <<store, ledger>> BY <1>9, <1>12
  <2>2. StoreInv' BY <1>9, <1>11, <2>1 DEF PolicyInv, StoreInv
  <2>3. /\ papers' \in [Changes -> Papers] /\ \A d \in Changes : Documented(papers'[d])
        /\ \A i \in DOMAIN ledger' : Rests(ledger[i])'
    BY <1>5, <1>7, <1>8, <2>1, PapersMove
  <2> QED BY <2>2, <2>3 DEF PolicyInv
<1>13. CASE swapped
  <2>1. store' = new /\ ledger' = Append(ledger, entry) /\ store = papers[c].base BY <1>9, <1>10, <1>13
  <2>2. entry \in Replacement /\ ledger \in Seq(Replacement)
    BY <1>2, <1>3, <2>1 DEF Replacement, PolicyInv, StoreInv
  <2>3. /\ ledger' \in Seq(Replacement) /\ Len(ledger') = Len(ledger) + 1
        /\ ledger'[Len(ledger) + 1] = entry /\ \A i \in 1 .. Len(ledger) : ledger'[i] = ledger[i]
    BY <2>1, <2>2
  <2>4. papers' \in [Changes -> Papers] /\ \A d \in Changes : Documented(papers'[d])
    BY <1>5, <1>7, <1>8 DEF PolicyInv
  <2>5. papers'[c] = paper BY <1>8 DEF PolicyInv
  <2>6. ASSUME NEW i \in DOMAIN ledger' PROVE Rests(ledger[i])'
    <3>1. CASE i = Len(ledger) + 1
      <4>1. ledger'[i] = entry BY <2>3, <3>1
      <4>2. papers'[c].stage \in {"READY"} \cup Applied BY <1>6, <2>5 DEF Applied
      <4>3. /\ papers'[c].base = store /\ papers'[c].proposed = new.envelopes
            /\ papers'[c].advice = "PROPOSE_CHANGE" /\ papers'[c].review = "ACCEPT"
            /\ papers'[c].authorization = "AUTHORIZE"
        BY <1>2, <1>3, <1>6, <2>1, <2>5
      <4>4. Members(new) = Members(store) /\ Configured(new.envelopes) BY <1>3, <2>1
      <4>5. entry.by = c /\ entry.from = store /\ entry.to = new OBVIOUS
      <4> QED BY <4>1, <4>2, <4>3, <4>4, <4>5 DEF Rests, EarnedOn
    <3>2. CASE i # Len(ledger) + 1
      <4>1. i \in DOMAIN ledger /\ ledger'[i] = ledger[i] BY <2>2, <2>3, <3>2
      <4>2. ledger[i] \in Replacement /\ Rests(ledger[i]) BY <2>2, <4>1 DEF PolicyInv
      <4>3. CASE ledger[i].by = c
        BY <1>6, <2>5, <4>1, <4>2, <4>3 DEF Rests, EarnedOn, Applied
      <4>4. CASE ledger[i].by # c
        BY <1>8, <4>1, <4>2, <4>4 DEF Rests, EarnedOn, PolicyInv, Replacement
      <4> QED BY <4>3, <4>4
    <3> QED BY <3>1, <3>2
  <2>7. ledger' # <<>> => ledger'[1].from = FirstPolicy /\ ledger'[Len(ledger')].to = store'
    <3>1. CASE ledger = <<>>
      <4>1. store = FirstPolicy BY <1>2, <2>1, <3>1 DEF PolicyInv, StoreInv, PolicyAssumption
      <4> QED BY <2>1, <2>3, <3>1, <4>1
    <3>2. CASE ledger # <<>> BY <2>1, <2>2, <2>3, <3>2 DEF PolicyInv, StoreInv
    <3> QED BY <3>1, <3>2
  <2>8. \A i \in 1 .. Len(ledger') - 1 : ledger'[i].to = ledger'[i + 1].from
    <3>1. TAKE i \in 1 .. Len(ledger') - 1
    <3>2. CASE i = Len(ledger) BY <2>1, <2>2, <2>3, <3>2 DEF PolicyInv, StoreInv
    <3>3. CASE i # Len(ledger) BY <2>2, <2>3, <3>3 DEF PolicyInv, StoreInv
    <3> QED BY <3>2, <3>3
  <2>9. StoreInv' BY <1>3, <1>9, <1>11, <2>1, <2>2, <2>3, <2>7, <2>8 DEF PolicyInv, StoreInv, MaybePolicy
  <2> QED BY <2>4, <2>6, <2>9 DEF PolicyInv
<1> QED BY <1>12, <1>13

LEMMA PolicyStepKeeps ==
  ASSUME PolicyAssumption, PolicyInv, [PolicyNext]_policyVars PROVE PolicyInv'
<1>1. CASE UNCHANGED policyVars
  BY <1>1 DEF policyVars, PolicyInv, StoreInv, Rests, EarnedOn
<1>2. CASE PolicyNext
  <2>1. PICK c \in Changes :
          \/ \E initial \in {FirstPolicy, Absent} : OpenStore(c, initial)
          \/ Crash(c) \/ Analyse(c)
          \/ \E advice \in {"PROPOSE_CHANGE", "KEEP_CURRENT", "ABSTAIN"} : Advise(c, advice)
          \/ \E action \in {"ACCEPT", "REJECT", "DEFER"} : Review(c, action)
          \/ Prepare(c)
          \/ \E action \in {"AUTHORIZE", "REJECT", "DEFER"} : Authorize(c, action)
          \/ Preflight(c)
          \/ \E id \in PolicyIds, source \in SourceRefs : Apply(c, id, source)
          \/ Receipt(c) \/ Seal(c)
    BY <1>2 DEF PolicyNext
  <2>2. CASE \E initial \in {FirstPolicy, Absent} : OpenStore(c, initial) BY <2>2, OpenKeeps
  <2>3. CASE Crash(c) BY <2>3, CrashKeeps
  <2>4. CASE Analyse(c) BY <2>4, AnalyseKeeps
  <2>5. CASE \E advice \in {"PROPOSE_CHANGE", "KEEP_CURRENT", "ABSTAIN"} : Advise(c, advice) BY <2>5, AdviseKeeps
  <2>6. CASE \E action \in {"ACCEPT", "REJECT", "DEFER"} : Review(c, action) BY <2>6, ReviewKeeps
  <2>7. CASE Prepare(c) BY <2>7, PrepareKeeps
  <2>8. CASE \E action \in {"AUTHORIZE", "REJECT", "DEFER"} : Authorize(c, action) BY <2>8, AuthorizeKeeps
  <2>9. CASE Preflight(c) BY <2>9, PreflightKeeps
  <2>10. CASE \E id \in PolicyIds, source \in SourceRefs : Apply(c, id, source) BY <2>10, ApplyKeeps
  <2>11. CASE Receipt(c) \/ Seal(c) BY <2>11, ReceiptKeeps
  <2> QED BY <2>1, <2>2, <2>3, <2>4, <2>5, <2>6, <2>7, <2>8, <2>9, <2>10, <2>11
<1> QED BY <1>1, <1>2

LEMMA PolicyInvImplies == ASSUME PolicyInv PROVE PolicyHolds
<1>1. PolicyTypeOK
  <2>1. ASSUME NEW c \in Changes
        PROVE  /\ papers[c].stage \in PaperStages
               /\ {papers[c].base, papers[c].requested, papers[c].observed} \subseteq Policies \cup {Absent}
               /\ papers[c].outcome # "NONE" <=> papers[c].stage \in {"ATTEMPTED", "RECEIPTED", "SEALED"}
    <3>1. papers[c] \in Papers /\ Documented(papers[c]) BY DEF PolicyInv
    <3> QED BY <3>1 DEF Papers, MaybePolicy, Documented, Applied
  <2> QED BY <2>1 DEF PolicyTypeOK, PolicyInv, StoreInv, MaybePolicy
<1>2. ReplacesWhatWasReviewed BY DEF PolicyInv, StoreInv, Rests, ReplacesWhatWasReviewed
<1> QED BY <1>1, <1>2 DEF PolicyHolds

\* AllocationPolicy's PolicyHolds: whatever the number of changes on their way, the
\* crashes of their processes and the identities that come back, every policy that
\* came into force replaced the very policy it had been analysed, reviewed and
\* authorized on, and the replacements are one chain from the initial policy
\* (allocation_policy_store.py, compare_and_swap).
THEOREM PolicyAlwaysHolds == ASSUME PolicyAssumption PROVE PolicySpec => []PolicyHolds
<1>1. PolicyInit => PolicyInv BY PolicyStart
<1>2. PolicyInv /\ [PolicyNext]_policyVars => PolicyInv' BY PolicyStepKeeps
<1>3. PolicyInv => PolicyHolds BY PolicyInvImplies
<1> QED BY <1>1, <1>2, <1>3, PTL DEF PolicySpec

\* AllocationPolicy's RestartKeepsPolicy: a process that opens a store which holds a
\* policy leaves that policy in force, whatever it is configured with
\* (allocation_policy_store.py, _bootstrap_if_absent).
THEOREM RestartAlwaysKeepsPolicy == PolicySpec => RestartKeepsPolicy
<1>1. ASSUME NEW c \in Changes, [PolicyNext]_policyVars, c \notin open, c \in open', store # Absent PROVE store' = store
  <2>1. PolicyNext BY <1>1 DEF policyVars
  <2>2. PICK d \in Changes : \E initial \in {FirstPolicy, Absent} : OpenStore(d, initial)
    <3>1. PICK d \in Changes :
            \/ \E initial \in {FirstPolicy, Absent} : OpenStore(d, initial)
            \/ Crash(d) \/ Analyse(d)
            \/ \E advice \in {"PROPOSE_CHANGE", "KEEP_CURRENT", "ABSTAIN"} : Advise(d, advice)
            \/ \E action \in {"ACCEPT", "REJECT", "DEFER"} : Review(d, action)
            \/ Prepare(d)
            \/ \E action \in {"AUTHORIZE", "REJECT", "DEFER"} : Authorize(d, action)
            \/ Preflight(d)
            \/ \E id \in PolicyIds, source \in SourceRefs : Apply(d, id, source)
            \/ Receipt(d) \/ Seal(d)
      BY <2>1 DEF PolicyNext
    <3>2. open' # open /\ ~ (open' \subseteq open) BY <1>1
    <3>3. ~Crash(d) BY <3>2 DEF Crash
    <3>4. ~Analyse(d) /\ ~Prepare(d) /\ ~Receipt(d) /\ ~Seal(d) BY <3>2 DEF Analyse, Prepare, Receipt, Seal, Filed
    <3>5. ~ \E advice \in {"PROPOSE_CHANGE", "KEEP_CURRENT", "ABSTAIN"} : Advise(d, advice)
      BY <3>2 DEF Advise, Filed
    <3>6. ~ \E action \in {"ACCEPT", "REJECT", "DEFER"} : Review(d, action) BY <3>2 DEF Review, Filed
    <3>7. ~ \E action \in {"AUTHORIZE", "REJECT", "DEFER"} : Authorize(d, action) BY <3>2 DEF Authorize, Filed
    <3>8. ~Preflight(d) BY <3>2 DEF Preflight, Filed
    <3>9. ~ \E id \in PolicyIds, source \in SourceRefs : Apply(d, id, source) BY <3>2 DEF Apply
    <3> QED BY <3>1, <3>3, <3>4, <3>5, <3>6, <3>7, <3>8, <3>9
  <2> QED BY <1>1, <2>2 DEF OpenStore, Bootstrap
<1>2. [PolicyNext]_policyVars =>
        [\A c \in Changes : c \notin open /\ c \in open' /\ store # Absent => store' = store]_policyVars
  BY <1>1
<1> QED BY <1>2, PTL DEF PolicySpec, RestartKeepsPolicy

---------------------------------------------------------------------------
(* Recruitment.  A plan keeps the advisory it was made from, which keeps the *)
(* evidence: the invariant says that each says of the others what it was     *)
(* made with, and that no state was reached but through those before it.     *)

Lifecycle == {"CANDIDATE", "SHADOW", "PROBATION", "PROMOTION_RECOMMENDED", "REJECTED"}
OnTrial == {"CANDIDATE", "SHADOW", "PROBATION"}

\* An advisory is what its package of evidence led to.
Given(document) ==
  /\ document.state \in OnTrial /\ document.revision \in Nat /\ document.package \in Packages
  /\ document.action = Advised(document.package, document.state)

\* A plan from an advisory is the step it advised, for the record it was given for,
\* and no gate was against it.
FromAdvisory(plan) ==
  /\ Given(plan.advisory) /\ plan.advisory.state = plan.from /\ plan.advisory.revision = plan.revision
  /\ plan.action = LifecycleAction(plan.advisory.action, plan.from)
  /\ plan.action \in {"ENTER_PROBATION", "RECOMMEND_PROMOTION"} => plan.advisory.package.withinPolicy

Possible(plan) ==
  /\ plan.from \in Lifecycle /\ plan.revision \in Nat /\ plan.action \in DOMAIN Steps(plan.from)
  /\ plan.advisory # NoDocument => FromAdvisory(plan)

Records == [state : Lifecycle, revision : 0 .. MaxRevision]

RecruitmentInv ==
  /\ candidate \in [Candidates -> Records] /\ stints \in [Candidates -> SUBSET Lifecycle]
  /\ DOMAIN advisory = Candidates /\ DOMAIN draft = Candidates
  /\ \A c \in Candidates :
       /\ candidate[c].state \in stints[c]
       /\ candidate[c].state \in {"PROBATION", "PROMOTION_RECOMMENDED"} => {"SHADOW", "PROBATION"} \subseteq stints[c]
       /\ advisory[c] # NoDocument => Given(advisory[c]) /\ advisory[c].revision <= candidate[c].revision
       /\ draft[c] # NoDocument => Possible(draft[c]) /\ draft[c].revision <= candidate[c].revision

\* The lifecycle's table.
LEMMA LifecycleTable ==
  /\ Steps("CANDIDATE") = [ENTER_SHADOW |-> "SHADOW", REJECT |-> "REJECTED"]
  /\ Steps("SHADOW") = [EXTEND_SHADOW |-> "SHADOW", ENTER_PROBATION |-> "PROBATION", REJECT |-> "REJECTED"]
  /\ Steps("PROBATION") = [EXTEND_PROBATION |-> "PROBATION", RETURN_TO_SHADOW |-> "SHADOW",
                           REJECT |-> "REJECTED", RECOMMEND_PROMOTION |-> "PROMOTION_RECOMMENDED"]
  /\ Steps("PROMOTION_RECOMMENDED") = [WITHDRAW_PROMOTION_RECOMMENDATION |-> "PROBATION",
                                       RETURN_TO_SHADOW |-> "SHADOW", REJECT |-> "REJECTED"]
  /\ Steps("REJECTED") = [REOPEN_CANDIDATE |-> "CANDIDATE"]
BY DEF Steps, StepsOnTrial

\* Where a step of the lifecycle may lead, and from where.
LEMMA StepsLead ==
  ASSUME NEW state \in Lifecycle, NEW action \in DOMAIN Steps(state)
  PROVE  /\ Steps(state)[action] \in Lifecycle
         /\ Steps(state)[action] = "PROBATION" => state \in {"SHADOW", "PROBATION", "PROMOTION_RECOMMENDED"}
         /\ Steps(state)[action] = "PROMOTION_RECOMMENDED" => state = "PROBATION"
<1>1. CASE state = "CANDIDATE" BY <1>1, LifecycleTable DEF Lifecycle
<1>2. CASE state = "SHADOW" BY <1>2, LifecycleTable DEF Lifecycle
<1>3. CASE state = "PROBATION" BY <1>3, LifecycleTable DEF Lifecycle
<1>4. CASE state = "PROMOTION_RECOMMENDED" BY <1>4, LifecycleTable DEF Lifecycle
<1>5. CASE state = "REJECTED" BY <1>5, LifecycleTable DEF Lifecycle
<1> QED BY <1>1, <1>2, <1>3, <1>4, <1>5 DEF Lifecycle

\* What is advised on a package of evidence is a step of the lifecycle, and one that
\* goes forward, to or from probation, only on evidence of promotion grade that has
\* passed within the budget.
LEMMA AdvisedLeads ==
  ASSUME NEW state \in OnTrial, NEW package \in Packages, NEW action,
         action = LifecycleAction(Advised(package, state), state)
  PROVE  /\ action \in DOMAIN Steps(state)
         /\ Steps(state)[action] \in {"PROBATION", "PROMOTION_RECOMMENDED"} \ {state} =>
              /\ action \in {"ENTER_PROBATION", "RECOMMEND_PROMOTION"}
              /\ package.promotionGrade /\ package.criteria = "PASSED" /\ package.withinBudget
<1> DEFINE advised == Advised(package, state)
<1>1. /\ advised \in {"EXTEND", "REJECT", "PROBATION", "RECOMMEND_PROMOTION"}
      /\ advised = "PROBATION" => state = "SHADOW"
      /\ advised = "RECOMMEND_PROMOTION" => state = "PROBATION"
      /\ advised \in {"PROBATION", "RECOMMEND_PROMOTION"} =>
           package.promotionGrade /\ package.criteria = "PASSED" /\ package.withinBudget
  <2>1. CASE ~package.promotionGrade \/ package.criteria = "UNAVAILABLE"
    <3>1. advised = "EXTEND" BY <2>1 DEF Advised
    <3> QED BY <3>1
  <2>2. CASE /\ package.promotionGrade /\ package.criteria # "UNAVAILABLE"
             /\ ~package.withinBudget \/ package.criteria = "FAILED"
    <3>1. advised = "REJECT" BY <2>2 DEF Advised
    <3> QED BY <3>1
  <2>3. CASE /\ package.promotionGrade /\ package.criteria # "UNAVAILABLE"
             /\ package.withinBudget /\ package.criteria # "FAILED"
    <3>1. package.criteria = "PASSED" BY <2>3 DEF Packages
    <3>2. CASE state = "CANDIDATE"
      <4>1. advised = "EXTEND" BY <2>3, <3>2 DEF Advised
      <4> QED BY <4>1
    <3>3. CASE state = "SHADOW"
      <4>1. advised = "PROBATION" BY <2>3, <3>3 DEF Advised
      <4> QED BY <2>3, <3>1, <3>3, <4>1
    <3>4. CASE state = "PROBATION"
      <4>1. advised = "RECOMMEND_PROMOTION" BY <2>3, <3>4 DEF Advised
      <4> QED BY <2>3, <3>1, <3>4, <4>1
    <3> QED BY <3>2, <3>3, <3>4 DEF OnTrial
  <2> QED BY <2>1, <2>2, <2>3
<1>2. action = LifecycleAction(advised, state) OBVIOUS
<1> HIDE DEF advised
<1>3. CASE advised = "REJECT"
  <2>1. action = "REJECT" BY <1>2, <1>3 DEF LifecycleAction
  <2>2. CASE state = "CANDIDATE" BY <2>1, <2>2, LifecycleTable
  <2>3. CASE state = "SHADOW" BY <2>1, <2>3, LifecycleTable
  <2>4. CASE state = "PROBATION" BY <2>1, <2>4, LifecycleTable
  <2> QED BY <2>2, <2>3, <2>4 DEF OnTrial
<1>4. CASE advised = "PROBATION"
  <2>1. action = "ENTER_PROBATION" /\ state = "SHADOW" BY <1>1, <1>2, <1>4 DEF LifecycleAction
  <2> QED BY <1>1, <1>4, <2>1, LifecycleTable
<1>5. CASE advised = "RECOMMEND_PROMOTION"
  <2>1. action = "RECOMMEND_PROMOTION" /\ state = "PROBATION" BY <1>1, <1>2, <1>5 DEF LifecycleAction
  <2> QED BY <1>1, <1>5, <2>1, LifecycleTable
<1>6. CASE advised = "EXTEND"
  <2>1. CASE state = "CANDIDATE"
    <3>1. action = "ENTER_SHADOW" BY <1>2, <1>6, <2>1 DEF LifecycleAction
    <3> QED BY <2>1, <3>1, LifecycleTable
  <2>2. CASE state = "SHADOW"
    <3>1. action = "EXTEND_SHADOW" BY <1>2, <1>6, <2>2 DEF LifecycleAction
    <3> QED BY <2>2, <3>1, LifecycleTable
  <2>3. CASE state = "PROBATION"
    <3>1. action = "EXTEND_PROBATION" BY <1>2, <1>6, <2>3 DEF LifecycleAction
    <3> QED BY <2>3, <3>1, LifecycleTable
  <2> QED BY <2>1, <2>2, <2>3 DEF OnTrial
<1> QED BY <1>1, <1>3, <1>4, <1>5, <1>6

LEMMA RecruitmentStart == ASSUME RecruitmentAssumption, RecruitmentInit PROVE RecruitmentInv
<1>1. 0 \in 0 .. MaxRevision BY DEF RecruitmentAssumption
<1> QED BY <1>1 DEF RecruitmentInit, RecruitmentInv, Records, Lifecycle

LEMMA CounselKeeps ==
  ASSUME RecruitmentInv, NEW c \in Candidates, NEW package \in Packages, Counsel(c, package) PROVE RecruitmentInv'
<1> DEFINE given == [action |-> Advised(package, candidate[c].state), state |-> candidate[c].state,
                     revision |-> candidate[c].revision, package |-> package]
<1>1. candidate[c].state \in OnTrial BY DEF Counsel, OnTrial
<1>2. candidate[c].revision \in 0 .. MaxRevision BY DEF RecruitmentInv, Records
<1>3. Given(given) /\ given.revision <= candidate[c].revision BY <1>1, <1>2 DEF Given
<1>4. advisory' = [advisory EXCEPT ![c] = given] /\ UNCHANGED <<candidate, draft, stints>> BY DEF Counsel
<1> HIDE DEF given
<1> QED BY <1>3, <1>4 DEF RecruitmentInv

\* A plan filed for the record as it is now.
LEMMA PlanningKeeps ==
  ASSUME RecruitmentInv, NEW c \in Candidates, NEW plan, Possible(plan), plan.revision = candidate[c].revision,
         draft' = [draft EXCEPT ![c] = plan], UNCHANGED <<candidate, advisory, stints>>
  PROVE  RecruitmentInv'
<1>1. candidate[c].revision \in 0 .. MaxRevision BY DEF RecruitmentInv, Records
<1>2. plan.revision <= candidate[c].revision BY <1>1
<1> QED BY <1>2 DEF RecruitmentInv

LEMMA PlanAdvisedKeeps ==
  ASSUME RecruitmentInv, NEW c \in Candidates, NEW active \in Actives, PlanAdvised(c, active) PROVE RecruitmentInv'
<1> DEFINE given == advisory[c]
           state == candidate[c].state
           action == LifecycleAction(given.action, state)
           plan == PlanFor(c, action, given)
<1>1. /\ given # NoDocument /\ given.revision = candidate[c].revision /\ given.state = state
      /\ ~Blocked(action, given.package, Cardinality(InShadow), active)
      /\ draft' = [draft EXCEPT ![c] = plan] /\ UNCHANGED <<candidate, advisory, stints>>
  BY DEF PlanAdvised
<1>2. Given(given) BY <1>1 DEF RecruitmentInv
<1>3. plan.action = action /\ plan.from = state /\ plan.revision = candidate[c].revision /\ plan.advisory = given
  BY DEF PlanFor
<1>4. state \in Lifecycle /\ candidate[c].revision \in Nat BY DEF RecruitmentInv, Records
<1>5. action \in DOMAIN Steps(state) BY <1>1, <1>2, AdvisedLeads DEF Given
<1>6. action \in {"ENTER_PROBATION", "RECOMMEND_PROMOTION"} => given.package.withinPolicy BY <1>1 DEF Blocked
<1> HIDE DEF plan, given, state, action
<1>7. action = LifecycleAction(given.action, state) BY DEF action
<1>8. Possible(plan) BY <1>1, <1>2, <1>3, <1>4, <1>5, <1>6, <1>7 DEF Possible, FromAdvisory
<1> QED BY <1>1, <1>3, <1>8, PlanningKeeps

LEMMA PlanTransitionKeeps ==
  ASSUME RecruitmentInv, NEW c \in Candidates, NEW action, PlanTransition(c, action) PROVE RecruitmentInv'
<1> DEFINE plan == PlanFor(c, action, NoDocument)
<1>1. /\ plan.action = action /\ plan.from = candidate[c].state /\ plan.revision = candidate[c].revision
      /\ plan.advisory = NoDocument
  BY DEF PlanFor
<1>2. candidate[c].state \in Lifecycle /\ candidate[c].revision \in Nat BY DEF RecruitmentInv, Records
<1>3. /\ action \in DOMAIN Steps(candidate[c].state)
      /\ draft' = [draft EXCEPT ![c] = plan] /\ UNCHANGED <<candidate, advisory, stints>>
  BY DEF PlanTransition
<1> HIDE DEF plan
<1>4. Possible(plan) BY <1>1, <1>2, <1>3 DEF Possible
<1> QED BY <1>1, <1>3, <1>4, PlanningKeeps

LEMMA RecordKeeps ==
  ASSUME RecruitmentAssumption, RecruitmentInv, NEW c \in Candidates, Record(c) PROVE RecruitmentInv'
<1> DEFINE state == Steps(candidate[c].state)[draft[c].action]
           record == [state |-> state, revision |-> candidate[c].revision + 1]
           passed == IF state = "CANDIDATE" THEN {state} ELSE stints[c] \cup {state}
<1>1. /\ candidate[c].state \in Lifecycle /\ candidate[c].revision \in 0 .. MaxRevision
      /\ candidate[c].state \in stints[c] /\ stints[c] \subseteq Lifecycle
      /\ candidate[c].state \in {"PROBATION", "PROMOTION_RECOMMENDED"} => {"SHADOW", "PROBATION"} \subseteq stints[c]
  BY DEF RecruitmentInv, Records
<1>2. /\ state \in Lifecycle
      /\ state = "PROBATION" => candidate[c].state \in {"SHADOW", "PROBATION", "PROMOTION_RECOMMENDED"}
      /\ state = "PROMOTION_RECOMMENDED" => candidate[c].state = "PROBATION"
  BY <1>1, StepsLead DEF Record
<1>3. /\ candidate' = [candidate EXCEPT ![c] = record] /\ stints' = [stints EXCEPT ![c] = passed]
      /\ UNCHANGED <<advisory, draft>> /\ candidate[c].revision < MaxRevision
  BY DEF Record
<1> HIDE DEF state
<1>4. /\ record \in Records /\ record.state = state /\ record.revision = candidate[c].revision + 1
      /\ candidate[c].revision <= record.revision
  BY <1>1, <1>2, <1>3 DEF Records, RecruitmentAssumption
<1>5. /\ passed \in SUBSET Lifecycle /\ state \in passed
      /\ state \in {"PROBATION", "PROMOTION_RECOMMENDED"} => {"SHADOW", "PROBATION"} \subseteq passed
  BY <1>1, <1>2
<1> HIDE DEF record, passed
<1>6. candidate' \in [Candidates -> Records] /\ stints' \in [Candidates -> SUBSET Lifecycle]
  BY <1>3, <1>4, <1>5 DEF RecruitmentInv
<1>7. ASSUME NEW d \in Candidates
      PROVE  /\ candidate'[d].state \in stints'[d]
             /\ candidate'[d].state \in {"PROBATION", "PROMOTION_RECOMMENDED"} =>
                  {"SHADOW", "PROBATION"} \subseteq stints'[d]
             /\ candidate[d].revision <= candidate'[d].revision
  <2>1. CASE d = c BY <1>3, <1>4, <1>5, <2>1 DEF RecruitmentInv
  <2>2. CASE d # c
    <3>1. candidate'[d] = candidate[d] /\ stints'[d] = stints[d] BY <1>3, <2>2 DEF RecruitmentInv
    <3>2. candidate[d].revision \in 0 .. MaxRevision BY DEF RecruitmentInv, Records
    <3> QED BY <3>1, <3>2 DEF RecruitmentInv
  <2> QED BY <2>1, <2>2
<1>8. ASSUME NEW d \in Candidates
      PROVE  /\ advisory[d] # NoDocument => Given(advisory[d]) /\ advisory[d].revision <= candidate'[d].revision
             /\ draft[d] # NoDocument => Possible(draft[d]) /\ draft[d].revision <= candidate'[d].revision
  <2>1. /\ candidate[d].revision \in Int /\ candidate'[d].revision \in Int
        /\ candidate[d].revision <= candidate'[d].revision
    BY <1>6, <1>7 DEF RecruitmentInv, Records
  <2>2. ASSUME advisory[d] # NoDocument PROVE Given(advisory[d]) /\ advisory[d].revision <= candidate'[d].revision
    <3>1. Given(advisory[d]) /\ advisory[d].revision <= candidate[d].revision BY <2>2 DEF RecruitmentInv
    <3> QED BY <2>1, <3>1 DEF Given
  <2>3. ASSUME draft[d] # NoDocument PROVE Possible(draft[d]) /\ draft[d].revision <= candidate'[d].revision
    <3>1. Possible(draft[d]) /\ draft[d].revision <= candidate[d].revision BY <2>3 DEF RecruitmentInv
    <3> QED BY <2>1, <3>1 DEF Possible
  <2> QED BY <2>2, <2>3
<1> QED BY <1>3, <1>6, <1>7, <1>8 DEF RecruitmentInv

LEMMA RecruitmentStepKeeps ==
  ASSUME RecruitmentAssumption, RecruitmentInv, [RecruitmentNext]_recruitmentVars PROVE RecruitmentInv'
<1>1. CASE UNCHANGED recruitmentVars BY <1>1 DEF recruitmentVars, RecruitmentInv
<1>2. CASE RecruitmentNext
  <2>1. PICK c \in Candidates :
          \/ \E package \in Packages : Counsel(c, package)
          \/ \E active \in Actives : PlanAdvised(c, active)
          \/ \E action \in Actions : PlanTransition(c, action)
          \/ Record(c)
    BY <1>2 DEF RecruitmentNext
  <2>2. CASE \E package \in Packages : Counsel(c, package) BY <2>2, CounselKeeps
  <2>3. CASE \E active \in Actives : PlanAdvised(c, active) BY <2>3, PlanAdvisedKeeps
  <2>4. CASE \E action \in Actions : PlanTransition(c, action) BY <2>4, PlanTransitionKeeps
  <2>5. CASE Record(c) BY <2>5, RecordKeeps
  <2> QED BY <2>1, <2>2, <2>3, <2>4, <2>5
<1> QED BY <1>1, <1>2

\* Only a recorded transition moves a candidate, and its own.
LEMMA OnlyRecordMoves ==
  ASSUME RecruitmentInv, [RecruitmentNext]_recruitmentVars, NEW c \in Candidates, candidate'[c] # candidate[c]
  PROVE  Record(c)
<1>1. candidate' # candidate BY DEF RecruitmentInv
<1>2. RecruitmentNext BY <1>1 DEF recruitmentVars
<1>3. PICK d \in Candidates : Record(d)
  BY <1>1, <1>2 DEF RecruitmentNext, Counsel, PlanAdvised, PlanTransition
<1>4. d = c BY <1>3 DEF Record, RecruitmentInv
<1> QED BY <1>3, <1>4

\* The step of one candidate on an advisory.
LEMMA AdviceHolds ==
  ASSUME RecruitmentInv, [RecruitmentNext]_recruitmentVars, NEW c \in Candidates,
         candidate'[c] # candidate[c], draft[c].advisory # NoDocument
  PROVE  LET given == draft[c].advisory
         IN  /\ given.revision = candidate[c].revision
             /\ candidate'[c].state \in {"PROBATION", "PROMOTION_RECOMMENDED"} \ {candidate[c].state} =>
                  /\ given.package.promotionGrade /\ given.package.criteria = "PASSED"
                  /\ given.package.withinBudget /\ given.package.withinPolicy
<1> DEFINE given == draft[c].advisory
           state == candidate[c].state
           action == draft[c].action
<1>1. Record(c) BY OnlyRecordMoves
<1>2. /\ draft[c] # NoDocument /\ draft[c].revision = candidate[c].revision /\ draft[c].from = state
      /\ candidate'[c].state = Steps(state)[action]
  BY <1>1 DEF Record, Applies, RecruitmentInv
<1>3. FromAdvisory(draft[c]) BY <1>2 DEF RecruitmentInv, Possible
<1>4. /\ given.state = state /\ given.revision = candidate[c].revision
      /\ state \in OnTrial /\ given.package \in Packages
      /\ action = LifecycleAction(Advised(given.package, state), state)
      /\ action \in {"ENTER_PROBATION", "RECOMMEND_PROMOTION"} => given.package.withinPolicy
  BY <1>2, <1>3 DEF FromAdvisory, Given
<1>5. Steps(state)[action] \in {"PROBATION", "PROMOTION_RECOMMENDED"} \ {state} =>
        /\ action \in {"ENTER_PROBATION", "RECOMMEND_PROMOTION"}
        /\ given.package.promotionGrade /\ given.package.criteria = "PASSED" /\ given.package.withinBudget
  BY <1>4, AdvisedLeads
<1> HIDE DEF given, state, action
<1>6. /\ given.revision = candidate[c].revision
      /\ candidate'[c].state \in {"PROBATION", "PROMOTION_RECOMMENDED"} \ {state} =>
           /\ given.package.promotionGrade /\ given.package.criteria = "PASSED"
           /\ given.package.withinBudget /\ given.package.withinPolicy
  BY <1>2, <1>4, <1>5
<1> QED BY <1>6 DEF given, state

LEMMA RecruitmentInvImplies == ASSUME RecruitmentInv PROVE RecruitmentTypeOK /\ NoShortcut
<1>1. RecruitmentTypeOK BY DEF RecruitmentInv, RecruitmentTypeOK, Records, Possible
<1>2. NoShortcut BY DEF RecruitmentInv, NoShortcut
<1> QED BY <1>1, <1>2

\* Recruitment's PromotionEarned: whatever the number of candidates, of documents that
\* have grown old and of times a candidate was sent back or reopened, a promotion is
\* recommended only after the shadow and probation, and an advisory moves only the
\* record it was given for, forward only on evidence that passed
\* (recruitment/lifecycle.py and advisory_transition.py).
THEOREM PromotionAlwaysEarned == ASSUME RecruitmentAssumption PROVE RecruitmentSpec => PromotionEarned
<1>1. RecruitmentInit => RecruitmentInv BY RecruitmentStart
<1>2. RecruitmentInv /\ [RecruitmentNext]_recruitmentVars => RecruitmentInv' BY RecruitmentStepKeeps
<1>3. RecruitmentInv => RecruitmentTypeOK /\ NoShortcut BY RecruitmentInvImplies
<1>4. RecruitmentInv /\ [RecruitmentNext]_recruitmentVars =>
        [\A c \in Candidates :
           candidate'[c] # candidate[c] /\ draft[c].advisory # NoDocument =>
             LET given == draft[c].advisory
             IN  /\ given.revision = candidate[c].revision
                 /\ candidate'[c].state \in {"PROBATION", "PROMOTION_RECOMMENDED"} \ {candidate[c].state} =>
                      /\ given.package.promotionGrade /\ given.package.criteria = "PASSED"
                      /\ given.package.withinBudget /\ given.package.withinPolicy]_recruitmentVars
  BY AdviceHolds
<1> QED BY <1>1, <1>2, <1>3, <1>4, PTL DEF RecruitmentSpec, PromotionEarned, AdviceStillHolds

---------------------------------------------------------------------------
(* Task forces.  Their budgets are sums over the members (SetProofs).        *)

\* What the members' shares add up to is such a sum.
LEMMA AcrossIsSum == ASSUME NEW f PROVE AcrossMembers(f) = Sums(f, Squad)[Squad]
BY Zenon DEF AcrossMembers, MapThenSumSet, MapThenFoldSet, Sums, SumStep, Pick

---------------------------------------------------------------------------
(* The invariant of the task forces: the documents a run may rest on, and   *)
(* what every run says of its plan, its calls and its charges.              *)

Compositions == {Composition(p) : p \in Plans}
LifecycleRecords == [of : Compositions, expires : 1 .. RequestEnd, state : States, updated : Nat]
Contracts == [plan : Plans, prepared : Nat]
Executions == [plan : Plans, quote : Quotes, at : 1 .. Size + 1, status : {"WAITING", "BLOCKED", "FAILED", "COMPLETED"},
               before : Usage, after : Usage, answers : Nat, accounted : BOOLEAN]

DocumentsInv ==
  /\ now \in 0 .. EndOfTime /\ transitions \in 0 .. MaxTransitions
  /\ records \subseteq LifecycleRecords
  /\ \A r \in records : r.updated <= now /\ (r.state = "APPROVED_FOR_EXECUTION" => r.of \in approved)
  /\ contracts \subseteq Contracts /\ \A c \in contracts : Composition(c.plan) \in approved \cap allowed

\* A run called as many members as answered, and waits only for a call that the
\* compute gate let through.
Paced(turn) ==
  /\ turn.answers = turn.at - 1 /\ (turn.status = "COMPLETED" <=> turn.at = Size + 1)
  /\ turn.status = "WAITING" => ComputeAllows(turn.plan, turn.after, turn.at, turn.quote)

\* A run charged nothing, or stayed within its plan and policy but for its excess.
TotalMost(turn) == Least(AcrossMembers(turn.plan.budget), turn.plan.policy.total)
CallsMost(turn) == Least(AcrossMembers(turn.plan.calls), turn.plan.policy.totalCalls)
MemberMost(turn, m) == Least(turn.plan.budget[m], turn.plan.policy.member)
MemberCallsMost(turn, m) == Least(turn.plan.calls[m], turn.plan.policy.memberCalls)
Kept(turn) ==
  /\ \/ AcrossMembers(turn.after.spent) = AcrossMembers(turn.before.spent)
     \/ AcrossMembers(turn.after.spent) <= TotalMost(turn) + Excess(turn)
  /\ \/ AcrossMembers(turn.after.calls) = AcrossMembers(turn.before.calls)
     \/ AcrossMembers(turn.after.calls) <= CallsMost(turn)
  /\ \A m \in Squad :
       /\ turn.after.spent[m] = turn.before.spent[m] \/ turn.after.spent[m] <= MemberMost(turn, m) + Excess(turn)
       /\ turn.after.calls[m] = turn.before.calls[m] \/ turn.after.calls[m] <= MemberCallsMost(turn, m)

Money(turn, bill) ==
  /\ turn.accounted => AcrossMembers(turn.after.spent) = AcrossMembers(turn.before.spent) + bill
  /\ Kept(turn)

RunsInv ==
  /\ runs \in Seq(Executions) /\ charged \in Seq(Nat) /\ Len(charged) = Len(runs)
  /\ \A i \in DOMAIN runs :
       /\ \E c \in contracts : c.plan = runs[i].plan
       /\ Paced(runs[i]) /\ Money(runs[i], charged[i])
  /\ reports \subseteq DOMAIN runs /\ \A i \in reports : Aggregable(runs[i])

TaskForceInv == DocumentsInv /\ RunsInv

\* There is a most that a call is charged.
LEMMA CostsBounded ==
  ASSUME TaskForceAssumption PROVE \E most \in Nat : \A price \in Costs : price <= most
<1> DEFINE odd == {T \in SUBSET Costs : ~ \E most \in Nat : \A price \in T : price <= most}
<1>1. IsFiniteSet(Costs) /\ Costs \subseteq Nat BY DEF TaskForceAssumption
<1>2. SUFFICES ASSUME odd # {} PROVE FALSE OBVIOUS
<1>3. PICK T \in odd : \A x \in T : T \ {x} \notin odd BY <1>1, <1>2, SmallestSubset
<1>4. T # {} OBVIOUS
<1>5. PICK x \in T : TRUE BY <1>4
<1>6. PICK most \in Nat : \A price \in T \ {x} : price <= most BY <1>3, <1>5
<1>7. x \in Nat BY <1>1
<1>8. CASE x <= most
  <2>1. \A price \in T : price <= most BY <1>6, <1>8
  <2> QED BY <2>1
<1>9. CASE ~(x <= most)
  <2>1. \A price \in T : price <= x BY <1>1, <1>6, <1>7, <1>9
  <2> QED BY <1>7, <2>1
<1> QED BY <1>8, <1>9

\* The excess of a call over its quote: a charge above it, or none.
LEMMA ExcessIsMost ==
  ASSUME TaskForceAssumption, NEW execution \in Executions, NEW most \in Nat, \A price \in Costs : price <= most
  PROVE  /\ Excess(execution) \in 0 .. most
         /\ \A price \in Costs : price <= execution.quote.eur + Excess(execution)
<1> DEFINE eur == execution.quote.eur
           T == {0} \cup {c - eur : c \in Costs}
<1>1. eur \in Nat /\ Costs \subseteq Nat
  <2>1. execution.quote \in Quotes BY DEF Executions
  <2> QED BY <2>1 DEF TaskForceAssumption
<1> HIDE DEF eur
<1>2. T \subseteq Int /\ 0 \in T /\ \A n \in T : n <= most BY <1>1
<1>3. Max(T) \in T /\ \A n \in T : n <= Max(T)
  <2> HIDE DEF T
  <2>1. most \in Int OBVIOUS
  <2> QED BY <1>2, <2>1, LargestInteger, Zenon
<1>4. Excess(execution) = Max(T) BY DEF Excess, eur
<1>5. Max(T) \in 0 .. most BY <1>2, <1>3
<1>6. ASSUME NEW price \in Costs PROVE price <= eur + Max(T)
  <2>1. price - eur \in T OBVIOUS
  <2>2. price - eur <= Max(T) BY <1>3, <2>1
  <2> QED BY <1>1, <1>5, <2>2
<1> QED BY <1>4, <1>5, <1>6 DEF eur

LEMMA SquadFinite == ASSUME TaskForceAssumption PROVE IsFiniteSet(Squad)
BY FS_Interval DEF TaskForceAssumption, Squad

\* The sums of what the members spent and were given.
LEMMA AcrossNat ==
  ASSUME TaskForceAssumption, NEW f \in [Squad -> Nat]
  PROVE  AcrossMembers(f) \in Nat /\ ((\A m \in Squad : f[m] = 0) => AcrossMembers(f) = 0)
BY SquadFinite, SumsOfNat, AcrossIsSum

LEMMA AcrossAdd ==
  ASSUME TaskForceAssumption, NEW f \in [Squad -> Nat], NEW m \in Squad, NEW more \in Nat
  PROVE  AcrossMembers([f EXCEPT ![m] = @ + more]) = AcrossMembers(f) + more
<1>1. f \in [Squad -> Int] /\ more \in Int OBVIOUS
<1>2. Sums([f EXCEPT ![m] = @ + more], Squad)[Squad] = Sums(f, Squad)[Squad] + more
  BY <1>1, SquadFinite, SumsAdd, Zenon
<1> QED BY <1>2, AcrossIsSum

\* The limits of a run are numbers.
LEMMA LimitsType ==
  ASSUME TaskForceAssumption, NEW execution \in Executions
  PROVE  /\ TotalMost(execution) \in Nat /\ CallsMost(execution) \in Nat
         /\ \A m \in Squad : MemberMost(execution, m) \in Nat /\ MemberCallsMost(execution, m) \in Nat
<1> DEFINE plan == execution.plan
<1>1. plan \in Plans BY DEF Executions
<1>2. plan.budget \in [Squad -> Nat] /\ plan.calls \in [Squad -> Nat] /\ plan.policy \in TaskPolicies
  BY <1>1 DEF TaskForceAssumption
<1>3. /\ plan.policy.total \in Nat /\ plan.policy.totalCalls \in Nat
      /\ plan.policy.member \in Nat /\ plan.policy.memberCalls \in Nat
  BY <1>2 DEF TaskForceAssumption
<1>4. AcrossMembers(plan.budget) \in Nat /\ AcrossMembers(plan.calls) \in Nat BY <1>2, AcrossNat
<1>5. ASSUME NEW m \in Squad PROVE plan.budget[m] \in Nat /\ plan.calls[m] \in Nat BY <1>2
<1>6. /\ TotalMost(execution) = Least(AcrossMembers(plan.budget), plan.policy.total)
      /\ CallsMost(execution) = Least(AcrossMembers(plan.calls), plan.policy.totalCalls)
      /\ \A m \in Squad : /\ MemberMost(execution, m) = Least(plan.budget[m], plan.policy.member)
                          /\ MemberCallsMost(execution, m) = Least(plan.calls[m], plan.policy.memberCalls)
  BY DEF TotalMost, CallsMost, MemberMost, MemberCallsMost, plan
<1> QED BY <1>3, <1>4, <1>5, <1>6 DEF Least

\* What a run owes depends on its plan, its quote and its usages.
LEMMA MoneySame ==
  ASSUME NEW execution, NEW other, NEW bill, Money(execution, bill),
         other.plan = execution.plan, other.quote = execution.quote, other.before = execution.before,
         other.after = execution.after, other.accounted = execution.accounted
  PROVE  Money(other, bill)
<1>1. Excess(other) = Excess(execution) BY DEF Excess
<1>2. /\ TotalMost(other) = TotalMost(execution) /\ CallsMost(other) = CallsMost(execution)
      /\ \A m \in Squad : /\ MemberMost(other, m) = MemberMost(execution, m)
                          /\ MemberCallsMost(other, m) = MemberCallsMost(execution, m)
  BY DEF TotalMost, CallsMost, MemberMost, MemberCallsMost
<1>3. Kept(other) BY <1>1, <1>2 DEF Money, Kept
<1> QED BY <1>3 DEF Money

\* The next call of a run is let through, or refused, or there is none.
LEMMA CallingKeeps ==
  ASSUME TaskForceAssumption, NEW execution \in Executions, NEW bill, Money(execution, bill),
         execution.answers = execution.at - 1
  PROVE  /\ Called(execution) \in Executions /\ Paced(Called(execution)) /\ Money(Called(execution), bill)
         /\ Called(execution).plan = execution.plan
<1> DEFINE status == IF execution.at > Size THEN "COMPLETED"
                     ELSE IF ComputeAllows(execution.plan, execution.after, execution.at, execution.quote)
                          THEN "WAITING" ELSE "BLOCKED"
           next == [execution EXCEPT !.status = status]
<1>1. Called(execution) = next BY DEF Called
<1>2. /\ status \in {"WAITING", "BLOCKED", "COMPLETED"} /\ (status = "COMPLETED" <=> execution.at > Size)
      /\ status = "WAITING" => ComputeAllows(execution.plan, execution.after, execution.at, execution.quote)
  OBVIOUS
<1> HIDE DEF status
<1>3. next \in Executions BY <1>2 DEF Executions
<1>4. /\ next.status = status /\ next.plan = execution.plan /\ next.quote = execution.quote /\ next.at = execution.at
      /\ next.before = execution.before /\ next.after = execution.after /\ next.answers = execution.answers
      /\ next.accounted = execution.accounted
  BY DEF Executions
<1> HIDE DEF next
<1>5. execution.at \in 1 .. Size + 1 /\ Size \in Nat BY DEF Executions, TaskForceAssumption
<1>6. next.status = "COMPLETED" <=> next.at = Size + 1 BY <1>2, <1>4, <1>5
<1>7. Paced(next) BY <1>2, <1>4, <1>6 DEF Paced
<1>8. Money(next, bill) BY <1>4, MoneySame
<1> QED BY <1>1, <1>3, <1>4, <1>7, <1>8

\* A charge of a call that was let through is in the usage, and within the plan but
\* for its excess over the quote.
LEMMA ChargingKeeps ==
  ASSUME TaskForceAssumption, NEW execution \in Executions, NEW bill \in Nat, Money(execution, bill), Paced(execution),
         execution.status = "WAITING", NEW price \in Costs
  PROVE  LET next == [execution EXCEPT !.after = Advanced(@, execution.at, price)]
         IN  /\ next \in Executions /\ Money(next, bill + price) /\ execution.at \in Squad
             /\ \A field \in DOMAIN execution \ {"after"} : next[field] = execution[field]
<1> DEFINE m == execution.at
           usage == execution.after
           paid == [usage.spent EXCEPT ![m] = @ + price]
           calls == [usage.calls EXCEPT ![m] = @ + 1]
           after == [spent |-> paid, calls |-> calls]
           next == [execution EXCEPT !.after = after]
<1>1. m \in Squad
  <2>1. m \in 1 .. Size + 1 /\ m # Size + 1 /\ Size \in Nat BY DEF Executions, Paced, TaskForceAssumption
  <2> QED BY <2>1 DEF Squad
<1>2. usage.spent \in [Squad -> Nat] /\ usage.calls \in [Squad -> Nat] BY DEF Executions, Usage
<1>3. price \in Nat BY DEF TaskForceAssumption
<1>4. paid \in [Squad -> Nat] /\ calls \in [Squad -> Nat] BY <1>1, <1>2, <1>3
<1>5. /\ paid[m] = usage.spent[m] + price /\ calls[m] = usage.calls[m] + 1
      /\ \A k \in Squad \ {m} : paid[k] = usage.spent[k] /\ calls[k] = usage.calls[k]
  BY <1>1, <1>2
<1>6. /\ AcrossMembers(paid) = AcrossMembers(usage.spent) + price
      /\ AcrossMembers(calls) = AcrossMembers(usage.calls) + 1
  BY <1>1, <1>2, <1>3, AcrossAdd
<1>7. next = [execution EXCEPT !.after = Advanced(@, execution.at, price)] BY DEF Advanced
<1> HIDE DEF paid, calls
<1>8. after \in Usage /\ after.spent = paid /\ after.calls = calls BY <1>4 DEF Usage
<1> HIDE DEF after
<1>9. next \in Executions /\ next.after = after /\ \A field \in DOMAIN execution \ {"after"} : next[field] = execution[field]
  BY <1>8 DEF Executions
<1>10. /\ next.plan = execution.plan /\ next.quote = execution.quote /\ next.before = execution.before
       /\ next.accounted = execution.accounted
  BY <1>9 DEF Executions
<1> HIDE DEF next
<1>11. /\ AcrossMembers(usage.spent) + execution.quote.eur <= TotalMost(execution)
       /\ usage.spent[m] + execution.quote.eur <= MemberMost(execution, m)
       /\ AcrossMembers(usage.calls) + 1 <= CallsMost(execution)
       /\ usage.calls[m] + 1 <= MemberCallsMost(execution, m)
  BY DEF Paced, ComputeAllows, TotalMost, MemberMost, CallsMost, MemberCallsMost
<1>12. PICK most \in Nat : \A fee \in Costs : fee <= most BY CostsBounded
<1>13. Excess(execution) \in Nat /\ price <= execution.quote.eur + Excess(execution) BY <1>12, ExcessIsMost
<1>14. execution.quote.eur \in Nat
  <2>1. execution.quote \in Quotes BY DEF Executions
  <2> QED BY <2>1 DEF TaskForceAssumption
<1>15. /\ TotalMost(execution) \in Nat /\ CallsMost(execution) \in Nat
       /\ \A k \in Squad : MemberMost(execution, k) \in Nat /\ MemberCallsMost(execution, k) \in Nat
  BY LimitsType
<1>16. AcrossMembers(usage.spent) \in Nat /\ AcrossMembers(usage.calls) \in Nat BY <1>2, AcrossNat
<1>17. AcrossMembers(paid) <= TotalMost(execution) + Excess(execution)
  BY <1>3, <1>6, <1>11, <1>13, <1>14, <1>15, <1>16
<1>18. AcrossMembers(calls) <= CallsMost(execution) BY <1>6, <1>11
<1>19. ASSUME NEW k \in Squad
       PROVE  /\ paid[k] = execution.before.spent[k] \/ paid[k] <= MemberMost(execution, k) + Excess(execution)
              /\ calls[k] = execution.before.calls[k] \/ calls[k] <= MemberCallsMost(execution, k)
  <2>1. CASE k = m
    <3>1. usage.spent[m] \in Nat /\ MemberMost(execution, m) \in Nat BY <1>1, <1>2, <1>15
    <3>2. paid[m] <= MemberMost(execution, m) + Excess(execution) BY <1>3, <1>5, <1>11, <1>13, <1>14, <3>1
    <3>3. calls[m] <= MemberCallsMost(execution, m) BY <1>5, <1>11
    <3> QED BY <2>1, <3>2, <3>3
  <2>2. CASE k # m
    <3>1. paid[k] = usage.spent[k] /\ calls[k] = usage.calls[k] BY <1>5, <2>2
    <3> QED BY <3>1 DEF Money, Kept
  <2> QED BY <2>1, <2>2
<1>20. Excess(next) = Excess(execution) BY <1>10 DEF Excess
<1>21. /\ TotalMost(next) = TotalMost(execution) /\ CallsMost(next) = CallsMost(execution)
       /\ \A k \in Squad : /\ MemberMost(next, k) = MemberMost(execution, k)
                           /\ MemberCallsMost(next, k) = MemberCallsMost(execution, k)
  BY <1>10 DEF TotalMost, CallsMost, MemberMost, MemberCallsMost
<1>22. Kept(next) BY <1>8, <1>9, <1>10, <1>17, <1>18, <1>19, <1>20, <1>21 DEF Kept
<1>23. next.accounted => AcrossMembers(next.after.spent) = AcrossMembers(next.before.spent) + (bill + price)
  <2>1. execution.accounted => AcrossMembers(usage.spent) = AcrossMembers(execution.before.spent) + bill BY DEF Money
  <2>2. AcrossMembers(execution.before.spent) \in Nat
    <3>1. execution.before.spent \in [Squad -> Nat] BY DEF Executions, Usage
    <3> QED BY <3>1, AcrossNat
  <2> QED BY <1>3, <1>6, <1>8, <1>9, <1>10, <1>16, <2>1, <2>2
<1>24. Money(next, bill + price) BY <1>22, <1>23 DEF Money
<1> QED BY <1>1, <1>7, <1>9, <1>24

\* A run that waits may go on: no report is about it.
LEMMA RunMoves ==
  ASSUME TaskForceAssumption, RunsInv, NEW i \in DOMAIN runs, runs[i].status = "WAITING", NEW price \in Nat,
         NEW next \in Executions, Paced(next), Money(next, charged[i] + price), next.plan = runs[i].plan,
         runs' = [runs EXCEPT ![i] = next], charged' = [charged EXCEPT ![i] = @ + price],
         UNCHANGED <<contracts, reports>>
  PROVE  RunsInv'
<1>1. /\ runs \in Seq(Executions) /\ charged \in Seq(Nat) /\ Len(charged) = Len(runs)
      /\ reports \subseteq DOMAIN runs /\ \A j \in reports : Aggregable(runs[j])
  BY DEF RunsInv
<1>2. i \in DOMAIN charged /\ charged[i] + price \in Nat BY <1>1
<1>3. /\ runs' \in Seq(Executions) /\ Len(runs') = Len(runs) /\ DOMAIN runs' = DOMAIN runs
      /\ runs'[i] = next /\ \A j \in DOMAIN runs \ {i} : runs'[j] = runs[j]
  BY <1>1
<1>4. /\ charged' \in Seq(Nat) /\ Len(charged') = Len(charged)
      /\ charged'[i] = charged[i] + price /\ \A j \in DOMAIN runs \ {i} : charged'[j] = charged[j]
  BY <1>1, <1>2
<1>5. ASSUME NEW j \in DOMAIN runs'
      PROVE  /\ \E c \in contracts' : c.plan = runs'[j].plan
             /\ Paced(runs'[j]) /\ Money(runs'[j], charged'[j])
  <2>1. CASE j = i BY <1>3, <1>4, <2>1 DEF RunsInv
  <2>2. CASE j # i BY <1>3, <1>4, <2>2 DEF RunsInv
  <2> QED BY <2>1, <2>2
<1>6. i \notin reports BY <1>1 DEF Aggregable
<1>7. \A j \in reports : runs'[j] = runs[j] BY <1>1, <1>3, <1>6
<1>8. \A j \in reports' : Aggregable(runs'[j]) BY <1>1, <1>7
<1>9. (\A j \in DOMAIN runs : /\ \E c \in contracts : c.plan = runs[j].plan
                              /\ Paced(runs[j]) /\ Money(runs[j], charged[j]))'
  BY <1>5
<1>10. (\A j \in reports : Aggregable(runs[j]))' BY <1>8
<1> QED BY <1>1, <1>3, <1>4, <1>9, <1>10 DEF RunsInv

LEMMA MemberAnswersKeeps ==
  ASSUME TaskForceAssumption, RunsInv, NEW i, NEW price \in Costs, NEW tries, NEW valid \in BOOLEAN,
         MemberAnswers(i, price, tries, valid)
  PROVE  RunsInv'
<1>1. /\ i \in DOMAIN runs /\ runs[i].status = "WAITING" /\ charged' = [charged EXCEPT ![i] = @ + price]
      /\ UNCHANGED <<contracts, reports>> /\ runs' = [runs EXCEPT ![i] = Answered(runs[i], price, tries, valid)]
  BY DEF MemberAnswers, Charging
<1> DEFINE execution == runs[i]
           counted == [execution EXCEPT !.after = Advanced(@, execution.at, price)]
           answered == [counted EXCEPT !.answers = @ + 1, !.at = @ + 1]
           refused == [counted EXCEPT !.status = "FAILED"]
           next == Answered(execution, price, tries, valid)
           bill == charged[i] + price
<1>2. execution \in Executions /\ Paced(execution) /\ Money(execution, charged[i]) /\ charged[i] \in Nat
  BY <1>1 DEF RunsInv
<1>3. price \in Nat BY DEF TaskForceAssumption
<1>4. next = Called(answered) \/ next = refused BY DEF Answered
<1> HIDE DEF execution
<1>5. /\ counted \in Executions /\ Money(counted, bill) /\ execution.at \in Squad
      /\ \A field \in DOMAIN execution \ {"after"} : counted[field] = execution[field]
  BY <1>1, <1>2, ChargingKeeps DEF execution
<1>6. /\ counted.answers = execution.answers /\ counted.at = execution.at /\ counted.plan = execution.plan
      /\ execution.answers = execution.at - 1 /\ execution.status = "WAITING"
  BY <1>1, <1>2, <1>5 DEF Executions, Paced, execution
<1> HIDE DEF counted, bill
<1>7. counted.at \in 1 .. Size /\ Size \in Nat BY <1>5, <1>6 DEF Squad, TaskForceAssumption
<1>8. answered \in Executions /\ answered.answers = answered.at - 1
  <2> DEFINE answers == counted.answers + 1
             at == counted.at + 1
  <2>1. counted.answers \in Nat /\ counted.answers = counted.at - 1 BY <1>5, <1>6 DEF Executions
  <2>2. answers \in Nat /\ at \in 1 .. Size + 1 /\ answers = at - 1 BY <1>7, <2>1
  <2>3. answered = [counted EXCEPT !.answers = answers, !.at = at] OBVIOUS
  <2> HIDE DEF answers, at
  <2> QED BY <1>5, <2>2, <2>3 DEF Executions
<1>9. /\ answered.plan = counted.plan /\ answered.quote = counted.quote /\ answered.before = counted.before
      /\ answered.after = counted.after /\ answered.accounted = counted.accounted
  BY <1>5 DEF Executions
<1>10. refused \in Executions /\ refused.at = counted.at /\ refused.answers = counted.answers /\ refused.status = "FAILED"
  BY <1>5 DEF Executions
<1>11. /\ refused.plan = counted.plan /\ refused.quote = counted.quote /\ refused.before = counted.before
       /\ refused.after = counted.after /\ refused.accounted = counted.accounted
  BY <1>5 DEF Executions
<1> HIDE DEF answered, refused, next
<1>12. CASE next = Called(answered)
  <2>1. Money(answered, bill) BY <1>5, <1>9, MoneySame
  <2>2. next \in Executions /\ Paced(next) /\ Money(next, bill) /\ next.plan = execution.plan
    BY <1>6, <1>8, <1>9, <1>12, <2>1, CallingKeeps
  <2> QED BY <1>1, <1>3, <2>2, RunMoves DEF next, execution, bill
<1>13. CASE next = refused
  <2>1. Money(refused, bill) BY <1>5, <1>11, MoneySame
  <2>2. Paced(refused) BY <1>6, <1>7, <1>10 DEF Paced
  <2>3. next \in Executions /\ Paced(next) /\ Money(next, bill) /\ next.plan = execution.plan
    BY <1>6, <1>10, <1>11, <1>13, <2>1, <2>2
  <2> QED BY <1>1, <1>3, <2>3, RunMoves DEF next, execution, bill
<1> QED BY <1>4, <1>12, <1>13

LEMMA FailKeeps ==
  ASSUME TaskForceAssumption, RunsInv, NEW i, NEW price \in Costs, Fail(i, price) PROVE RunsInv'
<1> DEFINE execution == runs[i]
           next == [execution EXCEPT !.status = "FAILED", !.accounted = FALSE]
<1>1. /\ i \in DOMAIN runs /\ runs[i].status = "WAITING" /\ charged' = [charged EXCEPT ![i] = @ + price]
      /\ UNCHANGED <<contracts, reports>> /\ runs' = [runs EXCEPT ![i] = next]
  BY DEF Fail, Charging
<1>2. execution \in Executions /\ Paced(execution) /\ Money(execution, charged[i]) /\ price \in Nat
  BY <1>1 DEF RunsInv, TaskForceAssumption
<1>3. /\ next \in Executions /\ next.plan = execution.plan /\ next.quote = execution.quote
      /\ next.before = execution.before /\ next.after = execution.after /\ next.at = execution.at
      /\ next.answers = execution.answers /\ next.status = "FAILED" /\ next.accounted = FALSE
  BY <1>2 DEF Executions
<1> HIDE DEF next
<1>4. Paced(next) BY <1>1, <1>2, <1>3 DEF Paced
<1>5. Kept(next)
  <2>1. Excess(next) = Excess(execution) BY <1>3 DEF Excess
  <2>2. /\ TotalMost(next) = TotalMost(execution) /\ CallsMost(next) = CallsMost(execution)
        /\ \A m \in Squad : /\ MemberMost(next, m) = MemberMost(execution, m)
                            /\ MemberCallsMost(next, m) = MemberCallsMost(execution, m)
    BY <1>3 DEF TotalMost, CallsMost, MemberMost, MemberCallsMost
  <2> QED BY <1>2, <1>3, <2>1, <2>2 DEF Money, Kept
<1>6. Money(next, charged[i] + price) BY <1>3, <1>5 DEF Money
<1> QED BY <1>1, <1>2, <1>3, <1>4, <1>6, RunMoves

LEMMA UnusedUsage ==
  ASSUME TaskForceAssumption
  PROVE  /\ Unused \in Usage /\ AcrossMembers(Unused.spent) = 0 /\ AcrossMembers(Unused.calls) = 0
         /\ \A m \in Squad : Unused.spent[m] = 0 /\ Unused.calls[m] = 0
<1>1. [m \in Squad |-> 0] \in [Squad -> Nat] /\ \A m \in Squad : [k \in Squad |-> 0][m] = 0 OBVIOUS
<1>2. AcrossMembers([m \in Squad |-> 0]) = 0 BY <1>1, AcrossNat
<1>3. Unused.spent = [m \in Squad |-> 0] /\ Unused.calls = [m \in Squad |-> 0] BY DEF Unused
<1>4. Unused \in Usage BY DEF Unused, Usage
<1> QED BY <1>1, <1>2, <1>3, <1>4

LEMMA StartRunKeeps ==
  ASSUME TaskForceAssumption, DocumentsInv, RunsInv,
         NEW c \in contracts, NEW policy, NEW usage \in KnownUsages, NEW quote \in Quotes, StartRun(c, policy, usage, quote)
  PROVE  RunsInv'
<1> DEFINE first == [plan |-> c.plan, quote |-> quote, at |-> 1, status |-> "WAITING",
                     before |-> usage, after |-> usage, answers |-> 0, accounted |-> TRUE]
           next == Called(first)
<1>1. runs' = Append(runs, next) /\ charged' = Append(charged, 0) /\ UNCHANGED <<contracts, reports>> BY DEF StartRun
<1>2. /\ runs \in Seq(Executions) /\ charged \in Seq(Nat) /\ Len(charged) = Len(runs)
      /\ reports \subseteq DOMAIN runs /\ \A j \in reports : Aggregable(runs[j])
  BY DEF RunsInv
<1>3. usage \in Usage
  <2>1. ASSUME NEW j \in DOMAIN runs PROVE runs[j].after \in Usage
    <3>1. runs[j] \in Executions BY <1>2
    <3> QED BY <3>1 DEF Executions
  <2> QED BY <2>1, UnusedUsage DEF KnownUsages
<1>4. c.plan \in Plans BY DEF DocumentsInv, Contracts
<1>5. first \in Executions
  <2>1. 1 \in 1 .. Size + 1 BY DEF TaskForceAssumption
  <2> QED BY <1>3, <1>4, <2>1 DEF Executions
<1>6. /\ first.plan = c.plan /\ first.before = usage /\ first.after = usage
      /\ first.answers = 0 /\ first.at = 1
  OBVIOUS
<1> HIDE DEF first
<1>7. Money(first, 0)
  <2>1. usage.spent \in [Squad -> Nat] BY <1>3 DEF Usage
  <2>2. AcrossMembers(usage.spent) = AcrossMembers(usage.spent) + 0 BY <2>1, AcrossNat
  <2> QED BY <1>6, <2>2 DEF Money, Kept
<1>8. next \in Executions /\ Paced(next) /\ Money(next, 0) /\ next.plan = c.plan
  BY <1>5, <1>6, <1>7, CallingKeeps
<1> HIDE DEF next
<1> DEFINE n == Len(runs)
<1>9. /\ runs' \in Seq(Executions) /\ Len(runs') = n + 1 /\ n \in Nat
      /\ runs'[n + 1] = next /\ \A j \in 1 .. n : runs'[j] = runs[j]
  BY <1>1, <1>2, <1>8
<1>10. /\ charged' \in Seq(Nat) /\ Len(charged') = n + 1
       /\ charged'[n + 1] = 0 /\ \A j \in 1 .. n : charged'[j] = charged[j]
  BY <1>1, <1>2
<1>11. ASSUME NEW j \in DOMAIN runs'
       PROVE  /\ \E d \in contracts' : d.plan = runs'[j].plan
              /\ Paced(runs'[j]) /\ Money(runs'[j], charged'[j])
  <2>1. CASE j = n + 1 BY <1>1, <1>8, <1>9, <1>10, <2>1
  <2>2. CASE j # n + 1
    <3>1. j \in 1 .. n /\ j \in DOMAIN runs BY <1>2, <1>9, <2>2
    <3> QED BY <1>1, <1>9, <1>10, <3>1 DEF RunsInv
  <2> QED BY <2>1, <2>2
<1>12. (\A j \in DOMAIN runs : /\ \E d \in contracts : d.plan = runs[j].plan
                               /\ Paced(runs[j]) /\ Money(runs[j], charged[j]))'
  BY <1>11
<1>13. (reports \subseteq DOMAIN runs /\ \A j \in reports : Aggregable(runs[j]))'
  <2>1. DOMAIN runs = 1 .. n /\ DOMAIN runs' = 1 .. n + 1 BY <1>2, <1>9
  <2>2. ASSUME NEW j \in reports PROVE j \in DOMAIN runs' /\ Aggregable(runs'[j])
    <3>1. j \in 1 .. n /\ runs'[j] = runs[j] BY <1>2, <1>9, <2>1
    <3> QED BY <1>2, <1>9, <2>1, <3>1
  <2> QED BY <1>1, <2>2
<1> QED BY <1>9, <1>10, <1>12, <1>13 DEF RunsInv

LEMMA AggregateKeeps == ASSUME RunsInv, NEW i, Aggregate(i) PROVE RunsInv'
<1>1. i \in DOMAIN runs /\ Aggregable(runs[i]) /\ reports' = reports \cup {i} /\ UNCHANGED <<contracts, runs, charged>>
  BY DEF Aggregate
<1>2. (\A j \in DOMAIN runs : /\ \E c \in contracts : c.plan = runs[j].plan
                              /\ Paced(runs[j]) /\ Money(runs[j], charged[j]))'
  BY <1>1 DEF RunsInv
<1>3. (reports \subseteq DOMAIN runs /\ \A j \in reports : Aggregable(runs[j]))' BY <1>1 DEF RunsInv
<1> QED BY <1>1, <1>2, <1>3 DEF RunsInv

\* The runs stand while documents are added.
LEMMA DocumentsLeaveRuns ==
  ASSUME RunsInv, contracts \subseteq contracts', UNCHANGED <<runs, charged, reports>> PROVE RunsInv'
<1>1. (\A j \in DOMAIN runs : /\ \E c \in contracts : c.plan = runs[j].plan
                              /\ Paced(runs[j]) /\ Money(runs[j], charged[j]))'
  BY DEF RunsInv
<1>2. (reports \subseteq DOMAIN runs /\ \A j \in reports : Aggregable(runs[j]))' BY DEF RunsInv
<1> QED BY <1>1, <1>2 DEF RunsInv

LEMMA StartLifecycleKeeps ==
  ASSUME TaskForceAssumption, DocumentsInv, NEW p \in Plans, StartLifecycle(p) PROVE DocumentsInv'
<1> DEFINE record == [of |-> Composition(p), expires |-> p.expires, state |-> "PLANNED", updated |-> 0]
<1>1. p.expires \in 1 .. RequestEnd BY DEF TaskForceAssumption
<1>2. record \in LifecycleRecords /\ record.updated = 0 /\ record.state = "PLANNED"
  BY <1>1 DEF LifecycleRecords, Compositions, States
<1>3. /\ records' = records \cup {record} /\ UNCHANGED <<now, allowed, contracts, approved, transitions>>
  BY DEF StartLifecycle
<1>4. 0 <= now BY DEF DocumentsInv
<1> HIDE DEF record
<1>5. \A r \in records' : r.updated <= now /\ (r.state = "APPROVED_FOR_EXECUTION" => r.of \in approved)
  BY <1>2, <1>3, <1>4 DEF DocumentsInv
<1> QED BY <1>2, <1>3, <1>5 DEF DocumentsInv

LEMMA EvaluatePlanKeeps ==
  ASSUME DocumentsInv, NEW p \in Plans, NEW policy, EvaluatePlan(p, policy) PROVE DocumentsInv'
BY DEF DocumentsInv, EvaluatePlan

\* The lifecycle leads to a state, and to the approval by an approval only.
LEMMA LeadsToState ==
  ASSUME NEW state \in DOMAIN Leads, NEW action \in DOMAIN Leads[state]
  PROVE  /\ Leads[state][action] \in States
         /\ Leads[state][action] = "APPROVED_FOR_EXECUTION" => action = "APPROVE_EXECUTION"
<1>1. /\ DOMAIN Leads = {"PLANNED", "APPROVED_FOR_EXECUTION", "RUNNING"}
      /\ Leads["PLANNED"] = [APPROVE_EXECUTION |-> "APPROVED_FOR_EXECUTION", BLOCK |-> "BLOCKED", CANCEL |-> "CANCELLED"]
      /\ Leads["APPROVED_FOR_EXECUTION"] = [START_EXECUTION |-> "RUNNING", BLOCK |-> "BLOCKED", CANCEL |-> "CANCELLED"]
      /\ Leads["RUNNING"] = [COMPLETE |-> "COMPLETED", CANCEL |-> "CANCELLED", FAIL |-> "FAILED"]
  BY DEF Leads
<1>2. CASE state = "PLANNED" BY <1>1, <1>2 DEF States
<1>3. CASE state = "APPROVED_FOR_EXECUTION" BY <1>1, <1>3 DEF States
<1>4. CASE state = "RUNNING" BY <1>1, <1>4 DEF States
<1> QED BY <1>1, <1>2, <1>3, <1>4

LEMMA TransitionKeeps ==
  ASSUME TaskForceAssumption, DocumentsInv, NEW r \in records, NEW planned \in 0 .. now, NEW authorized \in BOOLEAN,
         NEW action, Transition(r, action, planned, authorized)
  PROVE  DocumentsInv'
<1> DEFINE state == Leads[r.state][action]
           record == [r EXCEPT !.state = state, !.updated = planned]
<1>1. /\ r.state \in DOMAIN Leads /\ action \in DOMAIN Leads[r.state]
      /\ records' = records \cup {record}
      /\ approved' = IF action = "APPROVE_EXECUTION" THEN approved \cup {r.of} ELSE approved
      /\ transitions < MaxTransitions /\ transitions' = transitions + 1
      /\ UNCHANGED <<now, allowed, contracts>>
  BY DEF Transition
<1>2. state \in States /\ (state = "APPROVED_FOR_EXECUTION" => action = "APPROVE_EXECUTION") BY <1>1, LeadsToState
<1> HIDE DEF state
<1>3. r \in LifecycleRecords /\ planned \in Nat /\ planned <= now BY DEF DocumentsInv
<1>4. record \in LifecycleRecords /\ record.state = state /\ record.updated = planned /\ record.of = r.of
  BY <1>2, <1>3 DEF LifecycleRecords
<1> HIDE DEF record
<1>5. approved \subseteq approved' /\ (record.state = "APPROVED_FOR_EXECUTION" => record.of \in approved')
  BY <1>1, <1>2, <1>4
<1>6. \A s \in records' : s.updated <= now' /\ (s.state = "APPROVED_FOR_EXECUTION" => s.of \in approved')
  BY <1>1, <1>3, <1>4, <1>5 DEF DocumentsInv
<1>7. transitions' \in 0 .. MaxTransitions BY <1>1 DEF DocumentsInv, TaskForceAssumption
<1>8. records' \subseteq LifecycleRecords BY <1>1, <1>4 DEF DocumentsInv
<1>9. \A c \in contracts' : Composition(c.plan) \in approved' \cap allowed' BY <1>1, <1>5 DEF DocumentsInv
<1>10. (\A c \in contracts : Composition(c.plan) \in approved \cap allowed)' BY <1>9 DEF Composition
<1> QED BY <1>1, <1>6, <1>7, <1>8, <1>10 DEF DocumentsInv

LEMMA PrepareContractKeeps ==
  ASSUME DocumentsInv, NEW p \in Plans, NEW r \in records, PrepareContract(p, r) PROVE DocumentsInv'
<1> DEFINE contract == [plan |-> p, prepared |-> now]
<1>1. /\ contracts' = contracts \cup {contract} /\ UNCHANGED <<now, records, allowed, approved, transitions>>
      /\ Composition(p) \in allowed /\ r.state = "APPROVED_FOR_EXECUTION" /\ r.of = Composition(p)
  BY DEF PrepareContract, ReadyToRun
<1>2. Composition(p) \in approved \cap allowed BY <1>1 DEF DocumentsInv
<1>3. contract \in Contracts /\ contract.plan = p BY DEF Contracts, DocumentsInv
<1> HIDE DEF contract
<1>4. \A c \in contracts' : Composition(c.plan) \in approved \cap allowed BY <1>1, <1>2, <1>3 DEF DocumentsInv
<1>5. (\A c \in contracts : Composition(c.plan) \in approved \cap allowed)' BY <1>1, <1>4 DEF Composition
<1> QED BY <1>1, <1>3, <1>5 DEF DocumentsInv

LEMMA TimePassesKeeps ==
  ASSUME TaskForceAssumption, DocumentsInv, TimePasses PROVE DocumentsInv'
<1>1. now \in 0 .. EndOfTime /\ now' = now + 1 /\ now < EndOfTime BY DEF DocumentsInv, TimePasses
<1>2. \A r \in records : r.updated \in Nat /\ r.updated <= now BY DEF DocumentsInv, LifecycleRecords
<1>3. \A r \in records : r.updated <= now' BY <1>1, <1>2
<1>4. UNCHANGED <<records, allowed, contracts, approved, transitions>> BY DEF TimePasses
<1>5. now' \in 0 .. EndOfTime BY <1>1
<1> QED BY <1>3, <1>4, <1>5 DEF DocumentsInv

LEMMA TaskForceStart == ASSUME TaskForceAssumption, TaskForceInit PROVE TaskForceInv
<1>1. 0 \in 0 .. EndOfTime /\ 0 \in 0 .. MaxTransitions BY DEF TaskForceAssumption
<1>2. DocumentsInv BY <1>1 DEF TaskForceInit, DocumentsInv
<1>3. /\ runs \in Seq(Executions) /\ charged \in Seq(Nat) /\ Len(charged) = Len(runs)
      /\ DOMAIN runs = {} /\ reports = {}
  BY DEF TaskForceInit
<1>4. RunsInv BY <1>3 DEF RunsInv
<1> QED BY <1>2, <1>4 DEF TaskForceInv

LEMMA TaskForceStepKeeps ==
  ASSUME TaskForceAssumption, TaskForceInv, [TaskForceNext]_taskForceVars PROVE TaskForceInv'
<1>1. DocumentsInv /\ RunsInv BY DEF TaskForceInv
<1>2. CASE UNCHANGED taskForceVars
  <2>1. DocumentsInv' BY <1>1, <1>2 DEF taskForceVars, DocumentsInv
  <2>2. RunsInv' BY <1>1, <1>2, DocumentsLeaveRuns DEF taskForceVars
  <2> QED BY <2>1, <2>2 DEF TaskForceInv
<1>3. ASSUME NEW p \in Plans, StartLifecycle(p) PROVE TaskForceInv'
  <2>1. DocumentsInv' BY <1>1, <1>3, StartLifecycleKeeps
  <2>2. RunsInv' BY <1>1, <1>3, DocumentsLeaveRuns DEF StartLifecycle
  <2> QED BY <2>1, <2>2 DEF TaskForceInv
<1>4. ASSUME NEW p \in Plans, NEW policy \in TaskPolicies, EvaluatePlan(p, policy) PROVE TaskForceInv'
  <2>1. DocumentsInv' BY <1>1, <1>4, EvaluatePlanKeeps
  <2>2. RunsInv' BY <1>1, <1>4, DocumentsLeaveRuns DEF EvaluatePlan
  <2> QED BY <2>1, <2>2 DEF TaskForceInv
<1>5. ASSUME NEW r \in records, NEW planned \in 0 .. now, NEW authorized \in BOOLEAN, NEW action,
             Transition(r, action, planned, authorized)
      PROVE  TaskForceInv'
  <2>1. DocumentsInv' BY <1>1, <1>5, TransitionKeeps
  <2>2. RunsInv' BY <1>1, <1>5, DocumentsLeaveRuns DEF Transition
  <2> QED BY <2>1, <2>2 DEF TaskForceInv
<1>6. ASSUME NEW p \in Plans, NEW r \in records, PrepareContract(p, r) PROVE TaskForceInv'
  <2>1. DocumentsInv' BY <1>1, <1>6, PrepareContractKeeps
  <2>2. RunsInv' BY <1>1, <1>6, DocumentsLeaveRuns DEF PrepareContract
  <2> QED BY <2>1, <2>2 DEF TaskForceInv
<1>7. ASSUME NEW c \in contracts, NEW policy \in TaskPolicies, NEW usage \in KnownUsages, NEW quote \in Quotes,
             StartRun(c, policy, usage, quote)
      PROVE  TaskForceInv'
  <2>1. DocumentsInv' BY <1>1, <1>7 DEF StartRun, DocumentsInv
  <2>2. RunsInv' BY <1>1, <1>7, StartRunKeeps
  <2> QED BY <2>1, <2>2 DEF TaskForceInv
<1>8. ASSUME NEW i \in 1 .. MaxRuns, NEW price \in Costs, Fail(i, price) PROVE TaskForceInv'
  <2>1. DocumentsInv' BY <1>1, <1>8 DEF Fail, Charging, DocumentsInv
  <2>2. RunsInv' BY <1>1, <1>8, FailKeeps
  <2> QED BY <2>1, <2>2 DEF TaskForceInv
<1>9. ASSUME NEW i \in 1 .. MaxRuns, NEW price \in Costs, NEW q \in Quotes, NEW valid \in BOOLEAN,
             MemberAnswers(i, price, q.attempts, valid)
      PROVE  TaskForceInv'
  <2>1. DocumentsInv' BY <1>1, <1>9 DEF MemberAnswers, Charging, DocumentsInv
  <2>2. RunsInv' BY <1>1, <1>9, MemberAnswersKeeps
  <2> QED BY <2>1, <2>2 DEF TaskForceInv
<1>10. ASSUME NEW i \in 1 .. MaxRuns, Aggregate(i) PROVE TaskForceInv'
  <2>1. DocumentsInv' BY <1>1, <1>10 DEF Aggregate, DocumentsInv
  <2>2. RunsInv' BY <1>1, <1>10, AggregateKeeps
  <2> QED BY <2>1, <2>2 DEF TaskForceInv
<1>11. CASE TimePasses
  <2>1. DocumentsInv' BY <1>1, <1>11, TimePassesKeeps
  <2>2. RunsInv' BY <1>1, <1>11, DocumentsLeaveRuns DEF TimePasses
  <2> QED BY <2>1, <2>2 DEF TaskForceInv
<1>12. CASE TaskForceNext
  BY <1>3, <1>4, <1>5, <1>6, <1>7, <1>8, <1>9, <1>10, <1>11, <1>12 DEF TaskForceNext
<1> QED BY <1>2, <1>12

\* The runs of a task force, each on the usage of the one before it: what they were
\* charged so far is what their usage says, within the plan but for the excess.
SoFar(i, excess) ==
  LET usage == runs[i].after
  IN  /\ Sums(charged, DOMAIN charged)[1 .. i] = AcrossMembers(usage.spent)
      /\ AcrossMembers(usage.spent) <= TotalMost(runs[1]) + excess
      /\ AcrossMembers(usage.calls) <= CallsMost(runs[1])
      /\ \A m \in Squad :
           /\ usage.spent[m] <= MemberMost(runs[1], m) + excess
           /\ usage.calls[m] <= MemberCallsMost(runs[1], m)

LEMMA RunsInSequence ==
  ASSUME TaskForceAssumption, RunsInv, InSequence, NEW excess \in Nat,
         \A i \in DOMAIN runs : Excess(runs[i]) <= excess, NEW last \in DOMAIN runs
  PROVE  SoFar(last, excess)
<1> DEFINE D == DOMAIN charged
           sum == Sums(charged, D)
           odd == {i \in Nat : i \in DOMAIN runs /\ ~SoFar(i, excess)}
<1>1. /\ runs \in Seq(Executions) /\ charged \in Seq(Nat) /\ D = 1 .. Len(runs) /\ DOMAIN runs = 1 .. Len(runs)
      /\ Len(runs) \in Nat
  BY DEF RunsInv
<1>2. charged \in [D -> Int] /\ IsFiniteSet(D)
  <2>1. charged \in [D -> Int] BY <1>1
  <2>2. IsFiniteSet(1 .. Len(runs)) BY <1>1, FS_Interval
  <2> QED BY <1>1, <2>1, <2>2
<1>3. /\ sum \in [SUBSET D -> Int] /\ sum[{}] = 0
      /\ \A T \in SUBSET D : \A x \in T : sum[T] = charged[x] + sum[T \ {x}]
  <2>1. sum \in [SUBSET D -> Int] /\ sum[{}] = SumStep(charged, sum, {}) BY <1>2, SumsRecursion
  <2>2. ASSUME NEW T \in SUBSET D, NEW x \in T PROVE sum[T] = charged[x] + sum[T \ {x}]
    <3>1. \A y \in D : charged[y] \in Int BY <1>2
    <3>2. T \in SUBSET D /\ x \in T OBVIOUS
    <3> HIDE DEF D
    <3> QED BY <1>2, <3>1, <3>2, SumsAnyOrder, SMTT(40)
  <2> QED BY <2>1, <2>2 DEF SumStep
<1> HIDE DEF sum
<1>4. SUFFICES ASSUME odd # {} PROVE FALSE BY <1>1
<1>5. PICK i \in odd : \A j \in odd : i <= j BY <1>4, SmallestMember
<1>6. i \in DOMAIN runs /\ ~SoFar(i, excess) /\ i \in 1 .. Len(runs) BY <1>1
<1> DEFINE execution == runs[i]
           before == execution.before
           after == execution.after
<1>7. /\ execution \in Executions /\ Money(execution, charged[i]) /\ execution.accounted
      /\ execution.plan = runs[1].plan /\ charged[i] \in Nat /\ Excess(execution) <= excess
      /\ before = IF i = 1 THEN Unused ELSE runs[i - 1].after
  BY <1>1, <1>6 DEF RunsInv, InSequence
<1>8. /\ before.spent \in [Squad -> Nat] /\ before.calls \in [Squad -> Nat]
      /\ after.spent \in [Squad -> Nat] /\ after.calls \in [Squad -> Nat]
  BY <1>7 DEF Executions, Usage
<1>9. runs[1] \in Executions
  <2>1. 1 \in DOMAIN runs BY <1>1, <1>6
  <2> QED BY <1>1, <2>1
<1>10. /\ TotalMost(execution) = TotalMost(runs[1]) /\ CallsMost(execution) = CallsMost(runs[1])
       /\ \A m \in Squad : /\ MemberMost(execution, m) = MemberMost(runs[1], m)
                           /\ MemberCallsMost(execution, m) = MemberCallsMost(runs[1], m)
  BY <1>7 DEF TotalMost, CallsMost, MemberMost, MemberCallsMost
<1>11. /\ TotalMost(runs[1]) \in Nat /\ CallsMost(runs[1]) \in Nat
       /\ \A m \in Squad : MemberMost(runs[1], m) \in Nat /\ MemberCallsMost(runs[1], m) \in Nat
  BY <1>9, LimitsType
<1>12. /\ sum[1 .. (i - 1)] = AcrossMembers(before.spent)
       /\ AcrossMembers(before.spent) <= TotalMost(runs[1]) + excess
       /\ AcrossMembers(before.calls) <= CallsMost(runs[1])
       /\ \A m \in Squad : /\ before.spent[m] <= MemberMost(runs[1], m) + excess
                           /\ before.calls[m] <= MemberCallsMost(runs[1], m)
  <2>1. CASE i = 1
    <3>1. before = Unused /\ 1 .. (i - 1) = {} BY <1>7, <2>1
    <3> HIDE DEF before
    <3>2. sum[1 .. (i - 1)] = AcrossMembers(before.spent) BY <1>3, <3>1, UnusedUsage
    <3>3. \A m \in Squad : /\ before.spent[m] <= MemberMost(runs[1], m) + excess
                           /\ before.calls[m] <= MemberCallsMost(runs[1], m)
      <4> TAKE m \in Squad
      <4>1. before.spent[m] = 0 /\ before.calls[m] = 0 BY <3>1, UnusedUsage
      <4>2. MemberMost(runs[1], m) \in Nat /\ MemberCallsMost(runs[1], m) \in Nat BY <1>11
      <4> QED BY <4>1, <4>2
    <3>4. AcrossMembers(before.spent) = 0 /\ AcrossMembers(before.calls) = 0 BY <3>1, UnusedUsage
    <3> QED BY <1>11, <3>2, <3>3, <3>4
  <2>2. CASE i # 1
    <3>1. i - 1 \in Nat /\ i - 1 \in DOMAIN runs /\ ~(i <= i - 1) BY <1>1, <1>6, <2>2
    <3>2. SoFar(i - 1, excess) BY <1>5, <3>1
    <3>3. before = runs[i - 1].after BY <1>7, <2>2
    <3> QED BY <3>2, <3>3 DEF SoFar, sum
  <2> QED BY <2>1, <2>2
<1>13. sum[1 .. i] = charged[i] + sum[1 .. (i - 1)]
  <2>1. 1 .. i \in SUBSET D /\ i \in 1 .. i /\ (1 .. i) \ {i} = 1 .. (i - 1) BY <1>1, <1>6, SMTT(25)
  <2>2. sum[1 .. i] = charged[i] + sum[(1 .. i) \ {i}] BY <1>3, <2>1
  <2> QED BY <2>1, <2>2
<1>14. /\ AcrossMembers(before.spent) \in Nat /\ AcrossMembers(after.spent) \in Nat
       /\ AcrossMembers(before.calls) \in Nat /\ AcrossMembers(after.calls) \in Nat
  BY <1>8, AcrossNat
<1>15. AcrossMembers(after.spent) = AcrossMembers(before.spent) + charged[i] BY <1>7 DEF Money
<1>16. Kept(execution) BY <1>7 DEF Money
<1>17. Excess(execution) \in Nat
  <2>1. PICK most \in Nat : \A price \in Costs : price <= most BY CostsBounded
  <2> QED BY <1>7, <2>1, ExcessIsMost, SMTT(25)
<1>18. sum[1 .. i] = AcrossMembers(after.spent) BY <1>7, <1>12, <1>13, <1>14, <1>15
<1>19. AcrossMembers(after.spent) <= TotalMost(runs[1]) + excess
  <2>1. \/ AcrossMembers(after.spent) = AcrossMembers(before.spent)
        \/ AcrossMembers(after.spent) <= TotalMost(runs[1]) + Excess(execution)
    BY <1>10, <1>16 DEF Kept
  <2> QED BY <1>7, <1>11, <1>12, <1>14, <1>17, <2>1, SMTT(40)
<1>20. AcrossMembers(after.calls) <= CallsMost(runs[1])
  <2>1. \/ AcrossMembers(after.calls) = AcrossMembers(before.calls)
        \/ AcrossMembers(after.calls) <= CallsMost(runs[1])
    BY <1>10, <1>16 DEF Kept
  <2> QED BY <1>12, <2>1
<1>21. ASSUME NEW m \in Squad
       PROVE  /\ after.spent[m] <= MemberMost(runs[1], m) + excess
              /\ after.calls[m] <= MemberCallsMost(runs[1], m)
  <2>1. /\ after.spent[m] = before.spent[m] \/ after.spent[m] <= MemberMost(runs[1], m) + Excess(execution)
        /\ after.calls[m] = before.calls[m] \/ after.calls[m] <= MemberCallsMost(runs[1], m)
    BY <1>10, <1>16 DEF Kept
  <2>2. MemberMost(runs[1], m) \in Nat /\ after.spent[m] \in Nat BY <1>8, <1>11
  <2>3. after.spent[m] <= MemberMost(runs[1], m) + excess BY <1>7, <1>12, <1>17, <2>1, <2>2
  <2>4. after.calls[m] <= MemberCallsMost(runs[1], m) BY <1>12, <2>1
  <2> QED BY <2>3, <2>4
<1>22. SoFar(i, excess) BY <1>18, <1>19, <1>20, <1>21 DEF SoFar, sum
<1> QED BY <1>6, <1>22

LEMMA PlanIsHeld == ASSUME TaskForceAssumption, RunsInv PROVE PlanHeld
<1> SUFFICES ASSUME InSequence, runs # <<>> PROVE PlanHeld BY DEF PlanHeld
<1> DEFINE T == {Excess(runs[i]) : i \in DOMAIN runs}
           excess == Max(T)
           n == Len(runs)
           total == FoldFunctionOnSet(LAMBDA x, y : x + y, 0, charged, DOMAIN charged)
           usage == runs[n].after
           plan == runs[1].plan
<1>1. runs \in Seq(Executions) /\ Len(charged) = Len(runs) /\ charged \in Seq(Nat) BY DEF RunsInv
<1>2. n \in Nat \ {0} /\ n \in DOMAIN runs /\ DOMAIN charged = 1 .. n BY <1>1
<1>3. PICK most \in Nat : \A price \in Costs : price <= most BY CostsBounded
<1>4. \A i \in DOMAIN runs : Excess(runs[i]) \in 0 .. most
  <2> TAKE i \in DOMAIN runs
  <2>1. runs[i] \in Executions BY <1>1
  <2> QED BY <1>3, <2>1, ExcessIsMost
<1>5. T \subseteq Int /\ Excess(runs[n]) \in T /\ most \in Int /\ \A e \in T : e <= most BY <1>2, <1>4
<1>6. excess \in T /\ \A e \in T : e <= excess
  <2> HIDE DEF T
  <2> QED BY <1>5, LargestInteger, Zenon
<1>7. excess \in Nat /\ \A i \in DOMAIN runs : Excess(runs[i]) <= excess
  <2>1. excess \in Nat BY <1>4, <1>6
  <2>2. \A i \in DOMAIN runs : Excess(runs[i]) \in T OBVIOUS
  <2> HIDE DEF T
  <2> QED BY <1>6, <2>1, <2>2
<1> HIDE DEF excess, T
<1>8. SoFar(n, excess) BY <1>2, <1>7, RunsInSequence
<1>9. total = Sums(charged, 1 .. n)[1 .. n] BY <1>2, FoldIsSum
<1> HIDE DEF total
<1>10. /\ total <= TotalMost(runs[1]) + excess
       /\ AcrossMembers(usage.calls) <= CallsMost(runs[1])
       /\ \A m \in Squad : /\ usage.spent[m] <= MemberMost(runs[1], m) + excess
                           /\ usage.calls[m] <= MemberCallsMost(runs[1], m)
  BY <1>2, <1>8, <1>9 DEF SoFar
<1>11. /\ total <= Least(AcrossMembers(plan.budget), plan.policy.total) + excess
       /\ AcrossMembers(usage.calls) <= Least(AcrossMembers(plan.calls), plan.policy.totalCalls)
       /\ \A m \in Squad :
            /\ usage.spent[m] <= Least(plan.budget[m], plan.policy.member) + excess
            /\ usage.calls[m] <= Least(plan.calls[m], plan.policy.memberCalls)
  BY <1>10 DEF TotalMost, CallsMost, MemberMost, MemberCallsMost
<1> QED BY <1>11 DEF PlanHeld, total, excess, T

LEMMA TaskForceInvImplies == ASSUME TaskForceAssumption, TaskForceInv PROVE RunsHold
<1>1. DocumentsInv /\ RunsInv BY DEF TaskForceInv
<1>2. /\ runs \in Seq(Executions) /\ charged \in Seq(Nat) /\ Len(charged) = Len(runs) /\ reports \subseteq DOMAIN runs
  BY <1>1 DEF RunsInv
<1>3. ASSUME NEW i \in DOMAIN runs
      PROVE  /\ runs[i] \in Executions /\ Paced(runs[i]) /\ Money(runs[i], charged[i]) /\ charged[i] \in Nat
             /\ \E c \in contracts : c.plan = runs[i].plan
  BY <1>1, <1>2 DEF RunsInv
<1>4. TaskForceTypeOK
  <2>1. ASSUME NEW i \in DOMAIN runs
        PROVE  /\ runs[i].plan \in Plans /\ {runs[i].before, runs[i].after} \subseteq Usage
               /\ runs[i].answers = runs[i].at - 1
               /\ runs[i].status = "COMPLETED" <=> runs[i].at = Size + 1
    BY <1>3 DEF Executions, Paced
  <2>2. \A r \in records : r.state \in States /\ r.updated <= now BY <1>1 DEF DocumentsInv, LifecycleRecords
  <2>3. now \in 0 .. EndOfTime /\ transitions \in 0 .. MaxTransitions BY <1>1 DEF DocumentsInv
  <2> QED BY <1>2, <2>1, <2>2, <2>3 DEF TaskForceTypeOK
<1>5. RunsAreApproved
  <2>1. ASSUME NEW i \in DOMAIN runs
        PROVE  /\ Composition(runs[i].plan) \in approved \cap allowed
               /\ \E c \in contracts : c.plan = runs[i].plan
    <3>1. PICK c \in contracts : c.plan = runs[i].plan BY <1>3
    <3> QED BY <1>1, <3>1 DEF DocumentsInv
  <2> QED BY <2>1 DEF RunsAreApproved
<1>6. ChargesAccounted BY <1>3 DEF ChargesAccounted, Money
<1>7. PlanHeld BY <1>1, PlanIsHeld
<1>8. ReportIsWhole
  <2>1. ASSUME NEW i \in reports
        PROVE  /\ runs[i].answers = Size
               /\ charged[i] = AcrossMembers(runs[i].after.spent) - AcrossMembers(runs[i].before.spent)
    <3>1. i \in DOMAIN runs /\ runs[i].status = "COMPLETED" /\ runs[i].accounted
      BY <1>1, <1>2 DEF RunsInv, Aggregable
    <3>2. runs[i].answers = Size BY <1>3, <3>1 DEF Paced, TaskForceAssumption
    <3>3. runs[i].after.spent \in [Squad -> Nat] /\ runs[i].before.spent \in [Squad -> Nat]
      BY <1>3, <3>1 DEF Executions, Usage
    <3>4. AcrossMembers(runs[i].after.spent) \in Nat /\ AcrossMembers(runs[i].before.spent) \in Nat BY <3>3, AcrossNat
    <3>5. AcrossMembers(runs[i].after.spent) = AcrossMembers(runs[i].before.spent) + charged[i] /\ charged[i] \in Nat
      BY <1>3, <3>1 DEF Money
    <3> QED BY <3>2, <3>4, <3>5
  <2> QED BY <2>1 DEF ReportIsWhole
<1> QED BY <1>4, <1>5, <1>6, <1>7, <1>8 DEF RunsHold

\* TaskForce's RunsHold: whatever the number of members, plans, runs and documents, and
\* however old those that are used, a task force runs only what was let through and
\* approved, every charge of the gateway is in its usage, runs in sequence stay within
\* the plan and the policy but for the excess of a call over its quote, and a report
\* counts every member (task_force/execution_runtime.py).
THEOREM RunsAlwaysHold == ASSUME TaskForceAssumption PROVE TaskForceSpec => []RunsHold
<1>1. TaskForceInit => TaskForceInv BY TaskForceStart
<1>2. TaskForceInv /\ [TaskForceNext]_taskForceVars => TaskForceInv' BY TaskForceStepKeeps
<1>3. TaskForceInv => RunsHold BY TaskForceInvImplies
<1> QED BY <1>1, <1>2, <1>3, PTL DEF TaskForceSpec

=============================================================================

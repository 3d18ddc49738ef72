------------------------------ MODULE TaskForce ------------------------------
(***************************************************************************)
(* Task forces (app/task_force): the gate on a plan, the lifecycle, the      *)
(* execution contract, the calls of the members through the AI gateway and   *)
(* the report.                                                               *)
(*                                                                          *)
(* Nothing here is stored: each step is a function of documents its callers *)
(* hold, and they never change.  So the state is the documents there are;   *)
(* anybody may use any of them, an old one as well as the last.             *)
(* The plans are those of one task force for one request, at several        *)
(* compositions; a call's timestamps are the present, but a transition may   *)
(* be recorded long after it was planned.                                    *)
(***************************************************************************)
EXTENDS Integers, Sequences, FiniteSets, FiniteSetsExt

CONSTANTS
  Size,          \* members 1 .. Size, in the order of the contract
  Plans,         \* [policy, budget, calls, expires]; budget and calls by member
  TaskPolicies,  \* [total, member, totalCalls, memberCalls, retries]
  Quotes,        \* what a call may be quoted at: [eur, attempts]
  Costs,         \* what a call may be charged
  RequestEnd,    \* when the request expires
  MaxRuns, MaxTransitions, EndOfTime   \* bounds

Squad == 1 .. Size

\* The models' fields are not negative (models.py, ge=0); a charge has a bound.
ASSUME TaskForceAssumption ==
  /\ Size \in Nat \ {0} /\ Costs \subseteq Nat /\ IsFiniteSet(Costs)
  /\ TaskPolicies \subseteq [total : Nat, member : Nat, totalCalls : Nat, memberCalls : Nat, retries : Nat]
  /\ Plans \subseteq [policy : TaskPolicies, budget : [Squad -> Nat], calls : [Squad -> Nat], expires : 1 .. RequestEnd]
  /\ Quotes \subseteq [eur : Nat, attempts : Nat]
  /\ {MaxRuns, MaxTransitions, EndOfTime, RequestEnd} \subseteq Nat

VARIABLES
  now,
  records,     \* lifecycle records: [of, expires, state, updated]
  allowed,     \* the compositions a plan gate let through
  contracts,   \* [plan, prepared]
  runs,        \* executions of the members, with the usage before and after
  reports,     \* the runs that were aggregated
  approved,    \* history: the compositions an operator approved
  charged,     \* history: what the gateway charged for each run
  transitions  \* counts the transitions

taskForceVars == <<now, records, allowed, contracts, runs, reports, approved, charged, transitions>>

\* What the fingerprint of a composition covers: the policy and the members.
Composition(p) == [policy |-> p.policy, budget |-> p.budget, calls |-> p.calls]
AcrossMembers(of) == MapThenSumSet(LAMBDA m : of[m], Squad)
Least(a, b) == IF a < b THEN a ELSE b

Unused == [spent |-> [m \in Squad |-> 0], calls |-> [m \in Squad |-> 0]]

TaskForceInit ==
  /\ now = 0
  /\ records = {} /\ allowed = {} /\ contracts = {}
  /\ runs = <<>> /\ reports = {}
  /\ approved = {} /\ charged = <<>> /\ transitions = 0

---------------------------------------------------------------------------
(* The gate and the lifecycle.                                             *)

WithinPolicy(p, policy) ==
  /\ p.policy = policy
  /\ now < p.expires /\ p.expires <= RequestEnd
  /\ AcrossMembers(p.budget) <= policy.total /\ AcrossMembers(p.calls) <= policy.totalCalls
  /\ \A m \in Squad : p.budget[m] <= policy.member /\ p.calls[m] <= policy.memberCalls

\* Whether the snapshot of the population leaves room, and the agents are
\* eligible, is for its caller to say: a gate that blocks leaves nothing.
EvaluatePlan(p, policy) ==
  /\ WithinPolicy(p, policy)
  /\ allowed' = allowed \cup {Composition(p)}
  /\ UNCHANGED <<now, records, contracts, runs, reports, approved, charged, transitions>>

StartLifecycle(p) ==
  /\ records' = records \cup {[of |-> Composition(p), expires |-> p.expires, state |-> "PLANNED", updated |-> 0]}
  /\ UNCHANGED <<now, allowed, contracts, runs, reports, approved, charged, transitions>>

\* _ALLOWED_TRANSITIONS.
Leads ==
  [PLANNED |-> [APPROVE_EXECUTION |-> "APPROVED_FOR_EXECUTION", BLOCK |-> "BLOCKED", CANCEL |-> "CANCELLED"],
   APPROVED_FOR_EXECUTION |-> [START_EXECUTION |-> "RUNNING", BLOCK |-> "BLOCKED", CANCEL |-> "CANCELLED"],
   RUNNING |-> [COMPLETE |-> "COMPLETED", CANCEL |-> "CANCELLED", FAIL |-> "FAILED"]]

\* A transition that was planned for a record is recorded on it: the checks of
\* revision, state and fingerprints say that it is this record, equal in all but
\* its date.
Transition(r, action, planned, authorized) ==
  /\ transitions < MaxTransitions /\ transitions' = transitions + 1
  /\ r.state \in DOMAIN Leads /\ action \in DOMAIN Leads[r.state]
  /\ planned >= r.updated
  /\ action \in {"APPROVE_EXECUTION", "START_EXECUTION"} => planned < r.expires
  /\ action = "APPROVE_EXECUTION" => authorized
  /\ records' = records \cup {[r EXCEPT !.state = Leads[r.state][action], !.updated = planned]}
  /\ approved' = IF action = "APPROVE_EXECUTION" THEN approved \cup {r.of} ELSE approved
  /\ UNCHANGED <<now, allowed, contracts, runs, reports, charged>>

\* _validate_execution_readiness.
ReadyToRun(p, r) ==
  /\ Composition(p) \in allowed
  /\ r.state = "APPROVED_FOR_EXECUTION" /\ r.of = Composition(p)
  /\ now >= r.updated /\ now < Least(p.expires, r.expires)

PrepareContract(p, r) ==
  /\ ReadyToRun(p, r)
  /\ contracts' = contracts \cup {[plan |-> p, prepared |-> now]}
  /\ UNCHANGED <<now, records, allowed, runs, reports, approved, charged, transitions>>

---------------------------------------------------------------------------
(* Running the members, one after the other.                               *)

\* evaluate_task_force_compute.
ComputeAllows(plan, usage, m, quote) ==
  LET policy == plan.policy
  IN  /\ AcrossMembers(usage.spent) + quote.eur <= Least(AcrossMembers(plan.budget), policy.total)
      /\ usage.spent[m] + quote.eur <= Least(plan.budget[m], policy.member)
      /\ AcrossMembers(usage.calls) + 1 <= Least(AcrossMembers(plan.calls), policy.totalCalls)
      /\ usage.calls[m] + 1 <= Least(plan.calls[m], policy.memberCalls)
      /\ quote.attempts - 1 <= policy.retries

\* A run whose next member is run.at: over, refused, or waiting for the gateway.
Called(run) ==
  [run EXCEPT !.status =
     IF run.at > Size THEN "COMPLETED"
     ELSE IF ComputeAllows(run.plan, run.after, run.at, run.quote) THEN "WAITING" ELSE "BLOCKED"]

RunEnded(run) == run.status # "WAITING"

\* The usage its caller gives: nothing yet, or that after some run.
KnownUsages == {Unused} \cup {runs[i].after : i \in {j \in DOMAIN runs : RunEnded(runs[j])}}

StartRun(c, policy, usage, quote) ==
  /\ Len(runs) < MaxRuns
  /\ now >= c.prepared /\ now < c.plan.expires
  /\ policy = c.plan.policy
  /\ runs' = Append(runs, Called([plan |-> c.plan, quote |-> quote, at |-> 1, status |-> "WAITING",
                                  before |-> usage, after |-> usage, answers |-> 0, accounted |-> TRUE]))
  /\ charged' = Append(charged, 0)
  /\ UNCHANGED <<now, records, allowed, contracts, reports, approved, transitions>>

Advanced(usage, m, cost) ==
  [spent |-> [usage.spent EXCEPT ![m] = @ + cost], calls |-> [usage.calls EXCEPT ![m] = @ + 1]]

\* The gateway's answer within its quote, in attempts and in cost, from the right
\* member, is kept.  It is charged first.  Variant: only then.
AnsweredChargedLast(run, cost, attempts, valid) ==
  IF attempts <= run.quote.attempts /\ cost <= run.quote.eur /\ valid
  THEN Called([run EXCEPT !.after = Advanced(@, run.at, cost), !.answers = @ + 1, !.at = @ + 1])
  ELSE [run EXCEPT !.status = "FAILED"]
Answered(run, cost, attempts, valid) ==
  LET counted == [run EXCEPT !.after = Advanced(@, run.at, cost)]
  IN  IF attempts <= run.quote.attempts /\ cost <= run.quote.eur /\ valid
      THEN Called([counted EXCEPT !.answers = @ + 1, !.at = @ + 1])
      ELSE [counted EXCEPT !.status = "FAILED"]

Charging(i, cost) ==
  /\ i \in DOMAIN runs /\ runs[i].status = "WAITING"
  /\ charged' = [charged EXCEPT ![i] = @ + cost]
  /\ UNCHANGED <<now, records, allowed, contracts, reports, approved, transitions>>

MemberAnswers(i, cost, attempts, valid) ==
  /\ Charging(i, cost)
  /\ runs' = [runs EXCEPT ![i] = Answered(@, cost, attempts, valid)]

\* The gateway raises, or answers for another request: what it charged is unknown.
Fail(i, cost) ==
  /\ Charging(i, cost)
  /\ runs' = [runs EXCEPT ![i].status = "FAILED", ![i].accounted = FALSE]

Aggregable(run) == run.status = "COMPLETED" /\ run.accounted

Aggregate(i) ==
  /\ i \in DOMAIN runs /\ Aggregable(runs[i]) /\ now < runs[i].plan.expires
  /\ reports' = reports \cup {i}
  /\ UNCHANGED <<now, records, allowed, contracts, runs, approved, charged, transitions>>

TimePasses ==
  /\ now < EndOfTime /\ now' = now + 1
  /\ UNCHANGED <<records, allowed, contracts, runs, reports, approved, charged, transitions>>

TaskForceNext ==
  \/ \E p \in Plans : StartLifecycle(p) \/ \E policy \in TaskPolicies : EvaluatePlan(p, policy)
  \/ \E r \in records, planned \in 0 .. now, authorized \in BOOLEAN,
        action \in UNION {DOMAIN Leads[s] : s \in DOMAIN Leads} : Transition(r, action, planned, authorized)
  \/ \E p \in Plans, r \in records : PrepareContract(p, r)
  \/ \E c \in contracts, policy \in TaskPolicies, usage \in KnownUsages, quote \in Quotes :
       StartRun(c, policy, usage, quote)
  \/ \E i \in 1 .. MaxRuns, cost \in Costs :
       Fail(i, cost) \/ \E q \in Quotes, valid \in BOOLEAN : MemberAnswers(i, cost, q.attempts, valid)
  \/ \E i \in 1 .. MaxRuns : Aggregate(i)
  \/ TimePasses

TaskForceSpec == TaskForceInit /\ [][TaskForceNext]_taskForceVars

---------------------------------------------------------------------------
(* Properties.                                                             *)

Usage == [spent : [Squad -> Nat], calls : [Squad -> Nat]]
States == {"PLANNED", "APPROVED_FOR_EXECUTION", "RUNNING", "COMPLETED", "BLOCKED", "CANCELLED", "FAILED"}
TaskForceTypeOK ==
  /\ now \in 0 .. EndOfTime /\ transitions \in 0 .. MaxTransitions
  /\ \A r \in records : r.state \in States /\ r.updated <= now
  /\ Len(charged) = Len(runs) /\ reports \subseteq DOMAIN runs
  /\ \A i \in DOMAIN runs :
       /\ runs[i].plan \in Plans /\ {runs[i].before, runs[i].after} \subseteq Usage
       /\ runs[i].answers = runs[i].at - 1
       /\ runs[i].status = "COMPLETED" <=> runs[i].at = Size + 1

\* A run rests on documents of one and the same composition: the plan it calls
\* the members of was let through by a gate under its own policy and approved by
\* an operator, though the task force had other plans, gates and approvals.
RunsAreApproved ==
  \A i \in DOMAIN runs :
    /\ Composition(runs[i].plan) \in approved \cap allowed
    /\ \E c \in contracts : c.plan = runs[i].plan

\* The usage after a run whose accounting is complete is that before it and every
\* charge of the gateway, those of the answers it refused too.
ChargesAccounted ==
  \A i \in DOMAIN runs :
    runs[i].accounted => AcrossMembers(runs[i].after.spent) = AcrossMembers(runs[i].before.spent) + charged[i]

\* When each run is given the usage of the one before it and none has lost a
\* charge, the task force has called and spent within its plan and its policy,
\* but for the excess of the last call over its quote.
InSequence ==
  \A i \in DOMAIN runs :
    /\ runs[i].accounted
    /\ runs[i].plan = runs[1].plan
    /\ runs[i].before = IF i = 1 THEN Unused ELSE runs[i - 1].after
    /\ i < Len(runs) => RunEnded(runs[i])
Excess(run) == Max({0} \cup {c - run.quote.eur : c \in Costs})
PlanHeld ==
  InSequence /\ runs # <<>> =>
    LET plan == runs[1].plan
        total == FoldFunctionOnSet(LAMBDA x, y : x + y, 0, charged, DOMAIN charged)
        usage == runs[Len(runs)].after
        excess == Max({Excess(runs[i]) : i \in DOMAIN runs})
    IN  /\ total <= Least(AcrossMembers(plan.budget), plan.policy.total) + excess
        /\ AcrossMembers(usage.calls) <= Least(AcrossMembers(plan.calls), plan.policy.totalCalls)
        /\ \A m \in Squad :
             /\ usage.spent[m] <= Least(plan.budget[m], plan.policy.member) + excess
             /\ usage.calls[m] <= Least(plan.calls[m], plan.policy.memberCalls)

\* A report counts an answer of every member, and costs what the gateway charged.
ReportIsWhole ==
  \A i \in reports :
    /\ runs[i].answers = Size
    /\ charged[i] = AcrossMembers(runs[i].after.spent) - AcrossMembers(runs[i].before.spent)

\* Task forces run what was approved and let through, every charge of the gateway is
\* in their usage, within the plan and the policy, and every member in their report.
RunsHold == TaskForceTypeOK /\ RunsAreApproved /\ ChargesAccounted /\ PlanHeld /\ ReportIsWhole

=============================================================================

---------------------------- MODULE Orchestration ----------------------------
(* The orchestration pipeline (app/services/orchestration): the compute     *)
(* gate, the Professor's plan, the specialists of the first round running   *)
(* concurrently, Palermo's review and the Professor's final decision, each  *)
(* agent one call of the gateway, over the ledger they all share.  The      *)
(* opportunities of a run come one after the other.                         *)
EXTENDS AIGateway, FiniteSets

CONSTANTS Specialists,     \* the specialists that are available
          MinBudget,       \* ComputeGatePolicy.minimum_analysis_budget_eur
          FullBudget,      \* ComputeGatePolicy.full_crew_budget_eur
          MaxOpportunities \* bound: opportunities in a run

Stages == {"idle", "plan", "specialists", "palermo", "final"}

ASSUME CrewAssumption ==
    /\ Calls = Specialists \cup {"plan", "palermo", "final"}
    /\ Specialists \cap Stages = {}
    /\ MinBudget \in Nat /\ FullBudget \in Nat /\ MinBudget <= FullBudget
    /\ MaxOpportunities \in Nat

VARIABLES run,   \* the opportunity under way, or the result of the last one
          seen   \* how many opportunities were taken

vars == <<gatewayVars, run, seen>>

Levels == {"SKIP_AI", "MINI_CREW", "FULL_CREW"}
Results == {"NONE", "NO_ANALYSIS", "NO_TRADE", "TRADE_PROPOSAL", "FAILED", "RAISED"}
Run == [stage: Stages, level: Levels, selected: SUBSET Specialists,
        audited: SUBSET Calls, result: Results]
NoRun == [stage |-> "idle", level |-> "SKIP_AI", selected |-> {}, audited |-> {},
          result |-> "NONE"]

Init == GatewayInit /\ run = NoRun /\ seen = 0

At(stage) == run.stage = stage

\* The result is returned, and the coroutines of the calls are gone.
End(result, audited) ==
    /\ run' = [run EXCEPT !.stage = "idle", !.result = result, !.audited = audited]
    /\ call' = [c \in Calls |-> Idle]
    /\ UNCHANGED <<budgetVars, seen>>

Advance(next) == run' = next /\ UNCHANGED <<gatewayVars, seen>>

-----------------------------------------------------------------------------
Remaining == LET used == spent + Total(reserved)
             IN  IF used < HardLimit THEN HardLimit - used ELSE 0

\* priority: whether the opportunity's score reaches the policy's thresholds,
\* or it has expired.
GateLevel(priority) ==
    IF priority = "low" \/ Remaining < MinBudget THEN "SKIP_AI"
    ELSE IF priority = "full" /\ Remaining >= FullBudget THEN "FULL_CREW"
    ELSE "MINI_CREW"

\* usable: whether the context, the task force report and the specialist
\* contexts are consistent.
Begin(priority, usable) ==
    LET level == GateLevel(priority)
    IN  /\ At("idle") /\ seen < MaxOpportunities
        /\ seen' = seen + 1
        /\ run' = [NoRun EXCEPT
             !.level = level,
             !.stage = IF usable /\ level # "SKIP_AI" THEN "plan" ELSE "idle",
             !.result = IF ~usable THEN "FAILED"
                        ELSE IF level = "SKIP_AI" THEN "NO_ANALYSIS" ELSE "NONE"]
        /\ UNCHANGED gatewayVars

\* Variant: the plan is not held to the
\* gate's level.
AcceptableAnyLevel(level, decision, selected) ==
    IF decision = "NO_ANALYSIS" THEN selected = {}
    ELSE /\ selected # {}
         /\ decision = "MINI_CREW" => Cardinality(selected) <= 2

\* _validate_plan.
Acceptable(level, decision, selected) ==
    IF decision = "NO_ANALYSIS" THEN selected = {}
    ELSE /\ selected # {}
         /\ decision = "MINI_CREW" => Cardinality(selected) <= 2
         /\ level = "MINI_CREW" => decision # "FULL_CREW"

Planned(decision, selected) ==
    /\ At("plan") /\ call["plan"].pc = "done"
    /\ IF ~Acceptable(run.level, decision, selected) THEN End("FAILED", {"plan"})
       ELSE IF decision = "NO_ANALYSIS" THEN End("NO_ANALYSIS", {"plan"})
       ELSE Advance([run EXCEPT !.stage = "specialists", !.selected = selected,
                                !.audited = {"plan"}])

\* Variant: a failure is never gathered.
GatheredOnSuccess(S) == \A s \in S : call[s].pc = "done"

\* asyncio.gather with return_exceptions: every selected specialist has ended.
Gathered(S) == \A s \in S : Ended(s)

\* grounded: the answers whose evidence exists in what the specialist was given.
FirstRound(grounded) ==
    LET good == {s \in run.selected : call[s].pc = "done"} \cap grounded
    IN  /\ At("specialists") /\ Gathered(run.selected)
        /\ IF good = run.selected
             THEN Advance([run EXCEPT !.stage = "palermo", !.audited = @ \cup good])
             ELSE End("FAILED", run.audited \cup good)

Reviewed ==
    /\ At("palermo") /\ call["palermo"].pc = "done"
    /\ Advance([run EXCEPT !.stage = "final", !.audited = @ \cup {"palermo"}])

\* verdict: a direction that the run allows with evidence that exists, none, or
\* one that does not pass these checks.
Finalized(verdict) ==
    /\ At("final") /\ call["final"].pc = "done"
    /\ IF verdict = "FAILED" THEN End("FAILED", run.audited)
       ELSE End(verdict, run.audited \cup {"final"})

\* A call of the core agents that failed fails the opportunity.
CoreStages == {"plan", "palermo", "final"}
CoreFailed ==
    /\ run.stage \in CoreStages
    /\ call[run.stage].pc \in Failures \ {"other"}
    /\ End("FAILED", run.audited)

\* An exception that the run does not catch leaves it, and no audit with it: one of
\* a core agent's client, or of the evidence of a final answer, once that is paid
\* for, when it is translated.  The paper pipeline reports it as a failure.
Escapes ==
    /\ run.stage \in CoreStages
    /\ call[run.stage].pc = "other" \/ (At("final") /\ call["final"].pc = "done")
    /\ End("RAISED", {})

\* The call of the stage, or those of the round, started together.
Start(c) ==
    /\ c = run.stage \/ (At("specialists") /\ c \in run.selected)
    /\ Invoke(c)
    /\ UNCHANGED <<run, seen>>

Pipeline ==
    \/ \E decision \in {"NO_ANALYSIS", "MINI_CREW", "FULL_CREW"}, S \in SUBSET Specialists :
          Planned(decision, S)
    \/ \E grounded \in SUBSET Specialists : FirstRound(grounded)
    \/ Reviewed
    \/ \E verdict \in {"NO_TRADE", "TRADE_PROPOSAL", "FAILED"} : Finalized(verdict)
    \/ CoreFailed \/ Escapes

CallStep(c) == Start(c) \/ ((Provider(c) \/ Retry(c)) /\ UNCHANGED <<run, seen>>)

Next ==
    \/ \E priority \in {"low", "mini", "full"}, usable \in BOOLEAN : Begin(priority, usable)
    \/ Pipeline
    \/ \E c \in Calls : CallStep(c)

Spec == Init /\ [][Next]_vars

\* The event loop runs what is ready, and requests have timeouts.
PipelineFairness == WF_vars(Pipeline) /\ \A c \in Calls : WF_vars(CallStep(c))

FairSpec == Spec /\ PipelineFairness

-----------------------------------------------------------------------------
(* Properties.                                                             *)

\* The variables have their types.
TypeOK == GatewayTypeOK /\ run \in Run /\ seen \in 0..MaxOpportunities

\* When a result is returned no request of it is still under way, holding
\* budget or spending it on an opportunity that is over.
EndsClean == At("idle") => \A c \in Calls : call[c] = Idle /\ reserved[c] = 0

\* A trade is proposed only after every selected specialist, Palermo and the
\* final decision were paid for and audited, by a crew no larger than the gate
\* allowed when it read the budget.
ProposalEarned ==
    run.result = "TRADE_PROPOSAL" =>
        /\ run.audited = run.selected \cup {"plan", "palermo", "final"}
        /\ run.selected # {}
        /\ run.level = "MINI_CREW" => Cardinality(run.selected) <= 2

\* The ledger agrees with the calls and the records, a result leaves nothing running
\* behind it, and a proposal was earned.
ResultsHold == LedgerAgrees /\ EndsClean /\ ProposalEarned

\* Whatever the providers do, every opportunity ends with a result.
AlwaysEnds == ~At("idle") ~> At("idle")
=============================================================================

------------------------------- MODULE MCAgents -------------------------------
(* What the models are asked and what is decided with their advice, in one     *)
(* run: the pipeline of an opportunity, its replay from the cache, and the     *)
(* changes of the allocation policy, the task forces and the recruitments.     *)
(* The parts share no variable; `focus` is the one that moves.                 *)
EXTENDS Orchestration, ReplayCache, AllocationPolicy, Recruitment, TaskForce, FiniteSetsExt

CONSTANT Foci   \* the parts of a run
VARIABLE focus

Begins ==
  /\ focus \in Foci
  /\ Init /\ CacheInit /\ PolicyInit /\ TaskForceInit /\ RecruitmentInit

Goes ==
  \/ focus = "pipeline" /\ Next /\ UNCHANGED <<focus, cacheVars, policyVars, taskForceVars, recruitmentVars>>
  \/ focus = "cache" /\ CacheNext /\ UNCHANGED <<focus, vars, policyVars, taskForceVars, recruitmentVars>>
  \/ focus = "policy" /\ PolicyNext /\ UNCHANGED <<focus, vars, cacheVars, taskForceVars, recruitmentVars>>
  \/ focus = "task force" /\ TaskForceNext /\ UNCHANGED <<focus, vars, cacheVars, policyVars, recruitmentVars>>
  \/ focus = "recruitment" /\ RecruitmentNext /\ UNCHANGED <<focus, vars, cacheVars, policyVars, taskForceVars>>

AgentsSpec ==
  /\ Begins
  /\ [][Goes]_<<focus, vars, cacheVars, policyVars, taskForceVars, recruitmentVars>>
  /\ PipelineFairness

---------------------------------------------------------------------------
\* A chain of two routes, of which the second, the cheaper, may cost more than it
\* was estimated to.
MCCost == <<2, 1>>
MCActual == <<{1}, {1, 2}>>
MCActualWithin == <<{1, 2}, {1}>>
MCFailed == <<{0}, {0}>>
MCFailedCharged == <<{0, 1}, {0, 1}>>
MCTotal(f) == MapThenSumSet(LAMBDA c : f[c], DOMAIN f)
MCCalls == Specialists \cup {"plan", "palermo", "final"}

\* A specialist whose answers differ in their word and their cost, a decision
\* either way; two routes, the second cheaper.
MCCrew == <<"berlin", "tokyo">>
Says(word, price) == [says |-> word, cost |-> price]
MCReplies == [agent \in {"plan", "palermo", "final", "berlin", "tokyo"} |->
  CASE agent = "berlin" -> {Says("yes", 1), Says("no", 2)}
    [] agent = "final" -> {Says("yes", 1), Says("no", 1)}
    [] OTHER -> {Says("yes", 1)}]
MCEstimate == <<3, 2>>

\* A period with one opportunity, or one with two; and the first one again, in a
\* walk-forward window.
MCOpportunities == <<1, 2>>
MCAgendas == {<<1>>, <<2>>}
MCAgendasTwice == {<<1, 1>>}

\* Two crews; envelopes equal, tilted either way, incomplete, or of one crew.
Ceilings(berlin, tokyo) == [crew \in {"berlin", "tokyo"} |-> IF crew = "berlin" THEN berlin ELSE tokyo]
MCAllocations == {Ceilings(1, 1), Ceilings(2, 1), Ceilings(1, 2), Ceilings(Absent, 1), [crew \in {"berlin"} |-> 2]}
MCFirst == [id |-> "p1", envelopes |-> Ceilings(1, 1), source |-> "s1"]

\* A policy whose totals are below the sum of its members' limits; two plans under
\* it, the second with the larger share for one member and an earlier end.
Tight == [total |-> 5, member |-> 4, totalCalls |-> 3, memberCalls |-> 2, retries |-> 0]
MCPolicies == {Tight}
MCPlans == {[policy |-> Tight, budget |-> <<3, 2>>, calls |-> <<1, 1>>, expires |-> 2],
            [policy |-> Tight, budget |-> <<4, 1>>, calls |-> <<2, 1>>, expires |-> 1]}
MCQuotes == {[eur |-> 2, attempts |-> 1], [eur |-> 1, attempts |-> 2]}
=============================================================================

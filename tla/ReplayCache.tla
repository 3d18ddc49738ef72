------------------------------- MODULE ReplayCache -------------------------------
(***************************************************************************)
(* The answers of the models kept by LIVE_EVAL campaigns and told again to  *)
(* CACHED ones (services/backtest/cache.py and ai_modes.py), under the      *)
(* gateway's budget and the pipeline's stages: the professor's plan, the    *)
(* independent round, Palermo, the professor's decision.                    *)
(*                                                                          *)
(* A campaign replays periods one after the other on one budget; walk-      *)
(* forward windows may replay a period again.  What a live model is asked   *)
(* together is under way together; from the cache an answer comes without a *)
(* suspension, so each specialist is over before the next one asks.         *)
(***************************************************************************)
EXTENDS Integers, Sequences, SequencesExt, FiniteSets, FiniteSetsExt

CONSTANTS
  Crew,           \* the specialists a plan selects, in order
  replies,        \* what a live model may answer each agent: a word, and its cost
  estimate,       \* what a request reserves, by route
  MinAnalysis,    \* ComputeGatePolicy.minimum_analysis_budget_eur
  Agendas,        \* the periods of a campaign, in order
  opportunities,  \* how many opportunities the scanner finds in a period
  Limits,         \* ai_hard_budget_eur
  MaxFound,       \* bound: opportunities in all campaigns
  Nothing

Core == {"plan", "palermo", "final"}
Agents == Core \cup Range(Crew)
Reply(word, price) == [says |-> word, cost |-> price]

\* A plan that selects an agent twice is refused (pipeline.py:929).  An answer costs at
\* most what its request reserved, and no model answers in the words of a cache miss.
ASSUME ReplayCacheAssumption ==
  /\ Crew \in Seq(Range(Crew)) /\ Crew # <<>> /\ IsInjective(Crew)
  /\ Core \cap Range(Crew) = {}
  /\ estimate \in Seq(Nat \ {0}) /\ estimate # <<>>
  /\ \A a \in Agents, r \in DOMAIN estimate : \A reply \in replies[a] : reply.cost \in 0 .. estimate[r]
  /\ \A a \in Agents : \A reply \in replies[a] :
       reply = Reply(reply.says, reply.cost) /\ reply # Nothing /\ reply.says # "missing"
  /\ {MinAnalysis, MaxFound} \subseteq Nat
  /\ Agendas \subseteq Seq(DOMAIN opportunities) \ {<<>>}
  /\ \A p \in DOMAIN opportunities : opportunities[p] \in Nat \ {0}
  /\ Limits \subseteq Nat

VARIABLES
  cache,     \* BacktestResponseCache._responses
  campaign,  \* the campaign under way, or the last one
  found,     \* counts the opportunities of the campaigns started
  lived      \* history: the last LIVE_EVAL campaign that was complete

cacheVars == <<cache, campaign, found, lived>>

NoCampaign ==
  [mode |-> "NONE", agenda |-> <<>>, limit |-> 0, status |-> "NONE",
   period |-> 1, opportunity |-> 1, trades |-> 0, stage |-> "gate",
   route |-> [a \in Agents |-> 0], said |-> [a \in Agents |-> Nothing],
   spent |-> 0, results |-> <<>>, put |-> {}, flaws |-> {}]

CacheInit == cache = <<>> /\ campaign = NoCampaign /\ found = 0 /\ lived = NoCampaign

---------------------------------------------------------------------------
(* What a campaign asks.                                                   *)

\* The words that reach a later prompt.
Words(c, agents) == [i \in DOMAIN agents |-> c.said[agents[i]].says]

\* The part of a prompt that depends on what went before it.
Heard(c, agent) ==
  CASE agent = "plan" -> <<c.limit - c.spent>>
    [] agent = "palermo" -> Words(c, <<"plan">> \o Crew)
    [] agent = "final" -> Words(c, Crew \o <<"palermo">>)
    [] OTHER -> <<>>

\* key_for: the scope of the experiment (_cache_scope_from_run), and the request.
Key(c, agent, route) ==
  [limit |-> c.limit, period |-> c.agenda[c.period],
   opportunity |-> c.opportunity, trades |-> c.trades,
   agent |-> agent, route |-> route, heard |-> Heard(c, agent)]

Waiting(c) == {a \in Agents : c.route[a] # 0 /\ c.said[a] = Nothing}
Held(c) == FoldFunctionOnSet(LAMBDA x, y : x + y, 0, [a \in Waiting(c) |-> estimate[c.route[a]]], Waiting(c))

\* The first route of the chain that fits in the budget, or 0.
FirstFitting(c) ==
  LET fits == {r \in DOMAIN estimate : c.spent + Held(c) + estimate[r] <= c.limit}
  IN  IF fits = {} THEN 0 ELSE Min(fits)

Is(word) == Reply(word, 0)
Failing == {"bad", "refused", "failed", "missing"}

\* The request is sent, unless the budget refuses it on every route.
Asked(c, agent) ==
  LET r == FirstFitting(c)
      flaws == IF r = 1 THEN c.flaws ELSE c.flaws \cup {"tight"}
  IN  IF r = 0 THEN [c EXCEPT !.said[agent] = Is("refused"), !.flaws = flaws]
      ELSE [c EXCEPT !.route[agent] = r, !.flaws = flaws]

\* Variant: an answer out of the cache is free.
ReplyTakenFree(c, agent, reply) ==
  [c EXCEPT !.said[agent] = reply, !.spent = @ + IF c.mode = "CACHED" THEN 0 ELSE reply.cost]
ReplyTaken(c, agent, reply) == [c EXCEPT !.said[agent] = reply, !.spent = @ + reply.cost]

\* complete in mode CACHED: answered at once, or a miss.
LookedUp(c, agent) ==
  LET asked == Asked(c, agent)
      key == Key(asked, agent, asked.route[agent])
  IN  IF asked.route[agent] = 0 THEN asked
      ELSE IF key \in DOMAIN cache THEN ReplyTaken(asked, agent, cache[key])
      ELSE ReplyTaken(asked, agent, Is("missing"))

\* complete: live, the request is under way.
Asks(c, agent) == IF c.mode = "CACHED" THEN LookedUp(c, agent) ELSE Asked(c, agent)
AllAsk(c, agents) == FoldLeft(Asks, c, agents)

---------------------------------------------------------------------------
(* What becomes of an opportunity.                                         *)

\* The agents of a stage, in order.
Of(stage) == IF stage = "round" THEN Crew ELSE <<stage>>
NextStage == [gate |-> "plan", plan |-> "round", round |-> "palermo", palermo |-> "final"]

\* The first one that failed speaks for the round.
Failure(c) ==
  LET words == Words(c, Of(c.stage))
      wrong == {i \in DOMAIN words : words[i] \in Failing}
  IN  IF wrong = {} THEN "NONE" ELSE IF words[Min(wrong)] = "missing" THEN "MISS" ELSE "FAILED"

Found(c) == opportunities[c.agenda[c.period]]
LastOfPeriod(c) == c.opportunity = Found(c)

\* _raise_cached_miss, once the replay of a period is over.
RaisesMiss(c, results) ==
  /\ c.mode = "CACHED" /\ LastOfPeriod(c)
  /\ \E i \in Len(results) - Found(c) + 1 .. Len(results) : results[i] = "MISS"

Concluded(c, result) ==
  LET results == Append(c.results, result)
      last == LastOfPeriod(c)
  IN  [c EXCEPT
        !.results = results, !.stage = "gate",
        !.route = NoCampaign.route, !.said = NoCampaign.said,
        !.opportunity = IF last THEN 1 ELSE @ + 1,
        !.trades = IF last THEN 0 ELSE IF result = "TRADE" THEN @ + 1 ELSE @,
        !.period = IF last THEN @ + 1 ELSE @,
        !.status = IF RaisesMiss(c, results) THEN "FAILED"
                   ELSE IF last /\ c.period = Len(c.agenda) THEN "COMPLETED" ELSE @]

\* Once every agent of the stage has an answer.
GoesOn(c) ==
  IF \E a \in Range(Of(c.stage)) : c.said[a] = Nothing THEN c
  ELSE IF Failure(c) # "NONE" THEN Concluded(c, Failure(c))
  ELSE IF c.stage = "plan" /\ c.said["plan"].says = "no" THEN Concluded(c, "NO_ANALYSIS")
  ELSE IF c.stage = "final" THEN Concluded(c, IF c.said["final"].says = "yes" THEN "TRADE" ELSE "NO_TRADE")
  ELSE [c EXCEPT !.stage = NextStage[@]]

GoesTo(c) ==
  /\ campaign' = c
  /\ lived' = IF c.status = "COMPLETED" /\ c.mode = "LIVE_EVAL" THEN c ELSE lived
  /\ UNCHANGED found

---------------------------------------------------------------------------
InStage(stage, mode) == campaign.status = "RUNNING" /\ campaign.stage = stage /\ campaign.mode = mode

\* What a campaign over the same experiment keeps takes the place of what was kept.
BeginCampaign(mode, agenda, limit) ==
  /\ campaign.status # "RUNNING"
  /\ found' = found + MapThenSumSet(LAMBDA i : opportunities[agenda[i]], DOMAIN agenda)
  /\ found' <= MaxFound
  /\ campaign' = [NoCampaign EXCEPT !.mode = mode, !.agenda = agenda, !.limit = limit, !.status = "RUNNING"]
  /\ lived' = IF mode = "LIVE_EVAL" /\ limit = lived.limit THEN NoCampaign ELSE lived
  /\ UNCHANGED cache

\* The compute gate reads the budget.
Gate(mode) ==
  /\ InStage("gate", mode) /\ UNCHANGED cache
  /\ GoesTo(IF campaign.limit - campaign.spent < MinAnalysis THEN Concluded(campaign, "NO_ANALYSIS")
           ELSE [campaign EXCEPT !.stage = "plan"])

\* The replay looks for a cancellation at every candle.
CancelReplay(mode) ==
  /\ InStage("gate", mode) /\ UNCHANGED cache
  /\ GoesTo([campaign EXCEPT !.status = "CANCELLED"])

\* The agents of the stage ask.  Live they wait; from the cache each one is answered
\* before the next one asks.
Ask(stage, mode) ==
  /\ InStage(stage, mode) /\ UNCHANGED cache
  /\ \A a \in Range(Of(stage)) : campaign.route[a] = 0 /\ campaign.said[a] = Nothing
  /\ GoesTo(GoesOn(AllAsk(campaign, Of(stage))))

Awaits(agent) == campaign.mode = "LIVE_EVAL" /\ campaign.status = "RUNNING" /\ agent \in Waiting(campaign)

\* The provider answers, and the answer is kept.
AnswerLive(agent, reply) ==
  LET key == Key(campaign, agent, campaign.route[agent])
      answered == ReplyTaken(campaign, agent, reply)
  IN  /\ Awaits(agent)
      /\ cache' = [k \in DOMAIN cache \cup {key} |-> IF k = key THEN reply ELSE cache[k]]
      /\ GoesTo(GoesOn([answered EXCEPT
           !.put = @ \cup {key}, !.flaws = IF key \in campaign.put THEN @ \cup {"twice"} ELSE @]))

\* The provider fails: nothing is kept, and campaigns do not try again.
FailLive(agent) ==
  /\ Awaits(agent) /\ UNCHANGED cache
  /\ GoesTo(GoesOn([campaign EXCEPT !.said[agent] = Is("failed"), !.flaws = @ \cup {"failed"}]))

CacheNext ==
  \/ \E mode \in {"LIVE_EVAL", "CACHED"} :
       \/ Gate(mode) \/ CancelReplay(mode)
       \/ \E agenda \in Agendas, limit \in Limits : BeginCampaign(mode, agenda, limit)
       \/ \E stage \in {"plan", "round", "palermo", "final"} : Ask(stage, mode)
  \/ \E agent \in Agents : FailLive(agent) \/ \E reply \in replies[agent] : AnswerLive(agent, reply)

CacheSpec == CacheInit /\ [][CacheNext]_cacheVars

---------------------------------------------------------------------------
(* Properties.                                                             *)

\* The campaign replays the last LIVE_EVAL campaign: the same periods on the same
\* budget, from what that one kept.
ReplaysLived ==
  /\ campaign.mode = "CACHED" /\ lived.status = "COMPLETED"
  /\ campaign.agenda = lived.agenda /\ campaign.limit = lived.limit

Repeats ==
  /\ campaign.status # "FAILED"
  /\ IsPrefix(campaign.results, lived.results)
  /\ campaign.status = "COMPLETED" => campaign.results = lived.results /\ campaign.spent = lived.spent

\* A LIVE_EVAL campaign is repeated from the cache, decision by decision and at
\* the same cost, if the provider answered every request, the budget left room for
\* every request on its first route, and no request was made twice; whatever was
\* kept before it.
CleanRunReplays == ReplaysLived /\ lived.flaws = {} => Repeats

\* docs/11, "Cache IA V2": a LIVE_EVAL run fills a cache that is then replayable.
\* Here with every request answered and room in the budget.
AnsweredRunReplays == ReplaysLived /\ lived.flaws \subseteq {"twice"} => Repeats
=============================================================================

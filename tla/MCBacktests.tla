----------------------------- MODULE MCBacktests -----------------------------
(* Backtests, in one run: the campaigns of the dashboard, and what is made of  *)
(* the fills of their runs.  They share no variable; `focus` is the one that   *)
(* moves.                                                                      *)
EXTENDS BacktestCampaign

CONSTANTS
  FillPrices, Sizes, FeeBps, Digits, setupOf, MaxFills, NoOpportunity, None   \* of SetupStats

VARIABLES
  focus,
  now, role, account, metrics, trades, split, reports, prior, held, ended     \* of SetupStats

Stats == INSTANCE SetupStats

ASSUME InstanceAssumption == Stats!StatsAssumption

statsVars == <<now, role, account, metrics, trades, split, reports, prior, held, ended>>

Begins == focus \in {"campaigns", "samples"} /\ CampaignInit /\ Stats!StatsInit

Goes ==
  \/ focus = "campaigns" /\ CampaignNext /\ UNCHANGED <<focus, statsVars>>
  \/ focus = "samples" /\ Stats!StatsNext /\ UNCHANGED <<focus, campaignVars>>

BacktestSpec == Begins /\ [][Goes]_<<focus, campaignVars, statsVars>> /\ CampaignFairness

---------------------------------------------------------------------------
(* Properties of SetupStats, which says what they are about.               *)

\* The evaluation arrives at the broker's account, an opportunity is a sample once
\* and only when its position is over, and no decision is told of what came after.
SamplesHold == Stats!SamplesHold

\* Scaled, reduced and reversed positions are attributed.
EveryTradeAttributed == Stats!EveryTradeAttributed

\* Opportunities of two setups in turn.
MCSetup == [o \in 1 .. MaxFills |-> o % 2]
=============================================================================

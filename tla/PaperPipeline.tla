---------------------------- MODULE PaperPipeline ----------------------------
(***************************************************************************)
(* The PAPER pipeline (services/paper_pipeline) of each shadow system, and  *)
(* the fleet runner that takes one market event through the systems in turn *)
(* (services/shadow).  The only suspension of a pipeline run is the call of *)
(* the agents: broker, journal and providers answer at once, so all that    *)
(* follows the agents' answer is one step.  Runs of several events overlap. *)
(***************************************************************************)
EXTENDS RiskEngine, Sequences, SequencesExt

CONSTANTS
  Fleet,          \* the systems, in execution order
  Events,         \* root opportunities, each with its market snapshot
  Runs,           \* calls of ShadowFleetRunner.run
  closeOf,        \* the close of each event's snapshot: the execution mark
  expiryOf,       \* when each event's opportunity, and its proposal, expires
  Plans,          \* what agents may propose: side, entry, stop
  profileOf,      \* the risk profile of each system
  marketOf,       \* the market's constraints for each system, or None
  DeskBalance, DeskShorts,  \* broker configuration
  OpenRisks,      \* the open risk a caller may report
  Disturbed,      \* bound: the systems whose switch, journal and portfolio state change
  MaxDisturbances, \* bound: how many times they do
  EndOfTime       \* bound: the clock stops there

Systems == {Fleet[i] : i \in DOMAIN Fleet}

\* A fleet without a system is refused.
ASSUME DeskAssumption ==
  /\ Fleet \in Seq(Systems) /\ Fleet # <<>>
  /\ Plans # {}
  /\ Plans \subseteq [side : {"LONG", "SHORT"}, entry : Nat, stop : Nat, leverage : Nat, rr : Nat]
  /\ closeOf \in [Events -> Nat] /\ expiryOf \in [Events -> Nat]
  /\ profileOf \in [Systems -> Profile] /\ marketOf \in [Systems -> Constraints \cup {None}]
  /\ OpenRisks \subseteq Int /\ Disturbed \subseteq Systems
  /\ DeskBalance \in Nat /\ EndOfTime \in Nat

VARIABLES
  desks,  \* of each system: broker's book, journal, portfolio state given, kill switch
  runs,   \* of each fleet run: where it is, what it knows, how its branches ended
  time,   \* the wall clock
  disturbances,  \* counts them
  halted  \* history: the systems stopped and not reset since

deskVars == <<desks, runs, time, disturbances, halted>>

EmptyBook == [orders |-> <<>>, cash |-> DeskBalance, fees |-> 0, realized |-> 0,
              pos |-> [s \in {"symbol"} |-> [qty |-> 0, avg |-> 0]],
              stops |-> [s \in {"symbol"} |-> [price |-> None, qty |-> None]]]

\* Of the paper broker, the operators on books are used; every desk has its own.
Broker == INSTANCE PaperBroker WITH
  Symbols <- {"symbol"}, Prices <- {}, Quantities <- {}, LimitPrices <- {}, StopPrices <- {},
  InitialBalance <- DeskBalance, MakerBps <- 0, TakerBps <- 0, SlippageBps <- 0,
  AllowShort <- DeskShorts, MaxOrders <- 0, marks <- [s \in {"symbol"} |-> None], book <- EmptyBook

NewAccount == [equity |-> DeskBalance, dayStart |-> DeskBalance, peak |-> DeskBalance, dailyPnl |-> 0,
               open |-> 0, openRisk |-> 0, correlatedRisk |-> 0, gross |-> 0]
Unset == [newTrades |-> FALSE, ai |-> FALSE, emergency |-> FALSE]

NoClaim == [opportunities |-> {}, proposals |-> {}]
IdleRun == [stage |-> "IDLE", event |-> None, given |-> None, now |-> 0, at |-> 1, ended |-> <<>>]

DeskInit ==
  /\ desks = [s \in Systems |-> [book |-> EmptyBook, folio |-> NewAccount, switch |-> Unset,
                                 journal |-> TRUE, claimed |-> NoClaim, entries |-> <<>>]]
  /\ runs = [r \in Runs |-> IdleRun]
  /\ time = 0
  /\ disturbances = 0
  /\ halted = {}

---------------------------------------------------------------------------
(* A fleet run: one branch after another, a failed branch never stops it.  *)

\* The caller gives the run a time, or lets each branch read the clock.  A
\* snapshot that is not the opportunity's is refused.
StartRun(r, e, snapshot, given) ==
  /\ runs[r].stage = "IDLE"
  /\ runs' = [runs EXCEPT ![r].stage = IF snapshot = e THEN "BRANCH" ELSE "RAISED",
                          ![r].event = IF snapshot = e THEN e ELSE None,
                          ![r].given = IF snapshot = e THEN given ELSE None]
  /\ UNCHANGED <<desks, time, disturbances, halted>>

System(r) == Fleet[runs[r].at]
\* ShadowSystemResult: a branch has failed, or has completed with or without a trade.
Ended(r, status) == Append(runs[r].ended, IF status = "FAILED" THEN "FAILED" ELSE "COMPLETED")

\* The beginning of PaperTradingPipeline.run: the time of the run is fixed, the
\* journal must be there, the agents are asked.
BeginBranch(r) ==
  /\ runs[r].stage = "BRANCH"
  /\ runs' = [runs EXCEPT ![r].now = IF runs[r].given = None THEN time ELSE runs[r].given,
                          ![r].stage = IF desks[System(r)].journal THEN "AGENTS" ELSE "EVALUATE",
                          ![r].ended = IF desks[System(r)].journal THEN @
                                       ELSE Ended(r, "FAILED")]
  /\ UNCHANGED <<desks, time, disturbances, halted>>

Proposed(plan, e) == [side |-> plan.side, entry |-> plan.entry, stop |-> plan.stop,
                      leverage |-> plan.leverage, rr |-> plan.rr, expires |-> expiryOf[e]]

Blocks(switch) == switch.newTrades \/ switch.emergency

Decision(r, plan) ==
  LET d == desks[System(r)]
  IN  Evaluate(Proposed(plan, runs[r].event), d.folio, profileOf[System(r)], marketOf[System(r)],
               Blocks(d.switch), runs[r].now)

OrderOf(plan, qty) == [sym |-> "symbol", side |-> IF plan.side = "LONG" THEN "BUY" ELSE "SELL",
                       kind |-> "MARKET", qty |-> qty, limit |-> None, status |-> "PENDING"]

\* An opportunity, or a proposal, is claimed once.  Variant: by proposal only.
ClaimedProposal(d, r, e) == <<r, e>> \in d.claimed.proposals
Claimed(d, r, e) == e \in d.claimed.opportunities \/ <<r, e>> \in d.claimed.proposals

\* The order its client order id names already, or one the broker refuses.
Repeated(d, e) == \E i \in DOMAIN d.entries : d.entries[i].event = e
Refused(d, e, order) ==
  \/ \E i \in DOMAIN d.entries : d.entries[i].event = e /\ d.book.orders[i] # [order EXCEPT !.status = "FILLED"]
  \/ ~DeskShorts /\ order.side = "SELL"
       /\ order.qty > (IF d.book.pos["symbol"].qty > 0 THEN d.book.pos["symbol"].qty ELSE 0)

\* How a run whose agents answered ends: a status and, of a failure, its stage.
Verdict(r, answer) ==
  LET d == desks[System(r)]
      e == runs[r].event
      order == OrderOf(answer.plan, Decision(r, answer.plan).qty)
  IN  IF answer.kind = "RAISES" THEN <<"FAILED", "orchestration">>
      ELSE IF ~d.journal THEN <<"FAILED", "orchestration_audit">>
      ELSE IF answer.kind = "NO_TRADE" THEN <<"NO_TRADE", "">>
      ELSE IF answer.kind = "FAILED" THEN <<"FAILED", "orchestration">>
      ELSE IF answer.event # e THEN <<"FAILED", "proposal_validation">>
      ELSE IF marketOf[System(r)] = None THEN <<"FAILED", "risk_context">>
      ELSE IF Decision(r, answer.plan).status = "REJECTED" THEN <<"RISK_REJECTED", "">>
      ELSE IF closeOf[e] <= 0 THEN <<"FAILED", "execution_preflight">>
      ELSE IF Claimed(d, r, e) THEN <<"DUPLICATE_BLOCKED", "">>
      ELSE IF Refused(d, e, order) THEN <<"FAILED", "paper_broker">>
      ELSE <<"EXECUTED", "">>

\* The book after process_price at the snapshot's close and the market order.
BookAfter(d, e, order) ==
  LET ticked == Broker!AfterTick(d.book, "symbol", closeOf[e])
      placed == Broker!Placed(ticked, order)
  IN  Broker!FillMarket(placed, Len(placed.orders), closeOf[e])

\* The desk after the claim, which nothing gives back, and the execution.
Claiming(d, r, e) ==
  [d EXCEPT !.claimed.opportunities = @ \cup {e}, !.claimed.proposals = @ \cup {<<r, e>>}]
Executing(d, r, e, plan, qty) ==
  IF Repeated(d, e) THEN d
  ELSE [d EXCEPT !.book = BookAfter(d, e, OrderOf(plan, qty)),
                 !.entries = Append(@, [event |-> e, run |-> r, plan |-> plan, qty |-> qty,
                                        folio |-> d.folio, at |-> time])]

AgentsAnswer(r, answer) ==
  /\ runs[r].stage = "AGENTS"
  /\ LET s == System(r)
         e == runs[r].event
         v == Verdict(r, answer)
         claimed == Claiming(desks[s], r, e)
     IN  /\ desks' = [desks EXCEPT ![s] =
                        CASE v[1] = "EXECUTED" ->
                               Executing(claimed, r, e, answer.plan, Decision(r, answer.plan).qty)
                          [] v = <<"FAILED", "paper_broker">> -> claimed
                          [] OTHER -> @]
         /\ runs' = [runs EXCEPT ![r].ended = Ended(r, v[1]), ![r].now = 0,
                                 ![r].stage = "EVALUATE"]
  /\ UNCHANGED <<time, disturbances, halted>>

\* The evaluator may suspend; however it ends, the next system has its turn.
EvaluateBranch(r) ==
  /\ runs[r].stage = "EVALUATE"
  /\ runs' = [runs EXCEPT ![r].at = @ + 1,
                          ![r].given = IF runs[r].at = Len(Fleet) THEN None ELSE @,
                          ![r].stage = IF runs[r].at = Len(Fleet) THEN "RETURNED" ELSE "BRANCH"]
  /\ UNCHANGED <<desks, time, disturbances, halted>>

---------------------------------------------------------------------------
(* What happens around the runs.                                           *)

\* ShadowSystemRuntime.update_portfolio_state, with the broker's account.
Refresh(s, openRisk) ==
  LET d == desks[s]
      mark == IF d.entries = <<>> THEN 0 ELSE closeOf[Last(d.entries).event]
      worth == d.book.cash + d.book.pos["symbol"].qty * mark
  IN  /\ desks' = [desks EXCEPT ![s].folio =
                     [equity |-> worth, dayStart |-> DeskBalance, dailyPnl |-> worth - DeskBalance,
                      peak |-> IF worth > d.folio.peak THEN worth ELSE d.folio.peak,
                      open |-> IF d.book.pos["symbol"].qty = 0 THEN 0 ELSE 1,
                      openRisk |-> openRisk, correlatedRisk |-> openRisk,
                      gross |-> Broker!Magnitude(d.book.pos["symbol"].qty) * mark]]
      /\ UNCHANGED <<runs, time, halted>>

\* KillSwitch.  Each keeps the flags it does not set, reset clears them all.
\* The variant of stop_ai starts from a new state.
AfterStopAINew(switch) == [Unset EXCEPT !.ai = TRUE]
AfterStopAI(switch) == [switch EXCEPT !.ai = TRUE]

StopNewTrades(s) ==
  /\ desks' = [desks EXCEPT ![s].switch.newTrades = TRUE]
  /\ halted' = halted \cup {s}
  /\ UNCHANGED <<runs, time>>

StopAI(s) ==
  /\ desks' = [desks EXCEPT ![s].switch = AfterStopAI(@)]
  /\ UNCHANGED <<runs, time, halted>>

Emergency(s) ==
  /\ desks' = [desks EXCEPT ![s].switch = [newTrades |-> TRUE, ai |-> TRUE, emergency |-> TRUE]]
  /\ halted' = halted \cup {s}
  /\ UNCHANGED <<runs, time>>

Reset(s) ==
  /\ desks' = [desks EXCEPT ![s].switch = Unset]
  /\ halted' = halted \ {s}
  /\ UNCHANGED <<runs, time>>

JournalTurns(s) ==
  /\ desks' = [desks EXCEPT ![s].journal = ~@]
  /\ UNCHANGED <<runs, time, halted>>

TimePasses ==
  /\ time < EndOfTime /\ time' = time + 1
  /\ UNCHANGED <<desks, runs, disturbances, halted>>

---------------------------------------------------------------------------
\* What the orchestration may answer; NO_TRADE also stands for NO_ANALYSIS.
AnyPlan == CHOOSE plan \in Plans : TRUE
Answers(e) ==
  {[kind |-> "PROPOSAL", event |-> e, plan |-> plan] : plan \in Plans}
    \cup [kind : {"RAISES", "NO_TRADE", "FAILED"}, event : {e}, plan : {AnyPlan}]
    \cup [kind : {"PROPOSAL"}, event : Events, plan : {AnyPlan}]

RunSteps(r) ==
  \/ BeginBranch(r)
  \/ \E answer \in Answers(runs[r].event) : AgentsAnswer(r, answer)
  \/ EvaluateBranch(r)

DeskNext ==
  \/ \E r \in Runs : RunSteps(r)
  \/ \E r \in Runs, e, snapshot \in Events, given \in {None, time} : StartRun(r, e, snapshot, given)
  \/ /\ disturbances < MaxDisturbances /\ disturbances' = disturbances + 1
     /\ \E s \in Disturbed :
          \/ StopNewTrades(s) \/ StopAI(s) \/ Emergency(s) \/ Reset(s) \/ JournalTurns(s)
          \/ \E openRisk \in OpenRisks : Refresh(s, openRisk)
  \/ TimePasses

DeskSpec == DeskInit /\ [][DeskNext]_deskVars

---------------------------------------------------------------------------
(* Properties.                                                             *)

RunState == [stage : {"IDLE", "RAISED", "BRANCH", "AGENTS", "EVALUATE", "RETURNED"},
             event : Events \cup {None}, given : Nat \cup {None}, now : Nat,
             at : 1 .. Len(Fleet) + 1, ended : Seq({"COMPLETED", "FAILED"})]
DeskTypeOK ==
  /\ runs \in [Runs -> RunState]
  /\ halted \subseteq Systems
  /\ time \in 0 .. EndOfTime
  /\ \A s \in Systems : desks[s].claimed \in [opportunities : SUBSET Events,
                                             proposals : SUBSET (Runs \X Events)]

\* One market event enters a system's book once, whatever fleet runs it is given
\* to at the same time: one run at most gets past the claim, even when the broker
\* then refuses its order, and no order is there without its claim.
OneEntryPerSignal ==
  \A s \in Systems :
    LET claims == desks[s].claimed.proposals
        entries == desks[s].entries
    IN  /\ \A c, d \in claims : c[2] = d[2] => c = d
        /\ \A i \in DOMAIN entries : <<entries[i].run, entries[i].event>> \in claims
        /\ \A i, j \in DOMAIN entries : entries[i].event = entries[j].event => i = j
        /\ Len(entries) = Len(desks[s].book.orders)

\* Between a stop and a reset no position is opened, not even by a run whose
\* agents were asked before the stop, and whatever else was set meanwhile.
HaltHolds ==
  [][\A s \in halted : desks'[s].entries = desks[s].entries]_deskVars

\* What is bought is the largest multiple of the market's step that keeps the
\* trade, the portfolio, correlated risk, leverage and the market's maximum
\* within their limits, on the portfolio state the desk was given.
LargestSafeSize ==
  \A s \in Systems : \A i \in DOMAIN desks[s].entries :
    LET n == desks[s].entries[i]
    IN  LargestSafe(n.qty, Proposed(n.plan, n.event), n.folio, profileOf[s], marketOf[s])

\* A signal enters a system's book once, in the largest size its limits allow.
EntriesHold == DeskTypeOK /\ OneEntryPerSignal /\ LargestSafeSize

\* docs/04: a proposal that has become obsolete cannot be executed.
NoEntryPastExpiry ==
  \A s \in Systems : \A i \in DOMAIN desks[s].entries :
    desks[s].entries[i].at < expiryOf[desks[s].entries[i].event]

=============================================================================

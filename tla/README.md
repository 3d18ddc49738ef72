# A TLA+ verification of Money-Heist

Money-Heist (Python) runs "crews" of AI agents over market opportunities, judges
their proposals with deterministic risk rules, and executes them in historical
replays, on paper and, behind many gates, on Kraken Spot. The code promises four
kinds of things that tests reach badly:

- **one intent, one order**, whatever the network, a crash or a retry does;
- **money is bounded**: an AI budget shared by concurrent calls, a portfolio
  capacity shared by crews, an account shared by opposing virtual positions;
- **gates close**: a kill switch, a reconciliation flag, a review or an approval
  that is read at one moment and acted upon at a later one;
- **no hindsight**: what a decision, a backtest or a statistic is told was known
  at its time, and what was told once stays told.

This directory models the parts of the program that carry these promises, checks
them with TLC on small instances and proves the central ones with TLAPS for every
value of the constants. Paths below are relative to the repository's root.

Contents: 1 the system; 2 the modules; 3 the runs; 4 bounds and fairness;
5 proofs; 6 disagreements found; 7 what is not modelled; 8 the plan.


## 1. The system

### 1.1 Components, their state and their operations

| component | state | operations | modelled by |
|---|---|---|---|
| LIVE order broker, `app/trading/live/broker.py`, `store.py`, `kraken_private.py` | the `live_orders` table (SQLite, survives a crash); the coroutines inside a call; requests on the wire; the orders of the exchange | `submit_order`, `reconcile`, `get_order`, `cancel_order` | `LiveOrders` |
| LIVE gates, `activation.py`, `safety.py`, `execution.py`, `reconciliation.py`, `preflight*.py` | arming mode (process memory), kill switch and reconciliation flag (durable rows), last preflight report | arm, disarm, stop, emergency, clear, preflight, startup reconciliation, `submit_authorized` | `LiveControl` |
| AI gateway, `app/intelligence/ai_gateway/` | ledger of spent and reserved money, usage records, running calls | `generate_structured`, `_run_route`, `reserve`, `settle`, `release` | `AIGateway` |
| Orchestration, `app/services/orchestration/` | stage of the opportunity, its gate level, selected specialists, audit | gate, plan, independent round, Palermo, final decision | `Orchestration` |
| Replay of AI answers, `app/services/backtest/cache.py`, `ai_modes.py` | the answers kept, in memory | LIVE_EVAL and CACHED campaigns | `ReplayCache` |
| Risk engine and kill switch, `app/trading/risk/` | three kill switch flags in memory | `evaluate`, a pure function; stop, reset | `RiskEngine` |
| PAPER pipeline and shadow fleet, `app/services/paper_pipeline/`, `app/services/shadow/` | of each system: broker, claims and journal, given portfolio state, switch | `PaperTradingPipeline.run`, `ShadowFleetRunner.run` | `PaperPipeline` |
| Paper broker, `app/trading/paper/broker.py` | orders, cash, positions, stops, last prices | submit, cancel, set and cancel stop, process price | `PaperBroker` |
| Backtest engine, `app/services/backtest/runner.py`, `lifecycle.py`, `intrabar.py`, `portfolio.py` | clock, candle under way, protection of the position, equity observed | exits at OPEN and CLOSE, decision | `HistoricalReplay` |
| Backtest campaigns, `app/dashboard/backtest.py`, `FrontendV2Store` | runtime records, active campaign, lock, results, files on disk | start, run, cancel, poll, persist | `BacktestCampaign` |
| Evaluation of backtests, `app/evaluation/trading.py`, `setup_stats.py`, `denver_prior.py` | positions rebuilt from fills, lots, samples, the frozen prior | fold over fills, attribute, freeze, tell | `SetupStats` |
| Master capacity and risk gate, `app/portfolio/reservation.py`, `risk_gate_*.py` | reservation records, memoised attempts | reserve, evaluate, apply, release | `ReservationLedger`, `MasterAdmission` |
| Master replay, `app/portfolio/historical_replay_*.py` | barrier, candidates, ledger, virtual lots, one paper account | exits at OPEN and CLOSE, decide, reserve, arbitrate, execute, register | `MasterReplay` |
| Allocation policy, `app/portfolio/allocation*.py` | the policy in force (SQLite), the documents of a change | analyse, advise, review, authorize, compare-and-swap, receipt, seal | `AllocationPolicy` |
| Task forces, `app/task_force/` | immutable documents: records, contracts, runs, reports | gate, transition, prepare, execute members, aggregate | `TaskForce` |
| Recruitment, `app/recruitment/` | lifecycle records, advisories, plans passed by value | advise, plan, record | `Recruitment` |
| Histories, `scripts/market_data/` | cached archives, native and resampled files, manifest; consolidated and minimal files, plan | download; synchronise | `HistoryDownload`, `HistorySync` |
| Public market data, `app/market/exchange/` | pacing lock, cached metadata and derivatives, snapshots being built | `get_json`, build a snapshot, refresh, consult | `PublicClient`, `MarketFeed` |
| Larger timeframes, `app/market/multitimeframe.py` | open buckets, emitted candles | push, resample | `MultiTimeframe` |
| Analytics, `app/analytics/zigzag/`, `patterns/` | extremes and pivots; lives of patterns | compute; recognise, replay, project | `ZigZag`, `PatternLifecycle` |
| Features and scanner, prompts, reports, API views, frontend, storage | none that decides | pure functions, parsing, views | no (section 7) |

### 1.2 How they interact

- **Market data** is asked for through one paced client. A snapshot and the
  derivatives are awaited piece by piece while other builds run; their composite is
  an opportunity's input. Backtests read **histories** that scripts downloaded or
  synchronised, resampled to larger timeframes with swings and patterns on them.
- An **opportunity** goes through the compute gate, which reads the AI ledger.
  The Professor plans, specialists run concurrently (`asyncio.gather`), Palermo
  reviews, the Professor decides. Every agent is one gateway call over *the same*
  ledger. In a campaign the provider's answers may come from the replay cache.
- A **proposal** is judged by the risk engine from snapshots, becomes an order
  intent, and goes to the paper broker, or to the LIVE execution service, the only
  caller allowed to feed the LIVE broker.
- The **LIVE broker** writes an intent in the table before it calls the exchange.
  Three processes share that table: trading, the preflight command (which runs
  the startup reconciliation), and the safety command.
- In **Master mode**, the proposals of several crews reserve capacity in a ledger,
  pass the Master Risk Gate one by one, and are executed on *one* paper account.
  What each crew owns is a virtual lot; the account holds only the net position.
- A **campaign** is a background task of the API's event loop that replays periods
  one after the other; a route on a worker thread cancels it; a watcher writes its
  progress and its result. When its runs are over, their fills become trades and
  samples, and a later run is told of them.
- **Operators** change the allocation policy, approve task forces and move candidates
  with documents passed by value: any of them may have grown old when it is used.

### 1.3 What is hard here

Asyncio gives up control at an `await` only, so the questions are what was read
before an `await` and used after it, what another process or thread wrote meanwhile,
and what a crash leaves. `PROJECT.json` lists each hazard at its line. In short:

- *LIVE*: two submissions of one intent between lookup and record; an `AddOrder`
  that times out and arrives later, even after a restart; a reconciliation that
  overwrites with an older row; gates read before the exchange queries and not after.
- *AI*: concurrent reservations on one limit; a provider that charges more than
  was reserved; one failing specialist among others still running; the order of
  settlement, record, validation, audit; an answer kept under a request that is
  made twice.
- *Paper*: overlapping runs of one opportunity; a kill switch pulled while agents
  are asked; a proposal that expires meanwhile; limits and the stop of one tick; an
  entry that fills over a position; equity anchored on another day.
- *Master*: decisions applied late, twice or out of order; cash that refuses what
  capacity had granted; gaps and candles that touch both levels; opposing lots.
- *Campaigns*: a cancellation before the task has begun or after its last
  checkpoint; a lock awaited behind a failing campaign; two writers of one file.
- *Statistics*: rounded shares of a close; samples that ended after the cutoff.
- *Operators*: documents that outlive what they describe; a crash between a commit and
  its receipt; a restart with the configured policy.
- *Market data*: answers awaited one after the other that become one picture; a
  local clock that runs ahead; files rewritten in place; archives published late;
  extremes known only later.

### 1.4 What makes each component correct

| component | correctness |
|---|---|
| LIVE orders | no order without a durable record; the record never ahead of the exchange; one order per intent; an ambiguous record stays ambiguous until an exchange order explains it |
| LIVE gates | the flag that blocks entries is lowered only on intents that have their orders, and over no other than those already past the gates when it was raised; a kill switch that stays on drains the submissions |
| AI gateway | spent plus reserved within the limit; nothing reserved by a call that is over; usage records account for what was spent |
| Orchestration | every opportunity ends, with no call left running; a proposal is backed by a complete, audited crew that the gate allowed |
| Replay cache | a campaign repeated from the cache decides the same, at the same cost |
| PAPER pipeline, risk | a signal enters once, in the largest size the limits allow; between a stop and a reset nothing enters |
| Paper broker | equity = deposit + gains − fees; stops live and on the right side; crossed limits never rest; an exit stop never turns the position |
| Backtest engine | the remembered protection is the broker's; exits are adverse; the engine judges the account as it is |
| Campaigns | one at a time; a stop asked for in time is honoured; every campaign ends and its result reaches the disk |
| Statistics | the evaluation arrives at the broker's account; an opportunity is a sample once and when it is over; no hindsight |
| Master capacity | envelopes and global limits hold whatever the order of decisions; a reservation is decided once |
| Master replay | the account, the ledger and the crews' books describe the same positions and the same money; stops honoured, adverse first |
| Allocation policy | a policy replaces the very one it was reviewed on; no restart brings an old one back |
| Task forces | a run rests on an approved composition; every charge is in the usage; the budget holds |
| Recruitment | no promotion without shadow and probation; an advice moves only the record it was given for |
| Histories | a manifest describes files that hold what the exchange has; no hole, and only the last candle may be provisional |
| Public data | requests leave apart; price, candles and derivatives belong to the decision's time |
| Timeframes, analytics | whole buckets, no look-ahead; swings alternate and are extremes; patterns do not repaint |


## 2. The modules

`PROJECT.json` maps every definition to the lines it models. An operator marked
*Variant* in a comment is not part of the model: it is the form a plausible bug
would give to the definition that follows it, kept to show that a property
notices that bug. No action uses it.

A variable described as *history* is written by the actions and read by the
properties only.

### 2.1 `OrderIntents`, `LiveOrders`, `LiveControl`

`OrderIntents` is the abstract promise: an intent is recorded and sent together,
for the first and only time; an order is placed only by that one sending, or the
sending is lost.

`LiveOrders` is the broker. `store` is the table, `task[t]` the coroutine `t` with
what it has read (`local`, the record; `row`, the exchange row), `wire` the
`AddOrder` requests under way, `orders` the exchange.

| code (`broker.py`) | actions |
|---|---|
| `submit_order` up to its first await | `SubmitCall` |
| `_find_exchange_order`: open, then closed orders | `QueryOpen`, `QueryClosed`, `ReadFails` |
| an order was found; NEW committed, `AddOrder` sent | `SubmitFound`; `SubmitSend` |
| the answers of `AddOrder` | `SubmitAck`, `SubmitBadAnswer`, `SubmitRejected`, `SubmitAmbiguous` |
| `reconcile`, `get_order` | `ReconcileCall`, queries, `ReconcileResume` |
| `cancel_order` | `CancelCall`, `CancelAck` (which goes on as a reconciliation), `CancelRejected`, `CancelAmbiguous` |
| the network and the exchange | `ArriveAccepted`, `ArriveRejected`, `RequestLost`, `OrderFills`, `OrderEnds` |
| the process dies | `Crash`: the tasks are lost, table, wire and exchange are not |

A request may arrive after its caller timed out, after a crash and after a
reconciliation. The exchange may register a volume other than the one asked
(`Volumes`): the DIVERGENCE branch exists in the code. The broker does not itself
serialise submissions of one intent; the constant `OverlapSubmits` says whether
its callers do. The exchange is not assumed to refuse a second order with one
`cl_ord_id`: the broker itself provides for several matches (`broker.py:338`).

`LiveControl` EXTENDS `LiveOrders` with the gates. The trading process is all tasks
but `Coord`; the task `Coord` belongs to the preflight command. Three processes
share one database, so a transaction of one of them is a step, even where its
process does not await: the other two may commit in between.

| code | actions |
|---|---|
| `submit_authorized`: arming and kill switch; flag; broker | `ReadSafety`, `ReadFlag`, `EnterBroker` (the rest of the trading process waits, `gate`) |
| `stop_new_trades`: the row is read; a whole row is written | `StopRead`, `StopWrite` |
| preflight: raises the flag; raises it again and lists the table; open orders | `PreflightStart`, `CoordStart`, `CoordList` |
| each unresolved record is reconciled | `CoordNext`, `CoordQuery`, `CoordResume` |
| `reconciliation.py:111`; `store.py:254`; `store.py:256-275` | `CoordRead`, `CoordRecheck`, `CoordLower` |
| `run_preflight`: flag and kill switch; unresolved records, report | `ReportGates`, `PreflightReport` |

`coord.known` is what the table held when it was last read; `coord.past`, history, the
intents whose submission was past the gates when the preflight raised the flag. The
checks of configuration, permissions and market inside the preflights are one
nondeterministic verdict: no property distinguishes them.

### 2.2 `AIGateway`, `Orchestration`, `ReplayCache`

`AIGateway` has one record per call: where it is (`waiting` on the provider,
`backoff`, `done`, a failure its callers expect or another one), on which route, at which attempt. All code between
two awaits is one action: `TryRoutes` reserves on the first route the budget allows
and sends; `Answer` settles, records, validates and either ends or backs off;
`IncompleteAnswer`, `RetryableFailure` and `FinalFailure` are the other ways an
answer comes back; `Retry` reserves again after the backoff, or goes on along the
chain. Tokens and prices are reduced to the cost reserved for a route (`cost`), what
a complete answer may cost (`actual`, possibly more) and what a failing request may
be charged (`failed`). `billed` is what the provider charged, `over` what it charged
beyond reservations: history.

`Orchestration` EXTENDS it with the pipeline. `Begin` is the compute gate: it reads
the remaining budget once, while the ledger changes later. `Planned` is
`_validate_plan` and its consequences, `FirstRound` the gathering of specialists
(`return_exceptions=True`: all have ended), then `Reviewed`, `Finalized`; `CoreFailed` is an
expected failure of a core agent, `Escapes` an exception that the run does not catch: the result is `RAISED`, without
audit, which the PAPER pipeline reports as its failure (`RAISES` in `PaperPipeline`). What an
agent answers is nondeterministic. Opportunities follow one another over one ledger.

`ReplayCache` is the same pipeline seen by a campaign whose answers are kept
(LIVE_EVAL) or told again (CACHED): what matters there is what a request *is*, so a
key holds the scope of the experiment, the opportunity, the agent, its route and
what it heard of the others and of the budget. A live round has its requests and
reservations under way together (`Ask`, then `AnswerLive` or `FailLive` for each agent);
a cached one has each specialist over before the next asks (`Ask` alone, in mode CACHED),
since a cached answer comes without a suspension. A campaign makes one attempt per request.

### 2.3 `RiskEngine`, `PaperPipeline`, `PaperBroker`

`RiskEngine` has no state: `evaluate` with its refusals in the order of the code, and
sizing to the largest multiple of the market's step. Money is whole, limits are whole
percentages, budgets are counted in hundredths. `PaperPipeline` and `HistoricalReplay`
call it.

`PaperPipeline` is the pipeline of each system and the fleet runner that takes an
event through the systems in turn (`StartRun`, `RunSteps`). A run suspends once, while
the agents answer; everything after that is one step. Runs of several events, and
several runs of one event, overlap; meanwhile the switch is pulled and reset, the
journal becomes unavailable and the portfolio state is refreshed.

`PaperBroker`: no method awaits, so each is one action on `book` (orders, cash, fees,
realized gains, positions, stops) and `marks` (last prices). `ProcessPrice` is the whole
tick: mark, then every crossed limit in the order of submission, then the stop of what
the position has become. Money is integral; the instance's prices are chosen so that
every fee, slippage and average is whole, as the code's `Decimal` keeps them. Pipeline
and replay use its operators on their own books.

### 2.4 `HistoricalReplay`, `BacktestCampaign`, `SetupStats`

`HistoricalReplay` is the runner's loop over candles: `NextCandle`, `CandleOpen` (a gap
beyond the stop or a target exits at the open), `CandleClose` (stop before target when
both were touched), then `Decide` or `Pass`. The lifecycle raises in five cases, which
are states of `step`; two of them are reachable: a target on the wrong side of a
filled entry (`TARGET_SIDE`) and a stop the broker refuses (`STOP_REFUSED`).

`BacktestCampaign` has the campaign's task (`JobStep`: from one suspension to the next),
the route that cancels, a plain function on a worker thread whose every statement may
fall between any two others (`CancelRead`, `CancelSet`, `CancelStatus`, `CancelWrite`,
`CancelRename`), and the watcher of the sidecar (`Poll`, `Rename`), which blocks the
loop while it writes. `disk` is what a reader of the files would see. `memory` is the list of campaigns the
sidecar holds, of limited size: taking one in (`Takes`), when it starts or when a route on a worker thread opens one
that is only on disk (`Open`), lets the oldest go and cancels its watcher (`Forsaken`), which still finishes the
turn it is in (the stage `LAST`).

`SetupStats` follows one fill at a time three things: the broker's book, the evaluation
that rebuilds positions and trades from fills alone, and the attribution that divides
each closed trade among the opportunities that built the position. `EndRun` turns to the
next period, `Freeze` makes a prior. Amounts are decimals of `Digits` significant
digits with the code's rounding: three in the instance instead of 28, so that small
numbers show what repeating fractions do.

### 2.5 `ReservationLedger`, `CapacityPool`, `MasterAdmission`, `MasterReplay`

`ReservationLedger` has no state: it is the arithmetic of a ledger (who holds what,
does a request fit, does the gate admit it), as operators on a ledger value.
Both stateful modules use it.

`CapacityPool` is the abstract promise of capacity: taken at most once and only
within what envelopes leave, confirmed at most once and only within global limits,
never coming back once returned.

`MasterAdmission` is the ledger with callers that may do anything: observe the
portfolio, evaluate a candidate (`Evaluate` records a decision with the ledger it was
made on, which is what the code's fingerprint identifies), and apply any decision at
once, late, again or never (`Apply`). Calls the code refuses raise and change nothing;
they are the absence of a step.

`MasterReplay` is the runner's loop over candles. Each candle: lots whose level the
open gapped leave (`OPEN`), the other touched ones leave (`CLOSE`), the portfolio is
observed, each crew proposes at most one trade, proposals reserve in order, are
admitted one by one, executed on the one account, and registered as lots. The
phases process a queue element per step, so that a property sees the middle. When a
lot cannot be constructed after its order filled (slippage carried the fill to its
stop or target), the replay ends in phase `ABORTED`, as the code raises there.

### 2.6 `AllocationPolicy`, `TaskForce`, `Recruitment`

The three share a form: the code's steps are functions of documents, so the state is
who holds which document. A fingerprint is the document itself: equal digests, equal
contents.

`AllocationPolicy`: the only shared state is the row of the store. Each change goes
through `Analyse`, `Advise`, `Review`, `Prepare`, `Authorize`, `Preflight`, `Apply` (the
compare-and-swap), `Receipt`, `Seal` in a process of its own that may `Crash` anywhere and
open the store again, with or without the configured initial policy (`OpenStore`).

`TaskForce`: documents never change, and anybody may use any of them. `StartRun` takes any
contract with any usage known so far; `MemberAnswers` and `Fail` are a member's call with
what the gateway charged for it, more than its quote if it happens so.

`Recruitment`: an operator keeps the last record of each candidate, and one advisory and
one plan that may have grown old when `Record` applies them.

### 2.7 `HistoryDownload`, `HistorySync`

`HistoryDownload` is the script over a cache on disk: for each archive of the period
`UseCached`, `Fetch` or `Unpublished` (a month falls back to its days), then
`WriteNative`, `WriteDerived`, `WriteManifest`. A candle's archives may hold its row
twice: an equal row is skipped, a contradicting one ends the run (`Once`,
`Contradicted`). A payload may arrive damaged, archives and
their checksums are published late (`Publishes`), a run fails or dies anywhere
(`Stops`). `HistorySync` compares the stored end with the exchange, repairs or refuses,
extends and writes three files, the first of them in place. A candle is the time up
to which it was observed and its revision: the exchange's candle changes until its bar
closes, and may be revised once afterwards. The clock is the exchange's or, when it cannot
be read, the local one, however wrong. `astray` is a history variable: the histories that
a run whose clock was more than a bar ahead had a hand in, by its own fetching or by the
file it began with.

### 2.8 `PublicClient`, `MarketFeed`, `MultiTimeframe`, `ZigZag`, `PatternLifecycle`

`PublicClient` is `get_json` under its pacing lock: waiting in line, sent, answered, backing
off, cancelled. `MarketFeed` is what is asked through it: builds of a snapshot overlap,
each awaits the pairs, the trade, the candles of each timeframe and the derivatives;
every answer has been true some time before its receipt (`Lags`).

`MultiTimeframe` has the incremental cursor as state and the slice in one go as an
operator; the properties compare them. Offered candles may be malformed, repeated or
missing. `ZigZag` is the loop of `compute`, a candle at a time. `PatternLifecycle` EXTENDS it
with the whole evaluation of patterns over a history as an operator, so that an action
property can compare what two successive evaluations say of the same time. What a rule
makes of a window of pivots is the constant `Recognised`; lines are exact fractions.

`MarketData` composes what decisions are told of the market (client and feed, the synchronised
history, larger timeframes, swings) and states their common properties: `CandlesHold` is of the
stored history and of the candles made of it, `SwingsHold` of the swings, `FeedHolds` of the
client and the feed. `Optional` is the value for what is missing (`None`), which several modules
share.

### 2.9 Instances and proofs

`MCLiveOrders`, `MCLiveControl`, `MCAgents`, `MCMasterAdmission`, `MCPaper`, `MCPaperDesk`,
`MCBacktests` and `MCMarket` give constants values for TLC. Several components share a run
when they share no variable: a variable `focus` is drawn at the start and says which one
moves. The state space is then the sum of the parts' and not their product, and a
property of a part is checked exactly as it would be alone.

A part that is proved about is EXTENDED by its instance, so that a property of a run and
that of a theorem are one definition: `MCAgents` extends `Orchestration`, `ReplayCache`,
`AllocationPolicy`, `Recruitment` and `TaskForce`, `MCMarket` extends `MarketData`,
`MCPaper` extends `PaperBroker`, `PaperPipeline`, `HistoricalReplay` and `MasterReplay`. The
other parts of a shared run (`HistoryDownload`, `SetupStats`) are instances under a name.

The theorems are in seven modules, one for each group of components:

| proofs | about |
|---|---|
| `LiveProofs` | `LiveOrders`, `OrderIntents`, `LiveControl` |
| `AgentsProofs` | `AIGateway`, `Orchestration`, `AllocationPolicy`, `Recruitment`, `TaskForce` |
| `MasterProofs` | `ReservationLedger`, `CapacityPool`, `MasterAdmission`, `MasterReplay` |
| `PaperProofs` | `RiskEngine`, `PaperPipeline`, `PaperBroker` |
| `HistoricalReplayProofs` | `HistoricalReplay`, and `PaperBroker` and `RiskEngine` as it uses them |
| `BacktestCampaignProofs` | `BacktestCampaign`, `ReplayCache` |
| `MarketProofs` | `PublicClient`, `MarketFeed`, `MultiTimeframe`, `ZigZag`, `HistorySync` |

`SetProofs` holds the lemmas several of them cite: the smallest and largest members of a set of
numbers, and how a sum over a finite set changes with its members.


## 3. The runs

"States" are distinct states. A run that expects a violation shows a disagreement
between the code and a sentence of its documentation (section 6).

| run | states | asks | answer |
|---|---|---|---|
| `live_orders` | 188 000 | one submission at a time per intent, with divergent volumes: can timeouts, late arrivals, crashes and reconciliations create a second order or clear an ambiguity without evidence? calls that overlap anyhow: can an order exist without a record, a record claim more than the exchange did? | no (`IntentsAreSingle`, `ResolvedOnlyByExchange`; `OrdersAreKnown`, `OverlapsHold`), and the broker implements `OrderIntents` (`AtMostOnce`) |
| `live_retry` | 3 300 | and a second order, when submissions overlap? | yes |
| `live_control` | 907 000 | preflight, operator and trading side by side: over which orders can the flag be lowered, does a kill switch leave submissions running? | only over intents that the last read found settled and submissions past the gates before the preflight (`GateOpensReconciled`); no (`KillSwitchDrains`) |
| `agents` | 672 000 | two opportunities, concurrent specialists, retries, fallback, overcharges: budget, leaks, records, termination, proposals; is an undisturbed LIVE_EVAL campaign repeated from the cache? do policies, task forces and promotions rest on what was reviewed, approved and advised, through crashes and old documents? | they hold (`BudgetHeld`, `ResultsHold`, `AlwaysEnds`; `CleanRunReplays`; `PolicyHolds`, `RestartKeepsPolicy`, `RunsHold`, `PromotionEarned`) |
| `ai_billing` | 46 000 | if failing requests are charged, does spending stop at the ceiling? | no |
| `replay_cached` | 31 000 | is a campaign with walk-forward windows repeated from the cache? | no |
| `master_admission` | 1 497 000 | late, repeated and reordered decisions: envelopes, limits, one decision per reservation, the pool's promise | hold (`CapacityHeld`, `AdmittedWithinLimits`, `DecidedOnce`, `PoolSpec`) |
| `paper` | 1 222 000 | the broker's book under any mix of calls; overlapping runs of signals through two systems while switch and journal change; the replay of one system; the Master's replay | hold (`BookHolds`, `AccountBalances`, `StopOnlyReduces`; `EntriesHold`, `HaltHolds`; `ProtectionHolds`, `JudgedOnTrueAccount`, `ExitIsAdverse`; `LotsHold`, `AdverseFirst`, `ReplayPoolSpec`) |
| `paper_stale_signal` | 220 | is a proposal never executed once it has expired? | it may be |
| `backtests` | 218 000 | two campaigns, a cancelling thread and older campaigns that are opened; fills of two setups over two periods | hold (`CampaignsObey`, `EveryCampaignEnds`, `ResultReachesDisk`; `SamplesHold`) |
| `setup_stats` | 1 000 | is every position attributed to the opportunities that built it? | no |
| `market` | 1 211 000 | histories under late archives, damage, a wrong clock and deaths; larger timeframes; swings and patterns; paced requests; overlapping builds | hold (`HistoriesHold`, `CandlesHold`, `SwingsHold`, `NoRepaint`, `FeedHolds`) |

A property of a shared run that names several parts is their conjunction, as is the
type invariant of each module: the modules say what each part means.

Three answers are worth a remark:

- `AdmittedWithinLimits` would hold on this instance without the freshness check of
  `risk_gate_admission.py:366`: every evaluation counts what is only reserved as
  exposure to come, so of two admitted requests the one evaluated last counted both.
  The check is a second line of defence; the proof (5.3) uses it, as the code has it.
- `KillSwitchDrains` is about entries in the long run. A submission that already
  passed the gate does send its order after an emergency: the gate is read before the
  two exchange queries and not again.
- `EntriesHold` says of the size of an entry (`LargestSafe`) what one decision allows. An entry that adds to a position is judged on
  the portfolio's open risk, and its stop replaces that of the whole position: an add
  with a looser stop can carry the position's risk above the portfolio limit.


## 4. Bounds and fairness

### 4.1 Bounds

Every bound is a constant or a small set.

- **LIVE orders**: one intent, two coroutines, two exchange ids, quantity 2 (so that a
  partial fill exists), volumes {2, 3} where submissions are serialised (a divergent
  volume). Two coroutines on one intent are what any interleaving of the broker needs:
  records of different intents are independent, as the theorems confirm for any number.
- **LIVE control**: one intent, one trading coroutine and the coordinator, one exchange
  id; manual orders compete for that id.
- **AI**: three specialists (so that MINI_CREW's two is a real limit), two routes, two
  attempts, two opportunities, limit 7: the first opportunity may run a whole crew, the
  second finds a ledger on which the first route, the full crew or any analysis may no
  longer fit. The second route may cost twice its estimate.
- **Replay cache**: two specialists, one of which answers in two ways at two costs, a
  decision either way, two routes; periods of one and of two opportunities, campaigns
  of four opportunities in all: a period may be lived, lived again and then replayed, and
  the second opportunity of a period is asked with what the first one left. The budget
  12 holds a period of two on its first route or not, depending on the answers. The
  violation takes one period in two windows.
- **Paper**: the book has one symbol, three submitted orders, two prices, quantities 1 and
  2 (so a stop may be larger than what is left and an order may flip a position). The desk
  has two systems, one without a limit on each trade, two events that expire at
  different times, two overlapping runs, two disturbances of one system. The replay has
  four candles out of five shapes (rising, falling, swinging either way, gapping), two days,
  four signals of both sides, one with two targets, one whose stop is looser. The Master has
  two crews with two trades each, LONG and SHORT, four candles of five shapes: the envelopes
  hold one trade of each crew, the equity refuses the two larger ones together, the risk
  limit another pair, and cash may refuse what all these allowed.
- **Master admission**: two crews, three requests: a1 and a2 fill crew a's envelope and the
  limits exactly, either with b1 exceeds a limit, all three the equity; two decisions,
  two instants, three observations (flat, unavailable, showing a position that may not be
  committed yet). That an envelope refuses is reached in the replay.
- **Campaigns**: two campaigns, two roles, one walk-forward window, one checkpoint in each
  replay, one cancelling call, a history of one result and a sidecar that holds one campaign, so that
  the second campaign, or one older campaign that is opened, evicts the first. **Samples**: four fills of two sizes and two prices over the periods, enough
  to scale in, reduce and reverse.
- **Operators**: two changes of the policy over two identities, so that an identity comes
  back with another content and a content with another identity; a task force of two
  members with two plans under a policy tighter than their sum, two runs, two transitions;
  one candidate with six revisions.
- **Histories**: four days in two months of two candles each, two overlapping periods, two
  runs of the download, a candle whose row comes twice, equal or not; a synchronisation
  over four bars, pages of two, clocks a bar behind, right, half a bar and two bars
  ahead: the last is enough for a page that ends with an open candle and another that goes
  on from it. **Feed**: three callers, two attempts; two builds, two timeframes, two metrics, and
  answers as old as tolerances allow or ahead of the local clock.
  **Analytics**: ten candles whose shapes alternate, include candles that are both extremes,
  and end by breaking out, falling through or staying inside.

`CHECK_DEADLOCK FALSE` is in the configurations of parts that come to rest: an AI run over
its last opportunity, an ended replay, campaigns that are over, scripts at the end of
their bounds. The LIVE runs and the Master's admission check deadlock.

Symmetry is used in the LIVE order runs (coroutines and exchange ids) and the paper runs
(fleet runs) only, whose properties are invariants and action properties.

### 4.2 Fairness

- `Orchestration!PipelineFairness`: weak fairness of the pipeline and of each call's step. The
  event loop runs a coroutine that is ready, the HTTP client has a timeout, a backoff is
  a finite sleep. Nothing makes the provider answer *well*: failing for ever is allowed,
  and `AlwaysEnds` holds because attempts and routes are bounded. No fairness on the
  arrival of opportunities.
- `LiveControl!ControlFairSpec`: weak fairness of each step of a trading coroutine that
  is inside a broker call; every request has a timeout and reads have bounded
  retries. And of what `submit_authorized` does without awaiting (`SubmitAuthorized`). None on
  the operator, the exchange, the preflight command or a restart.
- `BacktestCampaign!CampaignFairness`: weak fairness of a campaign's task and of its watcher, both
  tasks of a loop that runs what is ready. A watcher that blocks the loop while it writes
  does so a bounded number of times: it writes on news only. None on the thread that
  cancels, which may stop between any two statements for ever.

The other specifications state none, and no liveness is claimed of them.


## 5. The proofs

TLAPS checks the following for every value of the constants that satisfies the named
assumptions: any number of intents, coroutines, exchange orders, crews, requests,
specialists, routes; any prices, limits and quantities.

### 5.1 `LiveProofs`

Assumptions: `QtyAssumption`, `VolumesAssumption`, `NoClientAssumption`,
`NoTxAssumption`, `OverlapAssumption`.

- `TypeCorrect`: `Spec => []TypeOK`.
- `BrokerSafe`: `Spec => []OrdersAreKnown`, whatever calls overlap. Its conjunct
  `LocalNeverAhead` is not inductive: a coroutine writes what it *read*. `BrokerInv`
  adds `ReadsSound`: what a coroutine holds, the record and the row, was true of the exchange
  and can only have moved on. Writing it therefore preserves soundness, however
  stale. The argument has two halves: exchange steps only let orders grow (`OrdersGrow`,
  `SoundGrows`), and puts only write sound records (`SoundRecords`, `StepPut`).
- `OneOrderPerIntent`: under `~OverlapSubmits`, `Spec => []IntentsAreSingle`. `SubmitInv` adds that
  there is one submitter per intent (`OneSubmitter`), that a submitter still searching has
  no record (`SearchBeforeRecord`), and that a request on the wire is the only one and has no
  order yet (`OnceOnTheWire`). It leans on `NoOrphanOrder`: at `SubmitSend` the table is empty,
  so neither wire nor exchange knows the intent. The run `live_retry` shows that the
  hypothesis is needed.
- `ImplementsIntents`: under `~OverlapSubmits`, `Spec => AtMostOnce`. `SubmitSend` is `Send`, an arrival
  is `Place` or `Drop`, all else a stutter. That an answer records no *new* intent needs one more
  invariant, `SentRecorded`: a coroutine that waits for `AddOrder` has its intent in the table.
- `ResolvedByExchange`: under `~OverlapSubmits`, `Spec => ResolvedOnlyByExchange`, from what a step may
  write (`StepPut`).

`OverlapsHold`, which a run checks where submissions overlap, is the conjunction of what `TypeCorrect` and
`BrokerSafe` prove for both values of `OverlapSubmits`.

With `CoordAssumption`, the broker's invariants carry over to its gates:

- `ControlTypeCorrect`: `ControlSpec => []ControlTypeOK`.
- `GateOpensOnlyReconciled`: under `~OverlapSubmits`, `ControlSpec => GateOpensReconciled`. Each step of the gates is
  one of five things for the orders (`OrdersStep`): a broker's step or call, a step of the exchange, the end of
  coroutines (`Forgotten`) or a manual order. `TableInv` is preserved by each: `BrokerInv`, `SubmitInv` and `Bound`, that
  a record neither new nor to be reconciled names its order. `FlagInv` is about the preflight. `PassedBefore`: from the
  raising of the flag to its lowering, a submission under way is in `coord.past`, since none passes `ReadFlag` meanwhile.
  `ReadHolds`: between the last read and the write, the intents of `coord.known` keep their orders (`OwnersStay`) and a
  new record is a submission's (`RecordsOfSubmits`). `CoordRecheck` establishes it: nothing is unresolved there, so by
  `Bound` and `LocalNeverAhead` every intent has its order; that it is off the wire is `SubmitInv`'s. What the coordinator
  listed first has no part in the argument, which is why it may be stale.

### 5.2 `AgentsProofs`

**The gateway and the pipeline.** Assumptions: `GatewayAssumption` (natural amounts), `TotalAssumption`
(`Total` is addition over calls, by its two laws; the instance uses a fold), `CrewAssumption`.

`InvHolds` proves the inductive `Inv`; `TypeCorrect`, `BudgetNeverExceeded` and `ResultsAlwaysHold` follow.

- `GatewayInv` is inductive for the calls alone. `BudgetHeld` needs `NothingLeaks` (settling takes
  out exactly what sending put in) and `CallsOK` (a call that waits or backs off is on
  a real route, with an attempt left). Each action is reduced to three effects: a
  reservation is made within the remaining limit, converted into spending with the excess
  counted in `over`, or given back.
- `ResultsHold` is that the ledger agrees with the calls and the records (`LedgerAgrees`), that a result leaves
  nothing running (`EndsClean`) and that a proposal was earned (`ProposalEarned`). `StageInv` says which calls
  may run at each stage and what was audited on the way there. `EndsClean` needs it: the round ends only when
  the selected specialists have ended and no other call was started; `ProposalEarned` needs the audited set at
  every stage.

**Operators and task forces.** Assumptions: `PolicyAssumption`, `RecruitmentAssumption`, `TaskForceAssumption`.

- `PolicyAlwaysHolds`: `PolicySpec => []PolicyHolds`. `Documented` says what the papers of a change are worth at each stage,
  and `Rests` that a committed replacement is of a change whose papers no longer move (`Stays`). The compare-and-swap
  then extends the chain: the store holds the last replacement's result (`StoreInv`), whoever crashed in between.
- `RestartAlwaysKeepsPolicy`: `PolicySpec => RestartKeepsPolicy`.
- `PromotionAlwaysEarned`: `RecruitmentSpec => []PromotionEarned`. A plan carries its advisory, and an advisory its evidence
  (`FromAdvisory`, `Given`). A document may be old, but its revision is at most the record's, so that one that applies was
  given for the record as it is.
- `RunsAlwaysHold`: `TaskForceSpec => []RunsHold`. An approval is never taken back from the composition it was given to;
  a run's usage is what it started with and what its members were charged (`Money`); and a member is called only when the
  compute gate found room for its quote (`Paced`), so that a run exceeds its plan and policy by at most the excess of one
  answer over its quote (`Kept`). What its members spent is a fold over the squad: by the lemmas of `SetProofs` one
  member's charge moves the sum by as much.

### 5.3 `MasterProofs`

**Admission.** Assumptions: `RequestAssumption`, `SumAssumption` (`Sum` is addition over sets of requests, by its
two laws), `ObservationAssumption`, `BoundAssumption`. The modules `ReservationLedger` and
`CapacityPool` are covered with it.

- `CapacityInvariant`: envelopes and equity. Reserving checks them; committing only moves a
  request between the two active sets; releasing takes out, and sums are monotone
  (`SumWithout`).
- `AdmissionsWithinLimits`: not inductive alone, as a decision is applied to a later state than
  the one it was made in. `SeenAdmissible` strengthens it: every admission on record was made
  on a ledger where committed plus reserved amounts were within the limits. With `Applicable`,
  which requires that ledger to be the present one, committing stays within.
- `DecidedOnlyOnce`: the one-way life of a reservation, as an action property.
- `ImplementsPool`: `Spec => PoolSpec`; each step maps to `Take`, `Confirm`, `Return` or a stutter.
- `TypeCorrect`: types, and that a record exists exactly for a granted request.

The types of `Orchestration` and of `MasterAdmission` are proved only: no run spends its time on
them.

**The coordinated replay.** Assumption: `TradeAssumption` (finitely many requests, no two of one rank; sides, natural
quantities and levels; candles of natural prices), with those of the ledger.

- `LotsAlwaysHold`: `MasterSpec => []LotsHold`. What it says of the account, the ledger and the lots holds between barriers
  only, so the invariant must say how far each phase has got. `StageAgrees` does, with three sets of requests for each
  phase: what is committed beyond the open lots (`E`), what is reserved (`W`) and what is bought beyond the open lots
  (`B`). While trades are reserved, those already through the queue are `W`; while they are arbitrated, those admitted are
  `E` and those still waiting `W`; while they are executed, those filled are also `B`; and registering turns `E` and `B`
  into lots. `LotsKnown` keeps the books apart: what is in a queue has no lot yet, a closed lot's capacity is released.
  The cash of `CrewsOwnTheAccount` is a sum over lots, which moves by one term when a lot is closed and by several when
  lots are registered (`AccountSells`, `AccountRegisters`). What a step does to the books is said of their values
  (`AccountIs`, `BooksAgree`), so that it can be followed through the phases. `StopsHonoured` and the capacity of the
  ledger are part of the invariant, `MasterInv`.
- `ExitsAdverseFirst`: `MasterSpec => AdverseFirst`, from the shape of a resolution and from what `LotsKnown` keeps of
  `Valid`: a lot's stop is on the losing side of its target, so that slippage below the stop cannot reach the target.
- `ReplayImplementsPool`: `MasterSpec => ReplayPoolSpec`. A reservation is `Take`, an admission `Confirm`, a veto, a
  rejection or an exit `Return`; candles, fills and registrations are stutters. That `Confirm` is allowed rests on
  `GateAdmissible`, of the ledger at hand: the sequential arbitration applies a decision in the step that made it, where
  `MasterAdmission` needs `SeenAdmissible`.

### 5.4 `PaperProofs`

**The desks.** Assumptions: `DeskAssumption` (a fleet with a system; natural prices and clocks; limits that are integers or absent),
`NoLimitAssumption`.

- `EntriesAlwaysHold`: `DeskSpec => []EntriesHold`. Three parts meet. *Once*: a claim is of a run and its event, and
  `Orderly` says that two claims of one opportunity are the same claim and that every entry has its claim: of the runs of
  one event that wait for their agents together, the first to answer claims and the others find the claim. *Entries are
  orders*: as many entries as orders, so nothing reaches a book but by the pipeline. *Largest safe size*: `LargestSafe`
  is a statement about division (`DivBounds`, `StepsOfBudget`): `SizeIsLargestSafe` shows that the size the risk engine
  rounds down to is within every limit, and that one more step of the market would not be.
- `HaltAlwaysHolds`: `DeskSpec => HaltHolds`. `HaltedAreStopped`: the switch of a system that was stopped and not reset
  blocks new trades, and an answer reads the switch at the time it enters, not when its run began.

**The broker.** Assumption: `MoneyAssumption` (natural prices and quantities, of at least one; natural rates; `None` is no
number). Amounts are integers, and an average price is the integer part of its quotient: the theorems hold whatever it is.

- `BookAlwaysHolds`: `Spec => []BookHolds`, that a stop protects a position, from its right side and not yet passed, and
  that no limit order rests at a price the market has reached. It is inductive with `LimitsPriced`. A tick is the
  difficulty: it fills limits in a fold over all orders, each of which may reduce, flip or close the position and so take
  its stop away. `LimitsRecursion` unfolds the library's fold into a recursion on the number of orders looked at, and
  `LimitsInOrder` shows by a smallest counterexample what holds of each prefix (`FilledTo`): exactly the crossed limits
  of that symbol are filled, and a stop that is left protects what is left. `StopTriggers` is the step after them.
- `StopsOnlyReduce`: `Spec => StopOnlyReduces`. The stop's order is for no more than what the limits of the same tick left
  of the position, whatever was set before them.

### 5.5 `HistoricalReplayProofs`

Assumptions: `ReplayAssumption` (candles whose extremes bound their open and close; signals whose stop and targets, at least
one, are on both sides of their entry, as the agents' schema requires; natural balance and slippage), `NoLimitAssumption`.

`ReplayInv` is inductive. It says what the account, the remembered protection, the portfolio state and the observed
equities are to each other after every event, up to the abort that a stop refused by the broker is:

- `Covers`: the protection is of the position's side, quantity and average entry, and the broker's stop is at its price
  and for all of it; a flat account has neither a stop nor a protection. `TargetsBeyond` adds that its targets are beyond
  its stop, without which an exit at a target could not be shown to be on the gaining side.
- `StageHolds`: at `CLOSE` the open did not already leave; at `DECIDE` the last price has not passed the stop. The first
  rules out the lifecycle's error about a gap at the close, the second lets a stop be set again after an add.
- `FolioMirrors`, `SeenSoFar`, `PeakIsHighest`: the state the risk engine is given is that of the book at the last price,
  equity has been observed at every event up to the clock, the day's anchor is the last equity of the day before, and
  the peak bounds all of them.

Three theorems follow. `ProtectionAlwaysHolds`: `ReplaySpec => []ProtectionHolds`. `ExitsAlwaysAdverse`: `ReplaySpec =>
ExitIsAdverse`; its arithmetic is that each resolution's price is no better than `ExitLevel` and that slippage only makes
it worse (`LeftWell`), a product of a signed quantity and a price, for each side. `AlwaysJudgedOnTrueAccount`: `ReplaySpec
=> JudgedOnTrueAccount`, as what is bought is the quantity of `Judged` on the state that `FolioMirrors` identifies with the
true account.

### 5.6 `BacktestCampaignProofs`

Assumptions: `CampaignAssumption` (at least one role, one checkpoint, a history and a memory of at least one; campaigns are
numbers, and not those on disk from an earlier life), and
for the second theorem `ReplayCacheAssumption` (a plan selects an agent once, as `_validate_plan` demands; an answer costs at
most what its request reserved, and is not in the words of a cache miss).

`CampaignsAlwaysObey`: `CampaignSpec => []CampaignsObey`, that one campaign replays at a time and that one whose stop was
asked for in time leaves no result, whatever older campaigns are opened meanwhile. Neither is inductive. `UnderWay` adds that whatever has begun and is not over has a
status that keeps another from starting; `InTime` that a campaign cancelled in time keeps its flag and has a checkpoint
before it, and that only a campaign that is over has a result. The cases that need care are the statements of the route
that cancels, which act on a campaign that has meanwhile ended, the eviction of old results, and that of a campaign whose
watcher is at its files (`TakesKeeps`: it stays there, and the loop with it).

`CleanRunAlwaysReplays`: `CacheSpec => []CleanRunReplays`, for any crew, answers, costs, routes, periods and budgets. The
property compares two campaigns, one of them over and forgotten but for its record, so the invariant `CacheInv` says what is
left of the first: a *tale* of it (`Tale`), a set of states between two stages that holds the first and the last one and in
which each other has a next one (`Leads`), reached with answers that are all kept under the keys the stage asks
(`AreKept`), by a budget with room for the whole stage on its first route (`HasRoom`).

- `Sound` is that invariant of the campaign under way: as long as it is clean, it rests in a state of its tale, or waits for
  some of a stage, the others answered and kept. `LivedIsTold` keeps the tale of the last clean one, and says that a CACHED
  campaign over the same periods on the same budget is in a state of that tale (`Follows`): then its results are a prefix.
- Two facts carry the argument. What a stage hears, and with it each of its keys, depends only on the state the stage starts
  from, never on who of the stage answered first. And answers never cost more than their reservations, so where there was
  room for a whole stage asked together there is room for each of its agents asked after the others: the cached campaign
  asks on the same route (`AskedLive`, `AskedCached`), hears the same answers, and pays the same.
- What other campaigns do is the rest: keys hold the budget, so campaigns on another one replace nothing of the tale's, and a
  LIVE_EVAL campaign on the same budget ends the promise when it starts. An answer asked twice in one campaign is a flaw, for
  it replaces the first one (6.1); so is a failed or a tight request.
- The stage's fold over its agents (`FoldLeft`) is unfolded by hand as a smallest counterexample over the sets of places.

### 5.7 `MarketProofs`

Assumptions: `ClientAssumption`, `FeedAssumption`, `SeriesAssumption`, and `DoublingAssumption`, that a power of two is a
natural number: the prover does not know exponentiation; `TimeframesAssumption`; `SyncAssumption`.

- `FeedAlwaysHolds`: `ClientSpec /\ FeedSpec => []FeedHolds`.
  *Requests leave apart* (`ClientInv`): who queues is in the line once (`LineInv`), the holder of the lock is alone and sleeps
  at least what is left of the interval (`PaceInv`); a cancelled holder hands the lock on.
  *What a decision is told is of its time* (`FeedInv`): `BuildOK` says what one build has read and how old it can be: the
  metrics it awaits are of the time its refresh began, give or take the tolerances. Builds that go on at the same
  time disturb it only by `GoesOn`: the clock and the cached snapshot move forward. From that follow that the context is
  not of the future, that its age is within the three tolerances together, and that a specialist which was announced finds
  what was announced or something newer.
- `SwingsAlwaysHold`: `ZigSpec => []SwingsHold`, for any series, however long, and any multiple of the range. The invariant
  `ZigOK` is about what the loop holds after any history: the pivots alternate, each is beyond the one before by its
  reversal and known only after its candle (`PivotsOK`); the candidate is beyond the last pivot, no candle since has
  passed or reversed it, and from the second leg on none since the last pivot has passed it (`NextOK`). The first
  leg is the exception: a candle that is both extremes may lose one of them (6.2).
- `CandlesAlwaysHold`: `SyncSpec /\ MtfSpec => []CandlesHold`, of the stored history and of the candles made of it.
  *The history* is of any length, synchronised any number of times. `OnlyLastProvisional` is not inductive: what
  will be appended must be known while it is fetched. `SyncInv` says that every stored history, and the one a run works
  on, is a stretch of bars (`IsHistory`) of which, unless it is astray, all but the last are final (`Settled`), that what
  was fetched had closed but for the last candle of a run whose clock is up to a bar ahead (`FetchedClosed`), that pages and what is made of them end with the last
  closed candle (`ReachesLast`), and that files agree as far as they are written (`FilesAgree`). Comparing, repairing
  and appending then make a history of two (`CombinedIsHistory`), and a file that a death tore is one still
  (`TornIsHistory`). `SyncAssumption` says nothing of the local clock but that it is a number: that a history has no
  hole, and that a run which read the exchange's clock ends with the last closed candle, holds whatever clocks were
  read before. That its candles had closed holds of the histories that are not `astray`, and only of those: without the
  condition TLC finds a page that ends with a candle still open, an hour that passes, and a next page that goes on from
  it, which leaves a provisional candle inside the history (6.2).
  *The larger timeframes* are any, of any shapes of candles and any length of the source.
  The invariant `MtfInv` says what the cursor's state is as a function of the source: the source is a run of closed
  candles from some start; of each timeframe the open bucket is the stretch since its last multiple, or since the source
  began (`Underway`), and the candles emitted are, in order, those made of each whole aligned stretch so far (`Made`). A
  push moves the edge by one (`CandleJoins`, `SpansGrow`, `MadeGrows`). `AggregateCarries` says what a candle takes from
  its bucket: extremes that are reached, and a volume that is a fold, unfolded as a smallest counterexample. From there
  `ResampleIs` shows that the slice in one go is the same series (`RankIs` orders its buckets), and `VisibleIs` that a
  candle which has not closed, or is malformed, changes neither.

### 5.8 Only model-checked

- *Liveness* (`AlwaysEnds`, `KillSwitchDrains`, `EveryCampaignEnds`, `ResultReachesDisk`): temporal reasoning under
  fairness is out of the prover's reach.
- `AccountBalances`, that equity is the deposit, gains and losses less fees, is not a theorem for every value of the
  constants: an average price is a quotient, whole in the instance because its prices are chosen so.
- `SamplesHold` is not one either: quantities longer than the decimals' digits make the attribution fail (6.1.5). What it
  says of shorter ones rests on folds of rounded quotients.
- `NoRepaint`: `PatternLifecycle` evaluates a history from its start with a sort whose order among equals is a `CHOOSE`; that
  two evaluations agree on a common past is an induction over both.
- `HistoriesHold` is about sequences of archives flattened, sorted and resampled, each an induction over data.
- `OverlapsHold` is checked on an instance where submissions overlap, and is the conjunction of what `TypeCorrect` and
  `BrokerSafe` prove for both values of `OverlapSubmits`.

*Induction over data* is in reach where it is written as a smallest counterexample (`NatLessThanWellFounded`, `WFMin`) and a
fold is unfolded by hand, as in `SetProofs` and in 5.4, 5.5 and 5.7. The principles of the library take an operator as a
parameter, which no installed prover can instantiate.


## 6. Disagreements between the code and its documents

Whether the code or the sentence should change is the team's choice.

### 6.1 Shown by a run, whose counterexample is the scenario

1. **`live_retry`**. `submit_order` looks the intent up (`broker.py:77`), awaits two queries and
   only then records NEW (`broker.py:106`). Two overlapping submissions both send. docs/07:217: a
   retry must not create a second trade. Sequential retries are safe (5.1).
2. **`ai_billing`**. A request that failed, timed out or came back without text releases its
   reservation without accounting for what was charged (`gateway.py:218`, `:224`), and is tried
   again. docs/07:233: once the ceiling is reached, no new spending.
3. **`paper_stale_signal`**. The risk engine judges a proposal's expiry by the time at which its run
   began, before the agents were asked (`paper_pipeline/pipeline.py:94`, `:324`); nothing reads the
   clock again. docs/04:281-283: an obsolete proposal cannot be executed.
4. **`replay_cached`**. A walk-forward campaign replays a period as the evaluation of one window and the
   validation of the next (`dashboard/backtest.py:304-307`). The cache has one answer per request, so the second
   replaces the first (`cache.py:97`); the plans that followed were asked on other budgets. Repeated in mode
   CACHED, the first window hears the second's answers, and then misses or decides otherwise. docs/11:348: a
   LIVE_EVAL run is replayable in CACHED with the same dataset, period and configuration.
5. **`setup_stats`**. Each lot's share of a close is a rounded quotient, and what is left is added up again and
   compared exactly (`setup_stats.py:591-628`, `:757`): lots of 2 and 1 from which 1 and then 2 are closed make
   the attribution of the whole run fail.

### 6.2 Read in the code, with no run of their own

- An ambiguous `AddOrder` marks its own record only (`broker.py:114-123`): other intents still enter until a
  preflight raises the flag. LIVE_RUNBOOKS.md:18-22 announces "blocage nouvelles entrées".
- The reconciliation flag is lowered in a transaction that follows the last look at the unresolved records
  (`store.py:254`, then `:256`): a submission of the trading process that was past the gates when the preflight raised
  the flag can record NEW and send `AddOrder` in between, and the flag is lowered over it. `store.py:255` says "cannot
  mark LIVE state reconciled while unresolved orders remain", and `test_batch15_persistence.py:80` tests it for one
  process. `LiveControl` has the steps (an invariant "`NoneUnresolved` when the flag is lowered" fails in 24 steps);
  `GateOpensReconciled` says what is still true.
- `stop_new_trades` reads the row, then writes a whole new row in another transaction (`safety.py:59-74`): an
  emergency in between is overwritten. LIVE_RUNBOOKS.md:5: the state is durable. `LiveControl` has the two steps.
- `allow_short=False` is checked at submission only (`paper/broker.py:296-300`): two resting sells covered by one
  position may both fill. docs/11:781.
- A spent authorization applies again once the policy has come back to what it replaced: the swap compares contents
  (`allocation_policy_store.py:379`), and an identity may be used again (`allocation_policy_replacement.py:489` asks only that
  it differ from the base's). docs/archives/batches/21/README_BATCH_21G_STEP3.md:176: a second attempt returns
  `CAS_CONFLICT`. `AllocationPolicy` has the case, and its promises hold there.
- The cache also misses in a CACHED repetition when the budget is tight (live specialists hold their reservations
  together, cached ones one after the other, so another route may be chosen) and when a call of the LIVE_EVAL
  campaign had failed (nothing is kept of it). `CleanRunReplays` is stated without these cases.
- Opening older campaigns takes a running one's watcher away: `get` loads what is on disk into the sidecar's memory
  (`frontend_v2.py:767-768`) and `_trim_memory` cancels the watcher of whatever falls out of it (`:725-726`; fifty are
  held). Nobody starts another: the campaign's result never reaches the disk. docs/11:461:
  "À la fin d'une campagne, Frontend V2 snapshotte résumé, traces et exports existants afin de restaurer le replay
  après redémarrage". `ResultReachesDisk` is stated for campaigns that are still in memory; without that exception it
  fails in the run `backtests`.
- The AI cache can be replaced while a campaign starts (`dashboard/backtest.py:1258-1259`, from a route on a worker
  thread): the check and the assignment are two steps.
- A rejected `AddOrder` leaves its record NEW for ever; `arm` accepts a READY report of any age (the gates are read
  again at each submission); a final decision that fails validation was paid for but is not audited,
  and an exception that `OrchestrationPipeline.run` does not catch (an index outside the catalogue, `agents/core.py:99-102`;
  a broken HTTP protocol) takes the audit of every paid call with it, for the PAPER pipeline reports `FAILED` without it; an answer that
  breaks the AI limit is in the ledger and not in the usage records (`SpendRecorded` is stated up to that point).
- When the exchange's clock cannot be read, the synchronisation takes the local one
  (`sync_binance_btc_usdc_h1_v2.py:276`), whatever it says. More than a bar ahead, it lets a page end with a candle that
  is still open and a later page go on from it; a later run refuses the history while that candle is among those
  it compares and the ones after it agree, and does not notice it afterwards. The model has such clocks;
  `OnlyLastProvisional` and `CompletedRunIsFinal` promise closed candles of the histories no such run had a hand in
  (`astray`).
- The download's "Data-quality checks passed" counts gaps between rows only; a damaged archive cached without a
  checksum is kept until `--force-download`.
- ZigZag's first leg may lose the extreme of a candle that is both; a FORMING double's breakout level differs
  between the direct evaluation and the projection.
- The derivatives cache has one slot: a refresh newer than a decision hides an older answer that would have served
  it. Metadata are overwritten by a slower answer (`kraken.py:219`). Candles are judged current at their own receipt,
  not when the snapshot is handed over. A metric may be as old as the three tolerances together and not be called
  stale. `http.client.IncompleteRead` escapes the client's retries.


## 7. What is not modelled, and why

### 7.1 Components left out

- *Features and scanner*, *agents and prompts*: indicators over finite series, texts and schemas. Pure functions of
  data that the models take as nondeterministic input.
- *Arbitration reports, snapshots, fleet; evaluation reports and reputation; decision context*: immutable records
  derived from other records and validated on construction. They hold no state and feed nothing back; a model of
  them would restate their constructors.
- *API views, dashboards, frontend*: parsing and presentation.
- *Storage, configuration, observability*: set-up; the tables that matter are modelled with what writes them.

These are most of the repository's lines. The models cover what decides, which is a smaller part of a code base
whose bulk is records, reports, numerics and views.

### 7.2 Inside modelled components

- *LIVE*: `get_fills` and `get_balances` add trade rows and read balances, and feed no gate.
  Order sizes, nonces and signatures are data. Concurrency inside SQLite is taken as
  transactions in a total order.
- *AI gateway*: a route without a registered client, a configuration error; cancellation of a
  call by its caller; the ledger lives in memory, so a restart is a new run. Recording never
  suspends in the in-memory recorder that is shipped.
- *Orchestration*: the content of answers. Whether evidence is grounded, a context consistent
  or a direction allowed is a verdict.
- *Replay cache*: export and import as a file; MOCK providers, which keep nothing.
- *PAPER pipeline and shadow*: comparisons of metrics, the checks of a fleet's construction.
- *Paper broker*: repeated client order ids, which return the known order or raise.
- *Backtest engine*: fees, contexts given to agents. *Campaigns*: request validation, views, and a restart of the
  server, after which no campaign is known. Opening a campaign is one step of the sidecar's memory, and so is its part of
  starting one: between `remember` and the creation of the watcher's task, or between two statements of `get` and
  `_trim_memory`, another thread could change only which campaign falls out of memory, and when. *Statistics*: slippage, equity metrics and the results of
  samples, divided as fees and quantities are.
- *Master*: mismatching identities and fingerprints (another portfolio, another policy)
  raise before any change. Reports and seals are values computed from the state. In the
  replay: fees; what crews think (they may propose anything eligible).
- *Allocation policy*: what the analysis measures. *Task forces*: the ranking of members, a sort. *Recruitment*: the
  campaigns that produce the evidence.
- *Market data*: the parsing of payloads (valid, or an error). *Analytics*: what each rule makes of a window
  (`Recognised`), scores and outlines.


## 8. Plan

Done, in the order of what a mistake would cost: LIVE orders and gates, AI budget and
pipeline, Master capacity and replay, paper broker, PAPER pipeline and risk, backtest engine and
campaigns, statistics, operators' documents, market data and analytics, the replay cache. Next:

1. **Proofs**: the fold of `HistoryDownload`'s derived candles, whose buckets `MarketProofs` already describes for
   `MultiTimeframe`; `NoRepaint`, once the evaluation is stated as a step from one candle to the next.
2. **A restart of the server** in `BacktestCampaign`, with what is then read from the sidecar's files.
3. **The live scan loop** over `MarketFeed` and `PaperPipeline` in one composition: an opportunity from snapshot to entry.

------------------------------ MODULE AIGateway ------------------------------
(* The AI gateway (app/intelligence/ai_gateway): structured calls that run  *)
(* concurrently in one event loop, over one in-memory hard budget ledger.   *)
(*  - generate_structured tries the routes of a chain, in their order        *)
(*  - _run_route reserves the worst cost, sends the request, settles or      *)
(*    releases, and retries a bounded number of times                        *)
(* A call gives up the event loop only while the provider answers and while *)
(* it backs off: everything between is one action.  Amounts are in ticks of  *)
(* the currency; prices, tokens and prompts are reduced to the cost reserved *)
(* for a route and the costs the provider may report for it.                 *)
EXTENDS Naturals

CONSTANTS Calls,        \* the gateway calls that may be running at once
          Routes,       \* the length of the route chain
          cost,         \* what a request is estimated to cost at most, by route
          actual,       \* the costs the provider may charge, by route
          failed,       \* what it may charge for a request that fails, by route
          HardLimit,    \* AIBudgetLedger._hard_limit
          MaxAttempts,  \* AIGateway._max_attempts
          Total(_)      \* the sum of a function from Calls to amounts

Amounts == {0} \cup {cost[r] : r \in 1..Routes}

ASSUME GatewayAssumption ==
    /\ Routes \in Nat \ {0} /\ MaxAttempts \in Nat \ {0} /\ HardLimit \in Nat
    /\ cost \in [1..Routes -> Nat]
    /\ actual \in [1..Routes -> SUBSET Nat]
    /\ failed \in [1..Routes -> SUBSET Nat]

\* Total adds up: its two laws.
ASSUME TotalAssumption ==
    /\ Total([c \in Calls |-> 0]) = 0
    /\ \A f \in [Calls -> Amounts] :
          /\ Total(f) \in Nat
          /\ \A c \in Calls, a \in Amounts :
                Total([f EXCEPT ![c] = a]) + f[c] = Total(f) + a

VARIABLES spent,     \* AIBudgetLedger._spent
          reserved,  \* AIBudgetLedger._reservations, by the call that made them
          recorded,  \* the total of the usage records
          call,      \* the coroutine of each call
          billed,    \* what the provider has charged
          over       \* history: what was charged beyond the reservations

budgetVars == <<spent, reserved, recorded, billed, over>>
gatewayVars == <<spent, reserved, recorded, call, billed, over>>

\* The budget, the provider or its answer, which the callers expect; or anything else.
Failures == {"budget", "failed", "other"}
Call == [pc: {"idle", "waiting", "backoff", "done"} \cup Failures,
         route: 0..Routes, attempt: 0..MaxAttempts]
Idle == [pc |-> "idle", route |-> 0, attempt |-> 0]

GatewayInit ==
    /\ spent = 0 /\ recorded = 0 /\ billed = 0 /\ over = 0
    /\ reserved = [c \in Calls |-> 0]
    /\ call = [c \in Calls |-> Idle]

Moved(c, to) == call' = [call EXCEPT ![c].pc = to]

-----------------------------------------------------------------------------
(* The ledger.                                                             *)

\* Variant: what others hold is free.
FitsUnshared(c, r) == spent + cost[r] <= HardLimit

Fits(c, r) == spent + Total(reserved) + cost[r] <= HardLimit

\* A provider may charge more than was reserved: settle accounts for it first,
\* and raises when that breaks the limit.
Overspends(c, a) == a > reserved[c] /\ spent + a > HardLimit

Settle(c, a) ==
    /\ spent' = spent + a
    /\ billed' = billed + a
    /\ over' = over + (IF a > reserved[c] THEN a - reserved[c] ELSE 0)
    /\ reserved' = [reserved EXCEPT ![c] = 0]

\* An error: nothing is accounted for, whatever the provider charged.
ReleaseBudget(c, a) ==
    /\ billed' = billed + a
    /\ reserved' = [reserved EXCEPT ![c] = 0]
    /\ UNCHANGED <<spent, recorded, over>>

-----------------------------------------------------------------------------
(* A call.                                                                 *)

\* Reserve the route's cost and hand the request to the provider.
Send(c, r, attempt) ==
    /\ reserved' = [reserved EXCEPT ![c] = cost[r]]
    /\ call' = [call EXCEPT ![c] = [pc |-> "waiting", route |-> r, attempt |-> attempt]]
    /\ UNCHANGED <<spent, recorded, billed, over>>

\* The first route of the chain, from the given one on, that the budget allows.
TryRoutes(c, from) ==
    \/ \E r \in from..Routes :
          /\ Fits(c, r)
          /\ \A q \in from..(r - 1) : ~Fits(c, q)
          /\ Send(c, r, 1)
    \/ /\ \A r \in from..Routes : ~Fits(c, r)
       /\ Moved(c, "budget")
       /\ UNCHANGED budgetVars

Invoke(c) ==
    /\ call[c].pc = "idle"
    /\ TryRoutes(c, 1)

\* After the backoff the route reserves again; when the budget has gone the
\* chain goes on to the next route.
Retry(c) ==
    /\ call[c].pc = "backoff"
    /\ IF Fits(c, call[c].route)
         THEN Send(c, call[c].route, call[c].attempt + 1)
         ELSE TryRoutes(c, call[c].route + 1)

\* A bounded number of attempts on a route; the next one waits for a backoff.
AgainOr(c, failure) ==
    Moved(c, IF call[c].attempt < MaxAttempts THEN "backoff" ELSE failure)

\* A complete answer is settled and recorded, then validated.
Answer(c, a, valid) ==
    /\ call[c].pc = "waiting"
    /\ Settle(c, a)
    /\ IF Overspends(c, a)
         THEN Moved(c, "budget") /\ UNCHANGED recorded
         ELSE /\ recorded' = recorded + a
              /\ IF valid THEN Moved(c, "done") ELSE AgainOr(c, "failed")

\* An answer cut off at max_output_tokens is charged, and not retried.
IncompleteAnswer(c, a) ==
    /\ call[c].pc = "waiting"
    /\ Settle(c, a)
    /\ recorded' = recorded + a
    /\ Moved(c, IF Overspends(c, a) THEN "budget" ELSE "failed")

\* A transport failure, a retryable status or a body without output text: the
\* provider may have charged it.
RetryableFailure(c, a) ==
    /\ call[c].pc = "waiting"
    /\ ReleaseBudget(c, a)
    /\ AgainOr(c, "failed")

\* A refusal, a failed response or a request the provider turned down; or any other
\* exception of the client, such as a broken protocol, which is passed on as it is.
FinalFailure(c, a, failure) ==
    /\ call[c].pc = "waiting"
    /\ ReleaseBudget(c, a)
    /\ Moved(c, failure)

Charges(c, by) == IF call[c].pc = "waiting" THEN by[call[c].route] ELSE {}

Provider(c) ==
    \/ \E a \in Charges(c, actual) : IncompleteAnswer(c, a) \/ \E valid \in BOOLEAN : Answer(c, a, valid)
    \/ \E a \in Charges(c, failed) :
          RetryableFailure(c, a) \/ \E failure \in {"failed", "other"} : FinalFailure(c, a, failure)

Ended(c) == call[c].pc \in {"done"} \cup Failures

-----------------------------------------------------------------------------
(* Properties.                                                             *)

GatewayTypeOK ==
    /\ spent \in Nat /\ recorded \in Nat /\ billed \in Nat /\ over \in Nat
    /\ reserved \in [Calls -> Amounts]
    /\ call \in [Calls -> Call]

\* However the calls interleave, retry, fall back and fail, what is spent and
\* what is held never exceed the limit by more than the providers charged
\* beyond the reservations (budget.py "Thread-safe in-memory hard budget
\* ledger").
BudgetHeld == spent + Total(reserved) <= HardLimit + over

\* Only a request under way holds a reservation: every way out of a call gives
\* it back.
NothingLeaks ==
    \A c \in Calls : reserved[c] # 0 => call[c].pc = "waiting" /\ reserved[c] = cost[call[c].route]

\* Until a provider breaks the limit, the usage records that the evaluation
\* adds up account for every amount the ledger has spent.
SpendRecorded == spent <= HardLimit => recorded = spent

\* The ledger holds what is under way and has spent what is recorded.
LedgerAgrees == NothingLeaks /\ SpendRecorded

\* docs/07, section 18: once the ceiling is reached, no new spending.  The
\* ledger only counts the answers it was told the usage of.
NoSpendPastLimit ==
    [][\A c \in Calls :
          call'[c].pc = "waiting" /\ call[c].pc # "waiting" => billed < HardLimit]_gatewayVars
=============================================================================

----------------------------- MODULE PublicClient -----------------------------
(* The HTTP client of public market data (market/exchange/transport.py),      *)
(* shared by coroutines that call it at once: every request waits its turn to *)
(* be sent, is tried again a bounded number of times and backs off in between.*)
(*                                                                            *)
(* Time is what is left of a wait and what has passed since the last request, *)
(* both bounded, so that the client runs for ever in a finite model.          *)
EXTENDS Optional, Integers, Sequences, SequencesExt

CONSTANTS
  Callers,      \* coroutines that may call get_json
  MaxAttempts, Interval, BaseBackoff, MaxBackoff,  \* of RetryPolicy
  RetryAfters   \* what a Retry-After header may say, or None

\* Interval 0 means no pacing at all.  A Retry-After is never negative.
ASSUME ClientAssumption ==
  /\ MaxAttempts \in Nat \ {0} /\ Interval \in Nat \ {0}
  /\ BaseBackoff \in Nat /\ MaxBackoff \in Nat /\ BaseBackoff <= MaxBackoff
  /\ RetryAfters \subseteq Nat
\* Doubled as often as attempts allow, a wait is a number still.
ASSUME DoublingAssumption == \A n \in 1 .. MaxAttempts : 2^(n - 1) \in Nat

VARIABLES
  caller,   \* caller -> where its call is, which attempt, and how long it still sleeps
  waiters,  \* who waits for the pacing lock, in order of arrival
  since,    \* time since _last_started_at
  quiet,    \* history: time since a request last left
  shortest  \* history: the shortest time between two requests so far

clientVars == <<caller, waiters, since, quiet, shortest>>

Least(a, b) == IF a < b THEN a ELSE b

NoCall == [at |-> "idle", attempt |-> 0, wait |-> 0]

ClientInit ==
  /\ caller = [c \in Callers |-> NoCall]
  /\ waiters = <<>> /\ since = Interval /\ quiet = Interval /\ shortest = Interval

\* The pacing lock is kept while its holder sleeps.
Held == \E c \in Callers : caller[c].at = "pacing"

Sends(c, n) ==
  /\ caller' = [caller EXCEPT ![c] = [at |-> "sent", attempt |-> n, wait |-> 0]]
  /\ since' = 0 /\ quiet' = 0 /\ shortest' = Least(shortest, quiet)

\* With the lock: sleep what is left of the interval, or send at once.
Granted(c, n) ==
  IF since < Interval
  THEN /\ caller' = [caller EXCEPT ![c] = [at |-> "pacing", attempt |-> n, wait |-> Interval - since]]
       /\ UNCHANGED <<since, quiet, shortest>>
  ELSE Sends(c, n)

\* An asyncio lock is given in the order in which it was asked for.
Paces(c, n) ==
  IF waiters = <<>> /\ ~Held
  THEN Granted(c, n) /\ UNCHANGED waiters
  ELSE /\ caller' = [caller EXCEPT ![c] = [at |-> "queued", attempt |-> n, wait |-> 0]]
       /\ waiters' = Append(waiters, c)
       /\ UNCHANGED <<since, quiet, shortest>>

Begin(c) == caller[c].at = "idle" /\ Paces(c, 1)

LockTurn(c) ==
  /\ ~Held /\ waiters # <<>> /\ Head(waiters) = c
  /\ waiters' = Tail(waiters)
  /\ Granted(c, caller[c].attempt)

Paced(c) ==
  /\ caller[c].at = "pacing" /\ caller[c].wait = 0
  /\ Sends(c, caller[c].attempt)
  /\ UNCHANGED waiters

Leaves(c) ==
  /\ caller' = [caller EXCEPT ![c] = NoCall]
  /\ UNCHANGED <<since, quiet, shortest>>

\* A success is returned; any status that no retry can help, and any exception that is
\* neither the network's nor the decoder's, is raised.
Answered(c) == caller[c].at = "sent" /\ Leaves(c) /\ UNCHANGED waiters

Backoff(n, header) ==
  Least(IF header # None THEN header ELSE BaseBackoff * 2^(n - 1), MaxBackoff)

\* The network failed, the body was not JSON (no header), the exchange asked to slow
\* down or had an error of its own (perhaps with a Retry-After).
Retryable(c, header) ==
  /\ caller[c].at = "sent" /\ UNCHANGED waiters
  /\ IF caller[c].attempt = MaxAttempts
     THEN Leaves(c)
     ELSE /\ caller' = [caller EXCEPT ![c] = [at |-> "backoff", attempt |-> caller[c].attempt,
                                              wait |-> Backoff(caller[c].attempt, header)]]
          /\ UNCHANGED <<since, quiet, shortest>>

TriesAgain(c) ==
  /\ caller[c].at = "backoff" /\ caller[c].wait = 0
  /\ Paces(c, caller[c].attempt + 1)

\* A coroutine cancelled at any await gives the lock, or its place in the line, back.
Cancelled(c) ==
  /\ caller[c].at # "idle"
  /\ Leaves(c)
  /\ waiters' = RemoveFirst(waiters, c)

TimePasses ==
  /\ caller' = [c \in Callers |-> [caller[c] EXCEPT !.wait = IF @ > 0 THEN @ - 1 ELSE 0]]
  /\ since' = Least(since + 1, Interval) /\ quiet' = Least(quiet + 1, Interval)
  /\ UNCHANGED <<waiters, shortest>>

\* What the event loop, the network and its timeouts bring about.
CallGoes(c) ==
  \/ LockTurn(c) \/ Paced(c) \/ TriesAgain(c)
  \/ Answered(c) \/ \E header \in RetryAfters \cup {None} : Retryable(c, header)

ClientNext ==
  \/ \E c \in Callers : Begin(c) \/ CallGoes(c) \/ Cancelled(c)
  \/ TimePasses

ClientSpec == ClientInit /\ [][ClientNext]_clientVars

---------------------------------------------------------------------------
ClientTypeOK ==
  /\ caller \in [Callers -> [at : {"idle", "queued", "pacing", "sent", "backoff"},
                             attempt : 0 .. MaxAttempts, wait : Nat]]
  /\ {since, quiet, shortest} \subseteq 0 .. Interval
  /\ ToSet(waiters) = {c \in Callers : caller[c].at = "queued"} /\ IsInjective(waiters)

\* Whoever calls, retries or is cancelled, no two requests leave within the interval
\* the exchange is promised.
RequestsApart == shortest = Interval
=============================================================================

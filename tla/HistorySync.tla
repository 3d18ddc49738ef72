----------------------------- MODULE HistorySync -----------------------------
(* scripts/market_data/sync_binance_btc_usdc_h1_v2.py: a stored history of     *)
(* hourly candles is compared with the exchange over its last bars, repaired   *)
(* when only its end differs, extended, and written out as three files.        *)
(* Any run may die anywhere; the next may start from the file it left.         *)
(* A candle is the time up to which it was observed and its revision: the      *)
(* exchange's candle of a bar changes until the bar closes.                    *)
EXTENDS Optional, Integers, FiniteSets, FiniteSetsExt, Sequences

CONSTANTS
  Overlap,        \* bars compared with the exchange (24 in the code)
  PageSize,       \* candles of one answer (1000 in the code)
  ClockErrors,    \* how far ahead of the exchange a clock may be, in half bars; below zero, behind
  FirstLengths,   \* bars of the history the user starts from
  ShortestPlan,   \* bars below which no campaign plan is built (180 in the code)
  EndOfSync       \* the bound of time, in half bars

ASSUME SyncAssumption ==
  /\ Overlap \in Nat \ {0} /\ PageSize \in Nat \ {0} /\ EndOfSync \in Nat
  /\ ClockErrors \subseteq Int
  /\ FirstLengths \subseteq Nat \ {0} /\ \A n \in FirstLengths : 2 * n <= EndOfSync
  /\ None \notin Nat

VARIABLES
  hour,       \* the exchange's clock, in half bars
  revised,    \* a bar the exchange revised after its close, or None
  archive,    \* the history the user started from
  synced,     \* the files: consolidated, minimal, plan
  sync,       \* the running script
  astray      \* the histories that a run whose clock was over a bar ahead had a hand in

syncVars == <<hour, revised, archive, synced, sync, astray>>

---------------------------------------------------------------------------
(* Candles: a history maps bars to what was observed of them.              *)

Closes(b) == 2 * (b + 1)
Listed(t) == {b \in 0 .. EndOfSync : 2 * b < t}
Observed(b, t) == [until |-> Min({t, Closes(b)}), revision |-> IF b = revised THEN 1 ELSE 0]
Final(b, c) == c.until = Closes(b)

\* The bar that is open at t, of which the last closed is the one before.
BarAt(t) == t \div 2

\* parse_and_validate raises on an empty history and on a gap.
Valid(rows) == rows # <<>> /\ DOMAIN rows = Min(DOMAIN rows) .. Max(DOMAIN rows)
LastBar(rows) == Max(DOMAIN rows)
Until(rows, n) == [b \in {x \in DOMAIN rows : Cardinality({y \in DOMAIN rows : y <= x}) <= n} |-> rows[b]]

---------------------------------------------------------------------------
(* What a run makes of the history and of what it fetched.                 *)

Compared(rows) == {b \in DOMAIN rows : b > LastBar(rows) - Overlap}

Differing(rows, fetched) == {b \in Compared(rows) : rows[b] # fetched[b]}

\* The two ways repair_trailing_overlap gives up: the exchange lacks a compared bar,
\* or the bars that differ are not the last ones.
LacksOverlap(rows, fetched) == ~(Compared(rows) \subseteq DOMAIN fetched)
DiffersInside(rows, fetched) ==
  LET differing == Differing(rows, fetched) IN
  differing # {} /\ \E b \in Compared(rows) : b > Min(differing) /\ b \notin differing

Repaired(rows, fetched) ==
  [b \in DOMAIN rows |-> IF b \in Differing(rows, fetched) THEN fetched[b] ELSE rows[b]]

Appended(rows, fetched) ==
  [b \in DOMAIN rows \cup DOMAIN fetched |-> IF b \in DOMAIN rows THEN rows[b] ELSE fetched[b]]

Refused(rows, fetched) ==
  /\ fetched # <<>>
  /\ LacksOverlap(rows, fetched) \/ DiffersInside(rows, fetched)

Combined(rows, fetched) ==
  IF fetched = <<>> THEN rows ELSE Appended(Repaired(rows, fetched), fetched)

---------------------------------------------------------------------------
Resting == [step |-> "rest", rows |-> <<>>, clock |-> 0, since |-> 0, fetched |-> <<>>, exact |-> FALSE]

\* The user's history ends with a candle that may have been captured before its close.
SyncInit ==
  /\ \E n \in FirstLengths :
       /\ hour \in {2 * n - 1, 2 * n}
       /\ archive = [b \in 0 .. n - 1 |-> [until |-> Min({hour, Closes(b)}), revision |-> 0]]
  /\ revised = None
  /\ synced = [consolidated |-> <<>>, minimal |-> <<>>, plan |-> None]
  /\ sync = Resting
  /\ astray = {}

\* The histories there are, by the file that holds them; `run` is the one in memory.
Stored ==
  [archive |-> archive, consolidated |-> synced.consolidated, minimal |-> synced.minimal, run |-> sync.rows]

\* What one history is made of another passes on.
Passed(from, to) == IF from \in astray THEN astray \cup {to} ELSE astray \ {to}

\* main opens the user's file or the one an earlier run consolidated.  Offline
\* nothing is fetched.
OpenSource(file, offline) ==
  /\ sync.step \in {"rest", "done"}
  /\ Valid(Stored[file])
  /\ sync' = [Resting EXCEPT !.step = IF offline THEN "write" ELSE "clock", !.rows = Stored[file]]
  /\ astray' = Passed(file, "run")
  /\ UNCHANGED <<hour, revised, archive, synced>>

\* fetch_time, or the local clock when it fails, whatever it says.
ReadClock(ahead) ==
  /\ sync.step = "clock"
  /\ sync' = [sync EXCEPT !.step = "fetch", !.clock = hour + ahead, !.exact = ahead = 0,
                          !.since = Max({0, LastBar(sync.rows) - (Overlap - 1)})]
  /\ astray' = IF ahead > 2 THEN astray \cup {"run"} ELSE astray
  /\ UNCHANGED <<hour, revised, archive, synced>>

ClosedBy(b, clock) == b < BarAt(clock)

LastClosed == BarAt(sync.clock) - 1
Batch == {b \in Listed(hour) : b >= sync.since /\ b < sync.since + PageSize}

\* One page of fetch_ohlcv; the exchange's clock may have moved since.
FetchPage ==
  /\ sync.step = "fetch"
  /\ sync.since <= LastClosed
  /\ Batch # {}
  /\ LET kept == {b \in Batch : ClosedBy(b, sync.clock)} IN
     sync' = [sync EXCEPT
       !.fetched = [b \in DOMAIN @ \cup kept |-> IF b \in kept THEN Observed(b, hour) ELSE @[b]],
       !.since = Max(Batch) + 1,
       !.step = IF Max(Batch) >= LastClosed THEN "build" ELSE "fetch"]
  /\ UNCHANGED <<hour, revised, archive, synced, astray>>

NoMorePages ==
  /\ sync.step = "fetch"
  /\ sync.since > LastClosed \/ Batch = {}
  /\ sync' = [sync EXCEPT !.step = "build"]
  /\ UNCHANGED <<hour, revised, archive, synced, astray>>

\* Repair, append and validate; an error ends the run before anything is written.
Build ==
  /\ sync.step = "build"
  /\ sync' = IF Refused(sync.rows, sync.fetched) \/ ~Valid(Combined(sync.rows, sync.fetched))
             THEN Resting
             ELSE [sync EXCEPT !.step = "write", !.rows = Combined(@, sync.fetched)]
  /\ UNCHANGED <<hour, revised, archive, synced, astray>>

WriteConsolidated ==
  /\ sync.step = "write"
  /\ synced' = [synced EXCEPT !.consolidated = sync.rows]
  /\ sync' = [sync EXCEPT !.step = "minimal"]
  /\ astray' = Passed("run", "consolidated")
  /\ UNCHANGED <<hour, revised, archive>>

WriteMinimal ==
  /\ sync.step = "minimal"
  /\ synced' = [synced EXCEPT !.minimal = sync.rows]
  /\ sync' = [sync EXCEPT !.step = "plan"]
  /\ astray' = Passed("run", "minimal")
  /\ UNCHANGED <<hour, revised, archive>>

\* The plan records the digest of the minimal file; a short history has none, after
\* both files were written.
WritePlan ==
  /\ sync.step = "plan"
  /\ synced' = IF Cardinality(DOMAIN sync.rows) < ShortestPlan THEN synced
               ELSE [synced EXCEPT !.plan = synced.minimal]
  /\ sync' = [sync EXCEPT !.step = "done"]
  /\ UNCHANGED <<hour, revised, archive, astray>>

\* The exchange fails a call, or the process dies; a file being written keeps the
\* rows already flushed.
Dies ==
  /\ sync.step \notin {"rest", "done"}
  /\ \E n \in 0 .. Cardinality(DOMAIN sync.rows) :
       synced' = CASE sync.step = "write" -> [synced EXCEPT !.consolidated = Until(sync.rows, n)]
                   [] sync.step = "minimal" -> [synced EXCEPT !.minimal = Until(sync.rows, n)]
                   [] OTHER -> synced
  /\ astray' = CASE sync.step = "write" -> Passed("run", "consolidated")
                 [] sync.step = "minimal" -> Passed("run", "minimal")
                 [] OTHER -> astray
  /\ sync' = Resting
  /\ UNCHANGED <<hour, revised, archive>>

HourPasses ==
  /\ hour < EndOfSync
  /\ hour' = hour + 1
  /\ UNCHANGED <<revised, archive, synced, sync, astray>>

Revise(b) ==
  /\ revised = None
  /\ Closes(b) <= hour
  /\ revised' = b
  /\ UNCHANGED <<hour, archive, synced, sync, astray>>

SyncNext ==
  \/ \E file \in {"archive", "consolidated"}, offline \in BOOLEAN : OpenSource(file, offline)
  \/ \E ahead \in ClockErrors : ReadClock(ahead)
  \/ FetchPage \/ NoMorePages \/ Build
  \/ WriteConsolidated \/ WriteMinimal \/ WritePlan
  \/ Dies \/ HourPasses
  \/ \E b \in Listed(hour) : Revise(b)

SyncSpec == SyncInit /\ [][SyncNext]_syncVars

---------------------------------------------------------------------------
(* Properties.                                                             *)

SyncTypeOK ==
  /\ hour \in 0 .. EndOfSync
  /\ revised \in Listed(hour) \cup {None}
  /\ sync.step \in {"rest", "clock", "fetch", "build", "write", "minimal", "plan", "done"}
  /\ astray \subseteq DOMAIN Stored \ {"archive"}
  /\ \A h \in DOMAIN Stored : Stored[h] # <<>> =>
       /\ DOMAIN Stored[h] \subseteq Listed(EndOfSync)
       /\ \A b \in DOMAIN Stored[h] : Stored[h][b].until \in 1 .. Closes(b)

\* Wherever runs died and whichever file the next one began with, a stored history has
\* no hole.  As long as no run that had a hand in it read a clock more than a bar ahead
\* of the exchange's, only its last candle can be one that was captured before its
\* close.  (With such a clock a page may end with an open candle and the next go on
\* after it.)
OnlyLastProvisional ==
  \A h \in DOMAIN Stored : LET rows == Stored[h] IN rows # <<>> =>
    /\ Valid(rows)
    /\ h \notin astray => \A b \in DOMAIN rows \ {LastBar(rows)} : Final(b, rows[b])

\* A run that read the exchange's clock and had an answer leaves a history up to the last
\* candle that had closed then, and of closed candles only, those the history already
\* held included unless it had gone astray before.
CompletedRunIsFinal ==
  sync.step = "done" /\ sync.exact /\ sync.fetched # <<>> =>
    /\ synced.minimal = synced.consolidated
    /\ LastBar(synced.minimal) = LastClosed
    /\ "run" \notin astray => \A b \in DOMAIN synced.minimal : Final(b, synced.minimal[b])

=============================================================================

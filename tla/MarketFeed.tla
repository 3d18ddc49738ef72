------------------------------ MODULE MarketFeed ------------------------------
(* From the exchange to an opportunity: the snapshot of one symbol            *)
(* (market/exchange/kraken.py, market/snapshot.py), what derivatives say of   *)
(* it (kraken_futures.py) and the cache the orchestration reads that from     *)
(* (services/orchestration/rio_contexts.py), put together by the feed         *)
(* (market/exchange/feed.py).  Builds overlap: every answer of the exchange   *)
(* is awaited.  How it is asked is PublicClient's subject.                    *)
EXTENDS Optional, Integers, Sequences, FiniteSets, FiniteSetsExt

CONSTANTS
  Builds,         \* coroutines that build an input, over and over
  Analytics,      \* how many analytics are asked for: open interest, ratio, funding
  frames,         \* the timeframes of a snapshot, as durations
  MetadataMaxAge, MaxAge, MaxSkew,                      \* KrakenAdapterConfig, FreshnessPolicy
  MaxMetricAge, MaxContextAge, MinRefreshInterval,      \* of the derivatives and their cache
  Lags,           \* how long before its receipt an answer was true
  EndOfFeed       \* bound on the clock

ASSUME FeedAssumption ==
  /\ {Analytics, MetadataMaxAge, MaxAge, MaxSkew, MaxMetricAge, MaxContextAge, MinRefreshInterval} \subseteq Nat
  /\ frames \in Seq(Nat) /\ frames # <<>>
  /\ Lags \subseteq Int /\ EndOfFeed \in Nat
  /\ None \notin Int \cup [observed : Int, oldest : Int]

VARIABLES
  clock,
  metadata,  \* the symbol's cached metadata: when it was received, whether it trades
  snapshot,  \* the cached positioning: its observed_at, and that of its oldest metric
  attempt,   \* _last_refresh_attempt_at
  build      \* build -> where it is and what it has read

feedVars == <<clock, metadata, snapshot, attempt, build>>

AtRest == {"idle", "consulted"}

NoBuild == [at |-> "idle", price |-> None, closes |-> <<>>, began |-> None,
          fetch |-> None, refresh |-> None, context |-> None]

FeedInit ==
  /\ clock = 0
  /\ metadata = None /\ snapshot = None /\ attempt = None
  /\ build = [b \in Builds |-> NoBuild]

Reaches(b, place) == build' = [build EXCEPT ![b].at = place]

\* An exception, or nothing worth a decision: nobody is fed.
GivesUp(b) == build' = [build EXCEPT ![b] = NoBuild]

---------------------------------------------------------------------------
(* The snapshot of the spot market.                                        *)

CachedMetadata ==
  IF /\ metadata # None
     /\ metadata.received - clock <= MaxSkew
     /\ clock - metadata.received <= MetadataMaxAge
  THEN metadata ELSE None

\* What the risk engine is given of the symbol: nothing unless it trades.
Constrained == CachedMetadata # None /\ CachedMetadata.online

\* _ensure_metadata, and the status that refuses the symbol before anything is asked.
StartBuild(b) ==
  /\ build[b].at \in AtRest
  /\ build' = [build EXCEPT ![b] = [NoBuild EXCEPT
       !.at = CASE CachedMetadata = None -> "pairs"
                [] Constrained -> "trade"
                [] OTHER -> "idle"]]
  /\ UNCHANGED <<clock, metadata, snapshot, attempt>>

PairsAnswered(b, online) ==
  /\ build[b].at = "pairs"
  /\ metadata' = [received |-> clock, online |-> online]
  /\ IF online THEN Reaches(b, "trade") ELSE GivesUp(b)
  /\ UNCHANGED <<clock, snapshot, attempt>>

\* The last trade is the price and the time of the snapshot.
TradeAnswered(b, time) ==
  /\ build[b].at = "trade"
  /\ IF clock < time
     THEN GivesUp(b)
     ELSE build' = [build EXCEPT ![b].at = "candles", ![b].price = time]
  /\ UNCHANGED <<clock, metadata, snapshot, attempt>>

\* _validate_current_ohlc: the last candle is the one under way when the answer came.
CurrentAt(open, close, received) ==
  /\ open - received <= MaxSkew
  /\ received - close <= MaxSkew

\* create_market_snapshot, when the last timeframe has come.
Sound(price) == price - clock <= MaxSkew /\ clock - price <= MaxAge

\* The candles of the next timeframe; after the last, features and scanner at once.
CandlesAnswered(b, open, found) ==
  LET close == open + frames[Len(build[b].closes) + 1]
      closes == Append(build[b].closes, close)
  IN /\ build[b].at = "candles"
     /\ LET last == Len(closes) = Len(frames)
        IN IF CurrentAt(open, close, clock) /\ (last => Sound(build[b].price) /\ found)
           THEN build' = [build EXCEPT ![b].closes = closes,
                                       ![b].at = IF last THEN "sidecar" ELSE "candles"]
           ELSE GivesUp(b)
     /\ UNCHANGED <<clock, metadata, snapshot, attempt>>

\* Attempts exhausted, an error of the exchange, a payload or a series that is not valid.
SpotFails(b) ==
  /\ build[b].at \in {"pairs", "trade", "candles"}
  /\ GivesUp(b)
  /\ UNCHANGED <<clock, metadata, snapshot, attempt>>

---------------------------------------------------------------------------
(* The derivatives: asked for after an opportunity was found, and told to  *)
(* the specialist only through the cache.                                  *)

\* _context_for: not observed after the decision, nor too long before.
ContextFor(s, time) ==
  IF s # None /\ s.observed <= time /\ time - s.observed <= MaxContextAge THEN s ELSE None

\* The time of the market data is the time of the decision.
Decision(b) == build[b].price

InCache(b) == IF ContextFor(snapshot, Decision(b)) # None THEN "CACHED" ELSE "UNAVAILABLE"

CoolingDown == attempt # None /\ clock >= attempt /\ clock - attempt < MinRefreshInterval

\* What a fetch of the analytics has so far: the answers still awaited, the times of the
\* points that can be used and the last receipt of one, and what else went wrong.
Fetching(b) ==
  build' = [build EXCEPT ![b].at = "metrics", ![b].closes = <<>>, ![b].began = clock,
                         ![b].fetch = [awaited |-> Analytics, times |-> {}, received |-> clock, strange |-> {}]]

\* refresh_for_market up to its await: one attempt per interval, noted before it is made.
\* Variant: overlapping builds all attempt.
RefreshAlways(b) ==
  /\ build[b].at = "sidecar"
  /\ Fetching(b) /\ attempt' = clock
  /\ UNCHANGED <<clock, metadata, snapshot>>

Refresh(b) ==
  /\ build[b].at = "sidecar"
  /\ IF CoolingDown
     THEN /\ build' = [build EXCEPT ![b].at = "ready", ![b].closes = <<>>, ![b].refresh = InCache(b)]
          /\ UNCHANGED attempt
     ELSE Fetching(b) /\ attempt' = clock
  /\ UNCHANGED <<clock, metadata, snapshot>>

Awaits(b) == build[b].at = "metrics" /\ build[b].fetch.awaited > 0

Unusual(b, what) ==
  LET fetch == build[b].fetch
  IN build' = [build EXCEPT ![b].fetch = [fetch EXCEPT !.awaited = @ - 1, !.strange = @ \cup what]]

\* The last point of an answer: dated after its receipt, or after the beginning, it is
\* unsafe; too old, it is missing.
AnalyticsAnswered(b, time) ==
  /\ Awaits(b)
  /\ LET fetch == build[b].fetch
     IN CASE time - clock > MaxSkew \/ time - build[b].began > MaxSkew -> Unusual(b, {"unsafe"})
          [] time < build[b].began - MaxMetricAge -> Unusual(b, {})
          [] OTHER -> build' = [build EXCEPT ![b].fetch =
                                 [fetch EXCEPT !.awaited = @ - 1, !.times = @ \cup {time}, !.received = clock]]
  /\ UNCHANGED <<clock, metadata, snapshot, attempt>>

\* An error of the exchange leaves its metrics missing; an exception no adapter expects
\* fails the sidecar, and only the sidecar.
AnalyticsFails(b, what) ==
  /\ Awaits(b)
  /\ Unusual(b, what)
  /\ UNCHANGED <<clock, metadata, snapshot, attempt>>

\* update: an older snapshot does not replace a newer one.
Newer(s) == IF snapshot # None /\ s.observed < snapshot.observed THEN snapshot ELSE s

Refreshed(b, status) ==
  build' = [build EXCEPT ![b].at = "ready", ![b].refresh = status, ![b].began = None, ![b].fetch = None]

\* get_positioning_snapshot and refresh_for_market after the gather: unsafe, nothing
\* usable or a clock out of order falls back to the cache.
Assemble(b) ==
  LET fetch == build[b].fetch
      usable == fetch.times # {} /\ Max(fetch.times) <= fetch.received
  IN /\ build[b].at = "metrics" /\ fetch.awaited = 0
     /\ \/ "broken" \in fetch.strange /\ Refreshed(b, "FAILED") /\ UNCHANGED snapshot
        \/ fetch.strange = {"unsafe"} /\ Refreshed(b, InCache(b)) /\ UNCHANGED snapshot
        \/ fetch.strange = {} /\ ~usable /\ Refreshed(b, InCache(b)) /\ UNCHANGED snapshot
        \/ /\ fetch.strange = {} /\ usable
           /\ snapshot' = Newer([observed |-> Max(fetch.times), oldest |-> Min(fetch.times)])
           /\ Refreshed(b, IF ContextFor(snapshot', Decision(b)) # None THEN "REFRESHED" ELSE "UNAVAILABLE")
     /\ UNCHANGED <<clock, metadata, attempt>>

\* contexts_for, when the orchestration of the opportunity begins.
Consult(b) ==
  /\ build[b].at = "ready"
  /\ build' = [build EXCEPT ![b].at = "consulted", ![b].context = ContextFor(snapshot, Decision(b))]
  /\ UNCHANGED <<clock, metadata, snapshot, attempt>>

---------------------------------------------------------------------------
TimeGoesBy ==
  /\ clock < EndOfFeed
  /\ clock' = clock + 1
  /\ UNCHANGED <<metadata, snapshot, attempt, build>>

\* An answer tells of a moment before its receipt, or of one the exchange's clock puts
\* after it.
Told == {clock - lag : lag \in Lags}

Proceeds(b) ==
  \/ \E online \in BOOLEAN : PairsAnswered(b, online)
  \/ \E time \in Told : TradeAnswered(b, time)
  \/ \E open \in Told, found \in BOOLEAN : CandlesAnswered(b, open, found)
  \/ SpotFails(b)
  \/ Refresh(b)
  \/ \E time \in Told : AnalyticsAnswered(b, time)
  \/ \E what \in {{}, {"broken"}} : AnalyticsFails(b, what)
  \/ Assemble(b)
  \/ Consult(b)

FeedNext == TimeGoesBy \/ \E b \in Builds : StartBuild(b) \/ Proceeds(b)

FeedSpec == FeedInit /\ [][FeedNext]_feedVars

---------------------------------------------------------------------------
(* Properties.                                                             *)

FeedTypeOK ==
  /\ clock \in 0 .. EndOfFeed
  /\ metadata = None \/ metadata.received \in 0 .. clock
  /\ snapshot = None \/ snapshot.oldest <= snapshot.observed
  /\ attempt = None \/ attempt \in 0 .. clock
  /\ \A b \in Builds : build[b].at \in AtRest \cup {"pairs", "trade", "candles", "sidecar", "metrics", "ready"}

\* The price of a snapshot is never of a time after the candles it comes with, which
\* were asked for one after the other: no decision has a price its candles ignore.
PriceWithinCandles ==
  \A b \in Builds : \A i \in 1 .. Len(build[b].closes) : build[b].price <= build[b].closes[i] + MaxSkew

\* However late it is consulted and whoever refreshed it, no metric told to a specialist
\* is of a time after the decision, and none is older than the three tolerances together.
MetricsOfTheirTime ==
  \A b \in Builds : build[b].context # None =>
    /\ build[b].context.observed <= Decision(b)
    /\ Decision(b) - build[b].context.oldest <= MaxContextAge + MaxMetricAge + MaxSkew

\* A specialist the feed announced is missing only because another build has cached what
\* is too recent for this decision.
AnnouncedOrOvertaken ==
  \A b \in Builds :
    build[b].at = "consulted" /\ build[b].refresh \in {"REFRESHED", "CACHED"} /\ build[b].context = None
      => snapshot.observed > Decision(b)

\* Overlapping builds do not ask for the derivatives within the interval.
RefreshesApart ==
  \A a, b \in Builds :
    a # b /\ build[a].at = "metrics" /\ build[b].at = "metrics" /\ build[a].began <= build[b].began
      => build[b].began - build[a].began >= MinRefreshInterval
=============================================================================

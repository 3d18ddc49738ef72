------------------------------ MODULE MarketData ------------------------------
(* What decisions are told of the market: candles asked for through one paced  *)
(* client, put together with the derivatives, kept as a history, resampled to   *)
(* larger timeframes, and read as swings and patterns.  The parts share no      *)
(* variable.                                                                    *)
EXTENDS PatternLifecycle, MultiTimeframe, HistorySync, PublicClient, MarketFeed

\* A stored history has no hole; if no run that made it had a clock more than a bar ahead,
\* only its last candle can have been captured before its close, and a run that ended
\* well leaves none that was (HistorySync); every candle of
\* a larger timeframe is a whole bucket of the source, and none is seen before it has
\* closed (MultiTimeframe).
CandlesHold ==
  /\ SyncTypeOK /\ OnlyLastProvisional /\ CompletedRunIsFinal
  /\ MtfTypeOK /\ BucketsWhole /\ NoLookAhead

\* Requests leave apart whoever asks (PublicClient); what a decision is fed of the spot
\* market and of derivatives belongs to its time, whichever build fetched it (MarketFeed).
FeedHolds ==
  /\ ClientTypeOK /\ RequestsApart
  /\ FeedTypeOK /\ PriceWithinCandles /\ RefreshesApart
  /\ MetricsOfTheirTime /\ AnnouncedOrOvertaken

=============================================================================

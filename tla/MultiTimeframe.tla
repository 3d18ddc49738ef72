--------------------------- MODULE MultiTimeframe ---------------------------
(***************************************************************************)
(* Higher timeframes built from closed source candles                       *)
(* (market/multitimeframe.py): in one go from a visible prefix              *)
(* (resample_closed_candles), and candle by candle in a replay              *)
(* (HistoricalMultiTimeframeCursor).                                        *)
(*                                                                          *)
(* Time is counted in source candles; a timeframe is the number of source   *)
(* candles it spans, aligned on multiples of itself.  Fingerprints are left *)
(* out: they are functions of what is compared here.                        *)
(***************************************************************************)
EXTENDS Integers, Sequences, SequencesExt, FiniteSetsExt

CONSTANTS
  Timeframes,   \* the target timeframes
  Shapes,       \* the prices a source candle may have: open, high, low, close
  Starts,       \* when the source may begin
  MaxSource     \* bound: source candles

ASSUME TimeframesAssumption ==
  /\ Timeframes \subseteq Nat \ {0} /\ Starts \subseteq Nat /\ MaxSource \in Nat
  /\ Shapes \subseteq [open : Nat, high : Nat, low : Nat, close : Nat]

VARIABLES
  source,    \* the source candles the cursor has accepted
  pending,   \* of each timeframe, the source candles of its open bucket
  series,    \* of each timeframe, the candles emitted
  emitted    \* the timeframes the last push emitted, or "REFUSED"

mtfVars == <<source, pending, series, emitted>>

\* A source candle of the given shape; one that lasts one unit is well formed.
SourceCandle(shape, start, lasts, closed) ==
  [open |-> shape.open, high |-> shape.high, low |-> shape.low, close |-> shape.close,
   volume |-> 1, start |-> start, end |-> start + lasts, closed |-> closed]
Offered(starts) ==
  {SourceCandle(shape, start, lasts, closed) :
     shape \in Shapes, start \in starts, lasts \in {1, 2}, closed \in BOOLEAN}

MtfInit ==
  /\ source = <<>>
  /\ pending = [tf \in Timeframes |-> <<>>]
  /\ series = [tf \in Timeframes |-> <<>>]
  /\ emitted = {}

---------------------------------------------------------------------------
(* In one go.                                                              *)

WellFormed(c) == c.closed /\ c.end - c.start = 1
Contiguous(candles) ==
  \A i \in 1 .. Len(candles) - 1 : candles[i + 1].start = candles[i].start + 1

\* _validate_source
ValidSource(candles) == Contiguous(candles) /\ \A i \in DOMAIN candles : WellFormed(candles[i])

\* _visible_source: what had closed by then, up to the first that had not; what
\* comes after is not looked at.  Variant: what had opened by then.
VisibleOnceOpen(candles, asOf) ==
  LET later == {i \in DOMAIN candles : candles[i].start > asOf}
  IN  IF later = {} THEN candles ELSE SubSeq(candles, 1, Min(later) - 1)
Visible(candles, asOf) ==
  LET later == {i \in DOMAIN candles : candles[i].end > asOf}
  IN  IF later = {} THEN candles ELSE SubSeq(candles, 1, Min(later) - 1)

Bucket(t, tf) == (t \div tf) * tf

\* _aggregate_bucket
Aggregate(bucket, start, tf) ==
  [open |-> Head(bucket).open, high |-> Max({bucket[i].high : i \in DOMAIN bucket}),
   low |-> Min({bucket[i].low : i \in DOMAIN bucket}), close |-> Last(bucket).close,
   volume |-> FoldLeft(LAMBDA total, c : total + c.volume, 0, bucket),
   start |-> start, end |-> start + tf, closed |-> TRUE]

Whole(bucket, start, tf) ==
  Len(bucket) = tf /\ Head(bucket).start = start /\ Last(bucket).end = start + tf

\* What falls in one bucket of a prefix without gaps: a run of its candles.
Grouped(prefix, start, tf) ==
  LET at == {i \in DOMAIN prefix : Bucket(prefix[i].start, tf) = start}
  IN  SubSeq(prefix, Min(at), Max(at))

\* resample_closed_candles, of a valid visible prefix; the buckets that its ends
\* cut through are dropped.
Resample(candles, tf, asOf) ==
  LET prefix == Visible(candles, asOf)
      starts == {Bucket(prefix[i].start, tf) : i \in DOMAIN prefix}
      group(start) == Grouped(prefix, start, tf)
      whole == {start \in starts : Whole(group(start), start, tf)}
  IN  [i \in 1 .. Cardinality(whole) |->
         LET start == CHOOSE s \in whole : Cardinality({w \in whole : w < s}) = i - 1
         IN  Aggregate(group(start), start, tf)]

\* build_historical_mtf_slice
Slice(candles, asOf) ==
  LET valid == ValidSource(Visible(candles, asOf))
  IN  [refused |-> ~valid,
       series |-> [tf \in Timeframes |-> IF valid THEN Resample(candles, tf, asOf) ELSE <<>>]]

---------------------------------------------------------------------------
(* Candle by candle.                                                       *)

\* The candle that the last one leads to.
Follows(c) == source = <<>> \/ c.start = Last(source).end

\* The open bucket once c has come: a new one when c begins another.
OpenBucket(tf, c) ==
  IF pending[tf] # <<>> /\ Bucket(Head(pending[tf]).start, tf) = Bucket(c.start, tf)
  THEN Append(pending[tf], c) ELSE <<c>>

\* Does c close the bucket, and is the bucket whole?
Emits(bucket, c, tf) ==
  /\ c.end = Bucket(c.start, tf) + tf
  /\ Whole(bucket, Bucket(c.start, tf), tf)

\* push
Push(c) ==
  IF WellFormed(c) /\ Follows(c)
  THEN LET now == {tf \in Timeframes : Emits(OpenBucket(tf, c), c, tf)}
       IN  /\ source' = Append(source, c)
           /\ emitted' = now
           /\ series' = [tf \in Timeframes |->
                IF tf \in now
                THEN Append(series[tf], Aggregate(OpenBucket(tf, c), Bucket(c.start, tf), tf))
                ELSE series[tf]]
           /\ pending' = [tf \in Timeframes |->
                IF c.end = Bucket(c.start, tf) + tf THEN <<>> ELSE OpenBucket(tf, c)]
  ELSE /\ emitted' = {0}   \* raises
       /\ UNCHANGED <<source, pending, series>>

\* The next candle in time, or one that repeats or skips another.
MtfNext ==
  /\ Len(source) < MaxSource
  /\ LET starts == IF source = <<>> THEN Starts ELSE {Last(source).start, Last(source).end, Last(source).end + 1}
     IN  \E c \in Offered(starts) : Push(c)

MtfSpec == MtfInit /\ [][MtfNext]_mtfVars

---------------------------------------------------------------------------
(* Properties.                                                             *)

AsOf == Last(source).end

MtfTypeOK ==
  /\ ValidSource(source)
  /\ emitted \subseteq Timeframes \cup {0}
  /\ \A tf \in Timeframes : Len(pending[tf]) < tf

\* What a timeframe is: every aligned stretch that the source covers from its
\* first candle to its last, and nothing else, in order.
Stretches(tf) ==
  {start \in {Bucket(source[i].start, tf) : i \in DOMAIN source} :
     Head(source).start <= start /\ start + tf <= AsOf}
Covers(c, start, tf) ==
  LET within == {i \in DOMAIN source : start <= source[i].start /\ source[i].end <= start + tf}
  IN  /\ c.start = start /\ c.end = start + tf /\ c.volume = Cardinality(within)
      /\ c.open = source[Min(within)].open /\ c.close = source[Max(within)].close
      /\ \A i \in within : c.low <= source[i].low /\ source[i].high <= c.high
      /\ \E i \in within : c.low = source[i].low
      /\ \E i \in within : c.high = source[i].high

\* A candle of a higher timeframe is emitted at the close of its last source
\* candle and stands for exactly its stretch: none is cut short by where the
\* source begins, none is late, none is missing.
BucketsWhole ==
  source # <<>> => \A tf \in Timeframes :
    /\ {series[tf][i].start : i \in DOMAIN series[tf]} = Stretches(tf)
    /\ \A i \in DOMAIN series[tf] :
         /\ Covers(series[tf][i], series[tf][i].start, tf)
         /\ i > 1 => series[tf][i - 1].start < series[tf][i].start

\* The two ways agree at every moment, whatever candle is still to come, well formed
\* or not: the future neither changes nor refuses what was visible.
NoLookAhead ==
  source # <<>> =>
    LET known == [refused |-> FALSE, series |-> series]
    IN  /\ Slice(source, AsOf) = known
        /\ \A c \in Offered({AsOf, AsOf + 1}) : Slice(Append(source, c), AsOf) = known

=============================================================================

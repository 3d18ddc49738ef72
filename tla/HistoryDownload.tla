--------------------------- MODULE HistoryDownload ---------------------------
(* scripts/market_data/download_binance_history.py: a period of history is     *)
(* assembled from the exchange's public archives, monthly or daily, over a     *)
(* cache on disk, and written as a native file, a resampled one and a          *)
(* manifest.  Runs fail or die anywhere and are started again; archives and    *)
(* their checksums are published late.                                         *)
EXTENDS Optional, Integers, FiniteSets, FiniteSetsExt, Sequences, SequencesExt

CONSTANTS
  LastDay,        \* days are 1 .. LastDay
  monthOf,        \* the month of a day
  BarsPerDay,     \* candles of one day in the native files
  BucketBars,     \* native candles of one resampled candle
  Periods,        \* the periods a user asks for, as pairs of days
  Lacking,        \* sets of bars the exchange may have no candle of
  Twice,          \* bars whose row its files may hold twice, and whether the rows agree
  DownloadRuns    \* the bound on the runs of the script

Days == 1 .. LastDay
Months == {monthOf[d] : d \in Days}
DaysOf(m) == {d \in Days : monthOf[d] = m}
Archives == [kind : {"daily"}, days : {{d} : d \in Days}] \cup [kind : {"monthly"}, days : {DaysOf(m) : m \in Months}]
Daily(d) == [kind |-> "daily", days |-> {d}]
Monthly(m) == [kind |-> "monthly", days |-> DaysOf(m)]

VARIABLES
  lacking,      \* bars the exchange has no candle of
  twice,        \* bars its files have two rows of
  published,    \* archives one can download
  digests,      \* those of them whose checksum is published
  cache,        \* the archives on disk: "whole", "damaged" or None
  output,       \* the files written for each period
  download,     \* the running script
  started       \* how many were started

exchange == <<lacking, twice>>
downloadVars == <<exchange, published, digests, cache, output, download, started>>

Bars(days) == {BarsPerDay * (d - 1) + i : d \in days, i \in 0 .. BarsPerDay - 1}
BarsIn(archive) == Bars(archive.days) \ lacking

---------------------------------------------------------------------------
(* plan_archives: the months the period covers as a whole, the days of the   *)
(* others, in order.                                                         *)

InPeriod(p) == {d \in Days : p.first <= d /\ d <= p.last}

Whole(m, p) == DaysOf(m) \subseteq InPeriod(p)

\* The order of the names, which is that of the days.
Chronological(archives) == SetToSortSeq(archives, LAMBDA a, b : Min(a.days) < Min(b.days))

Planned(p) ==
  Chronological({Monthly(m) : m \in {x \in Months : Whole(x, p)}}
                  \cup {Daily(d) : d \in {x \in InPeriod(p) : ~Whole(monthOf[x], p)}})

---------------------------------------------------------------------------
Idle == [step |-> "idle", period |-> None, queue |-> <<>>, got |-> <<>>]
NoFiles == [native |-> <<>>, derived |-> <<>>, manifest |-> None]

DownloadInit ==
  /\ lacking \in Lacking /\ twice \in Twice
  /\ published \in {{Daily(d) : d \in Days}, Archives \ {Daily(LastDay)}}
  /\ digests \in {published, {}}
  /\ cache = [a \in Archives |-> None]
  /\ output = [p \in Periods |-> NoFiles]
  /\ download = Idle
  /\ started = 0

Start(p) ==
  /\ download.step \in {"idle", "complete"}
  /\ started < DownloadRuns
  /\ started' = started + 1
  /\ download' = [Idle EXCEPT !.step = "archives", !.period = p, !.queue = Planned(p)]
  /\ UNCHANGED <<exchange, published, digests, cache, output>>

---------------------------------------------------------------------------
(* download_archive, for the first archive of the queue.                   *)

Wanted == Head(download.queue)
Verified == Wanted \in digests
Got(a, rest) ==
  download' = [download EXCEPT !.got = Append(@, a), !.queue = rest,
                               !.step = IF rest = <<>> THEN "native" ELSE "archives"]

Usable == cache[Wanted] # None /\ (Verified => cache[Wanted] = "whole")

UseCached ==
  /\ download.step = "archives"
  /\ Usable
  /\ Got(Wanted, Tail(download.queue))
  /\ UNCHANGED <<exchange, published, digests, cache, output, started>>

\* The payload is written beside its name, verified when there is a checksum, and
\* renamed: a damaged one only gets its name when nothing contradicts it.
Renamed(payload) == IF payload = "damaged" /\ Verified THEN None ELSE payload

Fetch(payload) ==
  /\ download.step = "archives"
  /\ ~Usable
  /\ Wanted \in published
  /\ cache' = [cache EXCEPT ![Wanted] = Renamed(payload)]
  /\ IF payload = "damaged" /\ Verified
     THEN download' = Idle
     ELSE Got(Wanted, Tail(download.queue))
  /\ UNCHANGED <<exchange, published, digests, output, started>>

\* 404: the days of a month are asked for instead; a missing day ends the run.  A
\* cached file that failed its checksum is gone by then.

Unpublished ==
  /\ download.step = "archives"
  /\ ~Usable
  /\ Wanted \notin published
  /\ cache' = [cache EXCEPT ![Wanted] = None]
  /\ download' = IF Wanted.kind = "daily" THEN Idle
                 ELSE [download EXCEPT !.queue =
                         Chronological({Daily(d) : d \in Wanted.days}) \o Tail(@)]
  /\ UNCHANGED <<exchange, published, digests, output, started>>

---------------------------------------------------------------------------
(* The files.  The histories are written beside their names and renamed.   *)

\* write_native_csv: the rows of the archives, in the order of their names, within
\* the period.  A second row of a candle is skipped; a damaged archive cannot be read,
\* a row that goes back or that contradicts the one before ends the run.
Rows(bar) == IF bar \in twice.bars THEN <<bar, bar>> ELSE <<bar>>
RowsOf(archives, p) ==
  FlattenSeq([i \in DOMAIN archives |->
    LET bars == SetToSortSeq(BarsIn(archives[i]) \cap Bars(InPeriod(p)), LAMBDA x, y : x < y)
    IN  FlattenSeq([j \in DOMAIN bars |-> Rows(bars[j])])])
Once(rows) ==
  FoldLeft(LAMBDA out, row : IF out # <<>> /\ Last(out) = row THEN out ELSE Append(out, row), <<>>, rows)
Contradicted(rows) == ~twice.agree /\ ToSet(rows) \cap twice.bars # {}
ByName(archives) == SortSeq(archives, LAMBDA a, b : Min(a.days) < Min(b.days))
Unreadable == \E i \in DOMAIN download.got : cache[download.got[i]] # "whole"
Backwards(rows) == \E i \in 2 .. Len(rows) : rows[i] < rows[i - 1]

WriteNative ==
  /\ download.step = "native"
  /\ LET rows == RowsOf(ByName(download.got), download.period) IN
     IF Unreadable \/ Backwards(rows) \/ Contradicted(rows)
     THEN /\ download' = Idle
          /\ UNCHANGED output
     ELSE /\ output' = [output EXCEPT ![download.period].native = Once(rows)]
          /\ download' = [download EXCEPT !.step = "derived"]
  /\ UNCHANGED <<exchange, published, digests, cache, started>>

\* derive_from_1m streams the native rows, and emits a bucket when the next begins,
\* if it has every candle of it.  Variant: if it has any.
EmitsAny(bucket, items) == <<bucket>>
Emits(bucket, items) ==
  IF items = [i \in 1 .. BucketBars |-> bucket * BucketBars + i - 1] THEN <<bucket>> ELSE <<>>

BucketOf(bar) == bar \div BucketBars
Streamed ==
  FoldLeft(LAMBDA s, bar :
             IF s.items # <<>> /\ BucketOf(bar) # BucketOf(Head(s.items))
             THEN [out |-> s.out \o Emits(BucketOf(Head(s.items)), s.items), items |-> <<bar>>]
             ELSE [s EXCEPT !.items = Append(@, bar)],
           [out |-> <<>>, items |-> <<>>], output[download.period].native)

WriteDerived ==
  /\ download.step = "derived"
  /\ output' = [output EXCEPT ![download.period].derived =
       LET s == Streamed IN IF s.items = <<>> THEN s.out ELSE s.out \o Emits(BucketOf(Head(s.items)), s.items)]
  /\ download' = [download EXCEPT !.step = "manifest"]
  /\ UNCHANGED <<exchange, published, digests, cache, started>>

\* The manifest is the last file; its warnings are the gaps between rows.  A torn
\* manifest cannot be read and counts as none.
GapCount(rows) == Cardinality({i \in 2 .. Len(rows) : rows[i] # rows[i - 1] + 1})

WriteManifest ==
  /\ download.step = "manifest"
  /\ LET rows == output[download.period].native IN
     output' = [output EXCEPT ![download.period].manifest = [rows |-> Len(rows), gaps |-> GapCount(rows)]]
  /\ download' = [download EXCEPT !.step = "complete"]
  /\ UNCHANGED <<exchange, published, digests, cache, started>>

---------------------------------------------------------------------------
\* A request that failed too often, an interruption, the end of the process: the
\* cache and the files written so far stay.
Stops ==
  /\ download.step \notin {"idle", "complete"}
  /\ download' = Idle
  /\ UNCHANGED <<exchange, published, digests, cache, output, started>>

Publishes(a) ==
  /\ a \in Archives \ digests
  /\ published' = published \cup {a}
  /\ digests' = digests \cup {a}
  /\ UNCHANGED <<exchange, cache, output, download, started>>

DownloadNext ==
  \/ \E p \in Periods : Start(p)
  \/ UseCached \/ Unpublished
  \/ \E payload \in {"whole", "damaged"} : Fetch(payload)
  \/ WriteNative \/ WriteDerived \/ WriteManifest
  \/ Stops
  \/ \E a \in Archives : Publishes(a)

DownloadSpec == DownloadInit /\ [][DownloadNext]_downloadVars

---------------------------------------------------------------------------
(* Properties.                                                             *)

DownloadTypeOK ==
  /\ published \subseteq Archives /\ digests \subseteq published
  /\ cache \in [Archives -> {None, "whole", "damaged"}]
  /\ download.step \in {"idle", "archives", "native", "derived", "manifest", "complete"}
  /\ download.period \in Periods \cup {None}
  /\ ToSet(download.queue) \cup ToSet(download.got) \subseteq Archives
  /\ \A p \in Periods : ToSet(output[p].native) \subseteq Bars(Days)

\* A manifest describes files that hold every candle the exchange has of the period,
\* in order and once, and every larger candle whose parts are all there and no other:
\* however often runs died, whichever archives were cached, damaged or published late.
ManifestTellsTheTruth ==
  \A p \in {x \in Periods : output[x].manifest # None} :
    LET bars == Bars(InPeriod(p)) \ lacking
        files == output[p]
    IN
    /\ ToSet(files.native) = bars /\ Len(files.native) = Cardinality(bars)
    /\ files.manifest.rows = Len(files.native)
    /\ \A i \in 2 .. Len(files.native) : files.native[i] > files.native[i - 1]
    /\ ToSet(files.derived)
         = {k \in {BucketOf(b) : b \in bars} : {k * BucketBars + i : i \in 0 .. BucketBars - 1} \subseteq bars}

=============================================================================

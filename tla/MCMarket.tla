------------------------------- MODULE MCMarket -------------------------------
(* Market data, in one run: a history downloaded from archives, one kept in   *)
(* step with the exchange, the candles of larger timeframes, the swings and   *)
(* patterns read from candles, the HTTP client of public data and the feed    *)
(* that asks through it.  They share no variable; `focus` is the one that     *)
(* moves.                                                                     *)
EXTENDS MarketData, TLC

CONSTANTS
  LastDay, monthOf, BarsPerDay, BucketBars, Periods, Lacking, Twice, DownloadRuns    \* of HistoryDownload

VARIABLES
  focus,
  lacking, twice, published, digests, cache, output, download, started               \* of HistoryDownload

Download == INSTANCE HistoryDownload

downloads == <<lacking, twice, published, digests, cache, output, download, started>>

Begins ==
  /\ focus \in {"archives", "sync", "candles", "swings", "calls", "feed"}
  /\ Download!DownloadInit /\ SyncInit /\ MtfInit /\ ZigInit
  /\ ClientInit /\ FeedInit
  \* One start of each part that stands still.
  /\ focus # "archives" => lacking = {}
  /\ focus # "archives" \/ lacking # {} => twice.bars = {}
  /\ focus # "archives" => digests # {} /\ Cardinality(published) = LastDay
  /\ focus # "sync" => hour = 2 * Min(FirstLengths)

Goes ==
  \/ /\ focus = "archives" /\ Download!DownloadNext
     /\ UNCHANGED <<focus, syncVars, mtfVars, zigVars, clientVars, feedVars>>
  \/ /\ focus = "sync" /\ SyncNext
     /\ UNCHANGED <<focus, downloads, mtfVars, zigVars, clientVars, feedVars>>
  \/ /\ focus = "candles" /\ MtfNext
     /\ UNCHANGED <<focus, downloads, syncVars, zigVars, clientVars, feedVars>>
  \/ /\ focus = "swings" /\ ZigNext
     /\ UNCHANGED <<focus, downloads, syncVars, mtfVars, clientVars, feedVars>>
  \/ /\ focus = "calls" /\ ClientNext
     /\ UNCHANGED <<focus, downloads, syncVars, mtfVars, zigVars, feedVars>>
  \/ /\ focus = "feed" /\ FeedNext
     /\ UNCHANGED <<focus, downloads, syncVars, mtfVars, zigVars, clientVars>>

MarketSpec == Begins /\ [][Goes]_<<focus, downloads, syncVars, mtfVars, zigVars, clientVars, feedVars>>

---------------------------------------------------------------------------
(* Properties: those of the parts, which say what they are about.          *)

\* A manifest describes files that hold exactly what the exchange has of the period,
\* whatever died, was cached, damaged or published late (HistoryDownload).
HistoriesHold == Download!DownloadTypeOK /\ Download!ManifestTellsTheTruth

---------------------------------------------------------------------------
\* Two months of two days, of two candles each.
MCMonths == <<1, 1, 2, 2>>
MCPeriods == {[first |-> 2, last |-> 4], [first |-> 1, last |-> 3]}
\* Answers as old as anything tolerates, of the moment, or of the exchange's own future.
MCLags == {-2, -1, 0, 2}
\* A clock that is behind, right, half a bar ahead, or two bars.
MCClockErrors == {-2, 0, 1, 4}
MCFrames == <<2, 3>>
MCLacking == {{}, {4}}
\* A candle in the middle of both periods twice, with equal rows or not.
MCTwice == {[bars |-> {}, agree |-> TRUE]} \cup [bars : {{4}}, agree : BOOLEAN]

MCShapes == {[open |-> 2, high |-> 3, low |-> 1, close |-> 2], [open |-> 3, high |-> 4, low |-> 3, close |-> 4]}

\* Candles whose range is one: a high and a low in turn, wide ones that are both, and a
\* last few that break out, fall through or stay inside.
Of(low, high, close, atr) == [low |-> low, high |-> high, close |-> close, atr |-> atr]
Ups == {Of(5, 6, 6, 1), Of(6, 8, 7, 1)}
Downs == {Of(1, 2, 1, 1), Of(2, 3, 2, 1)}
Wide == {Of(1, 6, 3, 1)}
Out == {Of(8, 9, 9, 1), Of(0, 1, 0, 1)}
Within == {Of(3, 5, 4, 1)}
MCCandles ==
  <<{Of(1, 2, 1, None), Of(1, 2, 1, 1)}, Ups \cup Wide, Downs \cup Wide, Ups, Downs,
    Ups \cup Wide, Downs, Out \cup Within, Out, Out \cup Within>>

\* Three pivots about level are a double, five with a head between shoulders a head and
\* shoulders, six between lines that do not cross a range or a triangle.
Shape(type, family, direction) == [type |-> type, family |-> family, direction |-> direction]
ReversalOf(kind) == IF kind = "HIGH" THEN "BEARISH" ELSE "BULLISH"
Head3(w) == IF w[1].kind = "HIGH" THEN w[3].price > Max({w[1].price, w[5].price})
                                  ELSE w[3].price < Min({w[1].price, w[5].price})
Flat(line) == line.rise = 0
Converges(upper, lower) == upper.rise * lower.run < lower.rise * upper.run
MCRecognised(w) ==
  CASE Len(w) = 3 /\ w[1].price - w[3].price \in -1 .. 1 -> Shape(<<"DOUBLE", w[1].kind>>, "REVERSAL", ReversalOf(w[1].kind))
    [] Len(w) = 5 /\ Head3(w) -> Shape(<<"SHOULDERS", w[1].kind>>, "REVERSAL", ReversalOf(w[1].kind))
    [] Len(w) = 6 /\ ~Crossed(Upper(w), Lower(w), Ends(w)) /\ Flat(Upper(w)) /\ Flat(Lower(w)) ->
         Shape(<<"RANGE">>, "RANGE", "NEUTRAL")
    [] Len(w) = 6 /\ ~Crossed(Upper(w), Lower(w), Ends(w)) /\ Converges(Upper(w), Lower(w)) ->
         Shape(<<"TRIANGLE">>, "CONSOLIDATION", "NEUTRAL")
    [] OTHER -> None
=============================================================================

------------------------------- MODULE ZigZag --------------------------------
(* app/analytics/zigzag/engine.py: the swings of a series of closed candles.   *)
(* A pivot is known only when a later candle has moved away from it by a       *)
(* multiple of the range (ATR) it was made with; a candle does not tell        *)
(* whether its high or its low came first.                                     *)
EXTENDS Optional, Integers, Sequences, FiniteSets, SequencesExt

CONSTANTS
  candlesAt,  \* for each place of the series, the candles it may have:
              \* [low, high, close, atr], atr may be None
  Multiple    \* of the range at the extreme, for a reversal

\* The candles of a series: low to high, with or without a range.
Candle == [low : Nat, high : Nat, close : Nat, atr : Nat \cup {None}]

ASSUME SeriesAssumption ==
  /\ \A i \in DOMAIN candlesAt : candlesAt[i] \subseteq {bar \in Candle : bar.low <= bar.high}
  /\ candlesAt \in Seq(SUBSET Candle) /\ Multiple \in Nat \ {0}
  /\ None \notin Nat \cup [kind : {"HIGH", "LOW"}, index : Nat, price : Nat, atr : Nat]

VARIABLES
  bars,       \* the closed candles so far
  zig         \* what the loop of compute holds after them

zigVars == <<bars, zig>>

---------------------------------------------------------------------------
(* A candidate is an extreme that no candle has moved away from yet.       *)

Candidate(kind, i, bar) ==
  [kind |-> kind, index |-> i, price |-> IF kind = "HIGH" THEN bar.high ELSE bar.low, atr |-> bar.atr]

Beyond(kind, bar, price) == IF kind = "HIGH" THEN bar.high > price ELSE bar.low < price

\* The candle is as far from the candidate, on the other side, as a reversal asks.
Reverses(c, bar) ==
  IF c.kind = "HIGH" THEN bar.low <= c.price - Multiple * c.atr
                     ELSE bar.high >= c.price + Multiple * c.atr

Opposite(kind) == IF kind = "HIGH" THEN "LOW" ELSE "HIGH"

Pivot(c, i) == [kind |-> c.kind, index |-> c.index, price |-> c.price, atr |-> c.atr, confirmed |-> i]

\* The candidate becomes a pivot and the candle that reversed starts the next one.
Confirmed(z, c, i, bar) ==
  [z EXCEPT !.pivots = Append(@, Pivot(c, i)), !.candidate = Candidate(Opposite(c.kind), i, bar)]

---------------------------------------------------------------------------
NoSwing == [high |-> None, low |-> None, candidate |-> None, pivots |-> <<>>]

\* The first candle with a range is both candidates.
FirstReady(z, i, bar) ==
  [z EXCEPT !.high = Candidate("HIGH", i, bar), !.low = Candidate("LOW", i, bar)]

\* Before the first pivot: both extremes are followed, a candle that reverses both is
\* ambiguous, and one that makes the extreme does not confirm it.
Undirected(z, i, bar) ==
  LET newHigh == Beyond("HIGH", bar, z.high.price)
      newLow == Beyond("LOW", bar, z.low.price)
      high == IF newHigh THEN Candidate("HIGH", i, bar) ELSE z.high
      low == IF newLow THEN Candidate("LOW", i, bar) ELSE z.low
      followed == [z EXCEPT !.high = high, !.low = low]
      rises == Reverses(low, bar)
      falls == Reverses(high, bar)
  IN  CASE rises /\ ~falls /\ ~newLow -> Confirmed(followed, low, i, bar)
        [] falls /\ ~rises /\ ~newHigh -> Confirmed(followed, high, i, bar)
        [] OTHER -> followed

\* After it: a fresh extreme moves the candidate and never confirms on its own candle.
\* Variant: it may.
DirectedOnSameBar(z, i, bar) ==
  LET c == IF Beyond(z.candidate.kind, bar, z.candidate.price)
           THEN Candidate(z.candidate.kind, i, bar) ELSE z.candidate
  IN  IF Reverses(c, bar) THEN Confirmed(z, c, i, bar) ELSE [z EXCEPT !.candidate = c]
Directed(z, i, bar) ==
  LET c == z.candidate IN
  CASE Beyond(c.kind, bar, c.price) -> [z EXCEPT !.candidate = Candidate(c.kind, i, bar)]
    [] ~Beyond(c.kind, bar, c.price) /\ Reverses(c, bar) -> Confirmed(z, c, i, bar)
    [] OTHER -> z

\* One turn of the loop; a candle without a range is passed over.
Turn(z, i, bar) ==
  CASE bar.atr = None -> z
    [] bar.atr # None /\ z.high = None -> FirstReady(z, i, bar)
    [] bar.atr # None /\ z.high # None /\ z.candidate = None -> Undirected(z, i, bar)
    [] OTHER -> Directed(z, i, bar)

ZigInit == bars = <<>> /\ zig = NoSwing

CandleCloses(bar) ==
  /\ Len(bars) < Len(candlesAt)
  /\ bar \in candlesAt[Len(bars) + 1]
  \* The range is missing during its warm-up only.
  /\ bar.atr = None => \A i \in DOMAIN bars : bars[i].atr = None
  /\ bars' = Append(bars, bar)
  /\ zig' = Turn(zig, Len(bars) + 1, bar)

ZigNext == \E bar \in UNION ToSet(candlesAt) : CandleCloses(bar)

ZigSpec == ZigInit /\ [][ZigNext]_zigVars

---------------------------------------------------------------------------
(* Properties.                                                             *)

Pivots == zig.pivots

ZigTypeOK ==
  /\ Len(bars) <= Len(candlesAt)
  /\ zig.high = None => zig.low = None /\ zig.candidate = None /\ Pivots = <<>>
  /\ \A i \in DOMAIN Pivots : Pivots[i].index \in DOMAIN bars /\ Pivots[i].confirmed \in DOMAIN bars

\* Highs and lows alternate, each is known only after its candle, and each is beyond
\* the one before by the reversal it was confirmed with.
SwingsAlternate ==
  \A i \in DOMAIN Pivots :
    /\ Pivots[i].index < Pivots[i].confirmed
    /\ i > 1 =>
         /\ Pivots[i].kind # Pivots[i - 1].kind
         /\ Pivots[i].index >= Pivots[i - 1].confirmed
         /\ IF Pivots[i].kind = "LOW"
            THEN Pivots[i].price <= Pivots[i - 1].price - Multiple * Pivots[i - 1].atr
            ELSE Pivots[i].price >= Pivots[i - 1].price + Multiple * Pivots[i - 1].atr

\* From the second leg on a pivot is the extreme of its side, from the candle after the
\* pivot before it to the one that confirms it.
PivotIsTheExtreme ==
  \A i \in DOMAIN Pivots : i > 2 =>
    \A x \in Pivots[i - 1].index + 1 .. Pivots[i].confirmed : ~Beyond(Pivots[i].kind, bars[x], Pivots[i].price)

\* Swings alternate, are known late and are the extremes of their side.
SwingsHold == ZigTypeOK /\ SwingsAlternate /\ PivotIsTheExtreme

=============================================================================

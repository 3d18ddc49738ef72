-------------------------- MODULE PatternLifecycle ---------------------------
(* app/analytics/patterns: chart patterns over the pivots of ZigZag.  At every *)
(* time the whole history is evaluated again: windows of pivots are            *)
(* recognised, and the life of each pattern is replayed over the candles that  *)
(* follow.  What one was told earlier must be what a later evaluation says     *)
(* one was told.                                                               *)
EXTENDS ZigZag, FiniteSetsExt

CONSTANTS
  Recognised(_),   \* what the rules make of a window: [type, family, direction] or None
  Buffer,          \* the distance a close must be beyond a line
  LookaheadMin, LookaheadMax, WatchMin, WatchMax   \* the bounds of the two horizons, in candles

---------------------------------------------------------------------------
(* Lines are fractions, as the code's are real numbers: a line through pivots  *)
(* by least squares is (rise * i + base) / run at candle i.                    *)

Total(f(_), w) == FoldLeft(LAMBDA s, p : s + f(p), 0, w)
Level(price) == [rise |-> 0, base |-> price, run |-> 1]
Through(w) ==
  LET n == Len(w)
      x == Total(LAMBDA p : p.index, w)
      y == Total(LAMBDA p : p.price, w)
      xy == Total(LAMBDA p : p.index * p.price, w)
      run == n * Total(LAMBDA p : p.index * p.index, w) - x * x
      rise == n * xy - x * y
  IN  [rise |-> n * rise, base |-> y * run - rise * x, run |-> n * run]

At(line, i) == line.rise * i + line.base
Above(close, line, i) == close * line.run > At(line, i) + Buffer * line.run
Below(close, line, i) == close * line.run < At(line, i) - Buffer * line.run
Crossed(upper, lower, i) == At(upper, i) * lower.run <= At(lower, i) * upper.run

\* The candle at which two converging lines meet, rounded down.
Apex(upper, lower) ==
  LET gap == upper.base * lower.run - lower.base * upper.run
      closing == lower.rise * upper.run - upper.rise * lower.run
  IN  gap \div closing

OfKind(kind, w) == SelectSeq(w, LAMBDA p : p.kind = kind)

---------------------------------------------------------------------------
(* The lifecycle of the pattern on one window, over the candles of a history.  *)

Detected(w) == Max({w[i].confirmed : i \in DOMAIN w})
Ends(w) == Max({w[i].index : i \in DOMAIN w})
Duration(w) == Ends(w) - Min({w[i].index : i \in DOMAIN w})
Clamp(low, high, x) == Max({low, Min({high, x})})

\* round, to the even neighbour on a tie.
Half(x) == IF x % 2 = 0 THEN x \div 2 ELSE IF ((x - 1) \div 2) % 2 = 0 THEN (x - 1) \div 2 ELSE (x + 1) \div 2
Quarter(x) == CASE x % 4 = 1 -> x \div 4 [] x % 4 = 3 -> x \div 4 + 1 [] x % 4 = 0 -> x \div 4 [] OTHER -> Half(x \div 2)
Lookahead(d) == Clamp(LookaheadMin, LookaheadMax, Half(3 * d))
Watched(d) == Clamp(WatchMin, WatchMax, Quarter(3 * d))

\* A pattern is looked at from the candle after it is known, not from the one after
\* its last pivot.
First(w) == Max({Ends(w) + 1, Detected(w) + 1})

\* What confirms a pattern, in which direction, and what breaks it, at candle i.
Geometry(w) == Len(w) = 6
Upper(w) == Through(OfKind("HIGH", w))
Lower(w) == Through(OfKind("LOW", w))
Neckline(w) == IF Len(w) = 3 THEN Level(w[2].price) ELSE Through(<<w[2], w[4]>>)
\* The level whose loss ends a reversal: its farthest outer pivot, or its head.
Broken(w, bearish) ==
  CASE Len(w) = 5 -> Level(w[3].price)
    [] Len(w) = 3 /\ bearish -> Level(Max({w[1].price, w[3].price}))
    [] OTHER -> Level(Min({w[1].price, w[3].price}))

Verdict(w, close, i) ==
  LET bearish == Recognised(w).direction = "BEARISH" IN
  CASE Geometry(w) /\ Crossed(Upper(w), Lower(w), i) -> "FAILED"
    [] Geometry(w) /\ ~Crossed(Upper(w), Lower(w), i) /\ Above(close, Upper(w), i) -> "BULLISH"
    [] Geometry(w) /\ ~Crossed(Upper(w), Lower(w), i) /\ Below(close, Lower(w), i) -> "BEARISH"
    [] ~Geometry(w) /\ bearish /\ Below(close, Neckline(w), i) -> "BEARISH"
    [] ~Geometry(w) /\ ~bearish /\ Above(close, Neckline(w), i) -> "BULLISH"
    [] ~Geometry(w) /\ bearish /\ ~Below(close, Neckline(w), i) /\ Above(close, Broken(w, bearish), i) -> "FAILED"
    [] ~Geometry(w) /\ ~bearish /\ ~Above(close, Neckline(w), i) /\ Below(close, Broken(w, bearish), i) -> "FAILED"
    [] OTHER -> "FORMING"

\* A converging structure does not outlive the meeting of its lines.
Deadline(w) ==
  LET last == Ends(w) + 1 + Lookahead(Duration(w)) IN
  IF Geometry(w) /\ Recognised(w).family = "CONSOLIDATION"
  THEN Min({last, Max({Ends(w) + 2, Apex(Upper(w), Lower(w)) + 1})})
  ELSE last

\* After its confirmation a pattern is watched for a return into the structure.
Reenters(w, direction, close, i) ==
  LET line == IF Geometry(w) THEN IF direction = "BULLISH" THEN Upper(w) ELSE Lower(w) ELSE Neckline(w) IN
  IF direction = "BULLISH" THEN Below(close, line, i) ELSE Above(close, line, i)

Event(status, at, direction) == [status |-> status, at |-> at, direction |-> direction]

\* Candles are numbered from 1 here and from 0 in the code.
Outcome(w, history) ==
  LET n == Len(history)
      decided == {i \in First(w) .. Min({n, Deadline(w) - 1}) : Verdict(w, history[i].close, i) # "FORMING"}
      i == Min(decided)
      verdict == Verdict(w, history[i].close, i)
  IN  CASE decided # {} /\ verdict = "FAILED" -> <<Event("FAILED", i, None)>>
        [] decided # {} /\ verdict # "FAILED" -> <<Event("CONFIRMED", i, verdict)>>
        [] decided = {} /\ n >= Deadline(w) - 1 -> <<Event("FAILED", Max({Deadline(w) - 1, Detected(w)}), None)>>
        [] OTHER -> <<>>

Aftermath(w, history, confirmed) ==
  LET last == Min({Len(history), confirmed.at + Watched(Duration(w))})
      back == {i \in confirmed.at + 1 .. last : Reenters(w, confirmed.direction, history[i].close, i)}
  IN  IF back = {} THEN <<>> ELSE <<Event("INVALIDATED", Min(back), None)>>

Transitions(w, history) ==
  LET outcome == Outcome(w, history) IN
  <<Event("FORMING", Detected(w), None)>> \o outcome
    \o (IF outcome # <<>> /\ Head(outcome).status = "CONFIRMED"
        THEN Aftermath(w, history, Head(outcome)) ELSE <<>>)

---------------------------------------------------------------------------
(* pattern_evaluations_at.                                                 *)

\* The windows of three, five and six pivots that end with each, as far as they are
\* recognised.
Candidates(pivots) ==
  SelectSeq(FlattenSeq([i \in DOMAIN pivots |->
                          [k \in 1 .. 3 |-> LET n == <<3, 5, 6>>[k] IN
                                           IF i >= n THEN SubSeq(pivots, i - n + 1, i) ELSE <<>>]]),
            LAMBDA w : w # <<>> /\ Recognised(w) # None)

\* _suppress_duplicates: in the order of detection, a pattern of a type is dropped that
\* shares pivots with, or covers the time of, one of that type already kept.
SharedEnough(w, v) ==
  Cardinality({w[i].index : i \in DOMAIN w} \cap {v[i].index : i \in DOMAIN v}) >= (IF Len(w) >= 6 THEN 4 ELSE 2)
Spans(w) == Detected(w) - w[1].index
Common(w, v) == Max({0, Min({Detected(w), Detected(v)}) - Max({w[1].index, v[1].index})})
Duplicate(w, v) ==
  /\ Recognised(w).type = Recognised(v).type
  /\ SharedEnough(w, v) \/ 100 * Common(w, v) >= 72 * Min({Spans(w), Spans(v)})

\* Variant: the last one detected comes first.
LastDetected(windows) == SortSeq(windows, LAMBDA a, b : Detected(a) > Detected(b))
FirstDetected(windows) == SortSeq(windows, LAMBDA a, b : Detected(a) < Detected(b))
Kept(windows) ==
  FoldLeft(LAMBDA kept, w : IF \E v \in kept : Duplicate(w, v) THEN kept ELSE kept \cup {w},
           {}, FirstDetected(windows))

Patterns(history, pivots) ==
  {[window |-> w, transitions |-> Transitions(w, history)] :
     w \in Kept(Candidates(SelectSeq(pivots, LAMBDA p : p.confirmed <= Len(history))))}

\* occurrence_at: what is visible of a pattern at a time; a pattern that is not a
\* reversal has no direction before its confirmation.
ProjectedAt(patterns, t) ==
  {LET seen == SelectSeq(p.transitions, LAMBDA e : e.at <= t)
       confirmed == {i \in DOMAIN seen : seen[i].status = "CONFIRMED"}
   IN  [window |-> p.window, transitions |-> seen,
        direction |-> CASE Recognised(p.window).family = "REVERSAL" -> Recognised(p.window).direction
                        [] Recognised(p.window).family # "REVERSAL" /\ confirmed # {} -> seen[Min(confirmed)].direction
                        [] OTHER -> "NEUTRAL"] :
     p \in {q \in patterns : Head(q.transitions).at <= t}}

---------------------------------------------------------------------------
(* Properties.                                                             *)

\* A lifecycle begins when its last pivot is known; what follows comes later, or with
\* it when the deadline had passed by then; and it goes one way.
LifecycleInOrder(patterns, n) ==
  \A p \in patterns :
    /\ p.transitions[1].status = "FORMING"
    /\ \A i \in 2 .. Len(p.transitions) :
         /\ p.transitions[i].at >= p.transitions[i - 1].at
         /\ p.transitions[i].at <= n
         /\ p.transitions[i].status = "INVALIDATED" <=> p.transitions[i - 1].status = "CONFIRMED"
         /\ p.transitions[i - 1].status \in {"FORMING", "CONFIRMED"}

\* No repainting: when a candle closes, lifecycles are in order, and what the
\* evaluation of the longer history says was visible at the earlier time is what the
\* evaluation of that time said.
NoRepaint ==
  [][bars' # bars =>
       LET later == Patterns(bars', zig'.pivots) IN
         /\ LifecycleInOrder(later, Len(bars'))
         /\ ProjectedAt(later, Len(bars)) = ProjectedAt(Patterns(bars, Pivots), Len(bars))]_zigVars

=============================================================================

----------------------------- MODULE MarketProofs -----------------------------
(***************************************************************************)
(* What is proved of the market data decisions are told of (MarketData):     *)
(* however many coroutines ask at once, requests leave apart, the price, the *)
(* candles and the derivatives of a decision are of its time; the swings of  *)
(* any series of candles alternate and are extremes; larger timeframes,       *)
(* made candle by candle or in one go, are whole buckets of the source; and   *)
(* a stored history kept in step with the exchange has no hole, and only its  *)
(* last candle may be provisional.                                            *)
(***************************************************************************)
EXTENDS MarketData, SetProofs, SequenceTheorems

---------------------------------------------------------------------------
(* The client.  The line of those who wait for the lock is a sequence       *)
(* without repetitions: what a step does to it is said by its members.      *)

Lines == {s \in Seq(Callers) : IsInjective(s)}

\* Whoever is not in the line yet joins it at its end.
LEMMA LineJoined ==
  ASSUME NEW s \in Lines, NEW c \in Callers, c \notin ToSet(s)
  PROVE  Append(s, c) \in Lines /\ ToSet(Append(s, c)) = ToSet(s) \cup {c}
<1> DEFINE t == Append(s, c)
<1>1. /\ s \in Seq(Callers) /\ t \in Seq(Callers) /\ Len(t) = Len(s) + 1
      /\ DOMAIN s = 1 .. Len(s) /\ DOMAIN t = 1 .. Len(t) /\ Len(s) \in Nat
      /\ \A i \in 1 .. Len(s) : t[i] = s[i]
      /\ t[Len(t)] = c
  BY DEF Lines
<1>2. \A i, j \in 1 .. Len(s) : s[i] = s[j] => i = j
  BY <1>1 DEF Lines, IsInjective
<1>3. \A i \in 1 .. Len(s) : s[i] # c BY <1>1 DEF ToSet
<1> HIDE DEF t
<1>4. IsInjective(t)
  <2> SUFFICES ASSUME NEW i \in 1 .. Len(t), NEW j \in 1 .. Len(t), t[i] = t[j] PROVE i = j
    BY <1>1 DEF IsInjective
  <2>1. CASE i \in 1 .. Len(s) /\ j \in 1 .. Len(s) BY <1>1, <1>2, <2>1
  <2>2. CASE i = Len(t) /\ j = Len(t) BY <2>2
  <2>3. CASE i \in 1 .. Len(s) /\ j = Len(t) BY <1>1, <1>3, <2>3
  <2>4. CASE i = Len(t) /\ j \in 1 .. Len(s) BY <1>1, <1>3, <2>4
  <2> QED BY <1>1, <2>1, <2>2, <2>3, <2>4
<1>5. ToSet(t) = ToSet(s) \cup {c}
  <2>1. \A i \in 1 .. Len(t) : i \in 1 .. Len(s) \/ i = Len(t) BY <1>1
  <2> QED BY <1>1, <2>1 DEF ToSet
<1> QED BY <1>1, <1>4, <1>5 DEF Lines, t

\* Whoever leaves the line, from its head or from within, leaves the others in it.
LEMMA LineLeft ==
  ASSUME NEW s \in Lines, NEW k \in 1 .. Len(s)
  PROVE  RemoveAt(s, k) \in Lines /\ ToSet(RemoveAt(s, k)) = ToSet(s) \ {s[k]}
<1> DEFINE t == RemoveAt(s, k)
           Origin(i) == IF i < k THEN i ELSE i + 1
<1>1. s \in Seq(Callers) /\ Len(s) \in Nat /\ DOMAIN s = 1 .. Len(s) BY DEF Lines
<1> DEFINE before == SubSeq(s, 1, k - 1)
           after == SubSeq(s, k + 1, Len(s))
<1>2. /\ t \in Seq(Callers) /\ Len(t) = Len(s) - 1 /\ DOMAIN t = 1 .. Len(t)
      /\ \A i \in 1 .. Len(t) : t[i] = s[Origin(i)]
  <2>1. \A i \in 1 .. Len(s) : s[i] \in Callers BY <1>1
  <2>2. /\ before \in Seq(Callers) /\ Len(before) = k - 1
        /\ \A i \in 1 .. k - 1 : before[i] = s[i]
    BY <1>1, <2>1, SubSeqProperties
  <2>3. /\ after \in Seq(Callers) /\ Len(after) = Len(s) - k
        /\ \A i \in 1 .. Len(s) - k : after[i] = s[k + i]
    <3>1. k + 1 \in Int /\ Len(s) \in Int /\ \A i \in k + 1 .. Len(s) : s[i] \in Callers
      BY <1>1, <2>1
    <3>2. /\ after \in Seq(Callers)
          /\ Len(after) = IF k + 1 <= Len(s) THEN Len(s) - (k + 1) + 1 ELSE 0
          /\ \A i \in 1 .. Len(s) - (k + 1) + 1 : after[i] = s[k + 1 + i - 1]
      BY <3>1, SubSeqProperties
    <3> HIDE DEF after
    <3>3. \A i \in 1 .. Len(s) - k : k + 1 + i - 1 = k + i BY <1>1
    <3>4. Len(s) - (k + 1) + 1 = Len(s) - k BY <1>1
    <3>5. Len(after) = Len(s) - k
      <4>1. k \in Int /\ k <= Len(s) BY <1>1
      <4>2. CASE k + 1 <= Len(s) BY <3>2, <3>4, <4>2
      <4>3. CASE ~(k + 1 <= Len(s))
        <5>1. Len(after) = 0 BY <3>2, <4>3
        <5>2. k = Len(s)
          <6>1. \A n \in Nat, j \in Int : j <= n /\ ~(j + 1 <= n) => j = n OBVIOUS
          <6>2. Len(s) \in Nat BY <1>1
          <6> QED BY <4>1, <4>3, <6>1, <6>2
        <5>3. Len(s) - k = 0 BY <1>1, <5>2
        <5> QED BY <5>1, <5>3
      <4> QED BY <4>2, <4>3
    <3>6. ASSUME NEW i \in 1 .. Len(s) - k PROVE after[i] = s[k + i]
      <4>1. after[i] = s[k + 1 + i - 1] BY <3>2, <3>4
      <4> QED BY <3>3, <4>1
    <3> QED BY <3>2, <3>5, <3>6
  <2>4. t = before \o after BY DEF RemoveAt
  <2> HIDE DEF before, after, t
  <2>5. /\ t \in Seq(Callers) /\ Len(t) = Len(s) - 1
        /\ \A i \in 1 .. Len(s) - 1 : t[i] = IF i <= k - 1 THEN before[i] ELSE after[i - (k - 1)]
    <3>1. Len(before) + Len(after) = Len(s) - 1 BY <1>1, <2>2, <2>3
    <3>2. /\ before \o after \in Seq(Callers)
          /\ Len(before \o after) = Len(before) + Len(after)
          /\ \A i \in 1 .. Len(before) + Len(after) :
               (before \o after)[i] = IF i <= Len(before) THEN before[i] ELSE after[i - Len(before)]
      BY <2>2, <2>3, ConcatProperties
    <3> QED BY <2>2, <2>4, <3>1, <3>2
  <2>6. ASSUME NEW i \in 1 .. Len(s) - 1 PROVE t[i] = s[Origin(i)]
    <3>1. CASE i < k BY <1>1, <2>2, <2>5, <3>1
    <3>2. CASE ~(i < k)
      <4>1. i - (k - 1) \in 1 .. Len(s) - k /\ k + (i - (k - 1)) = i + 1 BY <1>1, <3>2
      <4> QED BY <1>1, <2>3, <2>5, <3>2, <4>1
    <3> QED BY <3>1, <3>2
  <2> QED BY <1>1, <2>5, <2>6
<1>3. \A i, j \in 1 .. Len(s) : s[i] = s[j] => i = j
  BY <1>1 DEF Lines, IsInjective
<1>4. \A i \in 1 .. Len(t) : Origin(i) \in 1 .. Len(s) /\ Origin(i) # k BY <1>1, <1>2
<1>5. \A i, j \in 1 .. Len(t) : Origin(i) = Origin(j) => i = j BY <1>1, <1>2
<1>6. \A x \in 1 .. Len(s) : x # k => \E i \in 1 .. Len(t) : Origin(i) = x
  <2> SUFFICES ASSUME NEW x \in 1 .. Len(s), x # k PROVE \E i \in 1 .. Len(t) : Origin(i) = x OBVIOUS
  <2>1. CASE x < k BY <1>1, <1>2, <2>1
  <2>2. CASE x > k
    <3>1. x - 1 \in 1 .. Len(t) /\ Origin(x - 1) = x BY <1>1, <1>2, <2>2
    <3> QED BY <3>1
  <2> QED BY <1>1, <2>1, <2>2
<1> HIDE DEF t, Origin
<1>7. IsInjective(t) BY <1>2, <1>3, <1>4, <1>5 DEF IsInjective
<1>8. ToSet(t) = ToSet(s) \ {s[k]}
  <2>1. \A i \in 1 .. Len(t) : t[i] \in ToSet(s) /\ t[i] # s[k]
    BY <1>1, <1>2, <1>3, <1>4 DEF ToSet
  <2>2. \A x \in 1 .. Len(s) : s[x] # s[k] => s[x] \in ToSet(t)
    BY <1>2, <1>6 DEF ToSet
  <2> QED BY <1>1, <1>2, <2>1, <2>2 DEF ToSet
<1> QED BY <1>2, <1>7, <1>8 DEF Lines, t

\* The line without its head is the line without its first member; a coroutine that
\* gives up its place is taken out where it stands, or was not in the line.
LEMMA LineMoves ==
  ASSUME NEW s \in Lines, s # <<>>
  PROVE  /\ Head(s) \in ToSet(s) /\ Head(s) \in Callers
         /\ Tail(s) \in Lines /\ ToSet(Tail(s)) = ToSet(s) \ {Head(s)}
<1>1. s \in Seq(Callers) /\ Len(s) \in Nat /\ DOMAIN s = 1 .. Len(s) /\ 1 \in 1 .. Len(s) BY DEF Lines
<1>2. Head(s) = s[1] BY <1>1
<1>3. RemoveAt(s, 1) = Tail(s)
  <2>1. SubSeq(s, 1, 0) = <<>> BY SubSeqEmpty
  <2>2. Tail(s) = SubSeq(s, 2, Len(s)) /\ Tail(s) \in Seq(Callers)
    BY <1>1, TailIsSubSeq, HeadTailProperties
  <2>3. RemoveAt(s, 1) = <<>> \o Tail(s) BY <2>1, <2>2 DEF RemoveAt
  <2> QED BY <2>2, <2>3, ConcatEmptySeq
<1>4. RemoveAt(s, 1) \in Lines /\ ToSet(RemoveAt(s, 1)) = ToSet(s) \ {s[1]} BY <1>1, LineLeft
<1>5. s[1] \in ToSet(s) /\ s[1] \in Callers BY <1>1 DEF ToSet
<1> QED BY <1>2, <1>3, <1>4, <1>5

LEMMA LineGivenUp ==
  ASSUME NEW s \in Lines, NEW c
  PROVE  RemoveFirst(s, c) \in Lines /\ ToSet(RemoveFirst(s, c)) = ToSet(s) \ {c}
<1> DEFINE places == {i \in 1 .. Len(s) : s[i] = c}
           first == SelectInSeq(s, LAMBDA v : v = c)
<1>1. s \in Seq(Callers) /\ Len(s) \in Nat /\ DOMAIN s = 1 .. Len(s) BY DEF Lines
<1>2. CASE places = {}
  <2>1. RemoveFirst(s, c) = s BY <1>2, Zenon DEF RemoveFirst
  <2>2. c \notin ToSet(s) BY <1>1, <1>2 DEF ToSet
  <2> QED BY <2>1, <2>2
<1>3. CASE places # {}
  <2>1. RemoveFirst(s, c) = RemoveAt(s, first) BY <1>3, Zenon DEF RemoveFirst
  <2>2. first = Min(places) BY <1>3, Zenon DEF SelectInSeq
  <2>3. places \subseteq Nat OBVIOUS
  <2> HIDE DEF first
  <2>4. \E i \in places : \A j \in places : i <= j
    BY <1>3, <2>3, SmallestMember
  <2>5. Min(places) \in places BY <2>4, Zenon DEF Min
  <2>6. first \in 1 .. Len(s) /\ s[first] = c BY <2>2, <2>5
  <2> QED BY <2>1, <2>6, LineLeft
<1> QED BY <1>2, <1>3

\* What the client knows of its calls, its line and its pace.
CallInv ==
  /\ caller \in [Callers -> [at : {"idle", "queued", "pacing", "sent", "backoff"},
                             attempt : 0 .. MaxAttempts, wait : Nat]]
  /\ \A c \in Callers : caller[c].at # "idle" => caller[c].attempt >= 1
  /\ \A c \in Callers : caller[c].at = "backoff" => caller[c].attempt < MaxAttempts
LineInv ==
  /\ waiters \in Lines
  /\ ToSet(waiters) = {c \in Callers : caller[c].at = "queued"}
\* The holder of the lock sleeps what is left of the interval, and is alone.
PaceInv ==
  /\ since \in 0 .. Interval /\ quiet = since /\ shortest = Interval
  /\ \A c \in Callers : caller[c].at = "pacing" => caller[c].wait + since >= Interval
  /\ \A c, d \in Callers : caller[c].at = "pacing" /\ caller[d].at = "pacing" => c = d
ClientInv == CallInv /\ LineInv /\ PaceInv

LEMMA ClientStart == ClientInit => ClientInv
<1> SUFFICES ASSUME ClientInit PROVE ClientInv OBVIOUS
<1>1. CallInv BY ClientAssumption DEF ClientInit, CallInv, NoCall
<1>2. LineInv
  <2>1. <<>> \in Lines /\ ToSet(<<>>) = {} BY DEF Lines, IsInjective, ToSet
  <2> QED BY <2>1 DEF ClientInit, LineInv, NoCall
<1>3. PaceInv BY ClientAssumption DEF ClientInit, PaceInv, NoCall
<1> QED BY <1>1, <1>2, <1>3 DEF ClientInv

\* A step of one call: it becomes `next`, the line and the pace become what they become.
LEMMA CallMoves ==
  ASSUME ClientInv, NEW c \in Callers,
         NEW next \in [at : {"idle", "queued", "pacing", "sent", "backoff"},
                       attempt : 0 .. MaxAttempts, wait : Nat],
         caller' = [caller EXCEPT ![c] = next],
         next.at # "idle" => next.attempt >= 1,
         next.at = "backoff" => next.attempt < MaxAttempts
  PROVE  /\ CallInv'
         /\ caller'[c] = next /\ \A d \in Callers : d # c => caller'[d] = caller[d]
BY DEF ClientInv, CallInv

\* Once the interval is over a request leaves; it was nobody's turn but the sender's.
LEMMA SendingPaces ==
  ASSUME ClientInv, NEW c \in Callers, NEW n \in 1 .. MaxAttempts, Sends(c, n), since = Interval,
         \A d \in Callers : caller[d].at = "pacing" => d = c
  PROVE  CallInv' /\ PaceInv' /\ caller'[c].at = "sent" /\ \A d \in Callers : d # c => caller'[d] = caller[d]
<1> DEFINE next == [at |-> "sent", attempt |-> n, wait |-> 0]
<1>1. next \in [at : {"idle", "queued", "pacing", "sent", "backoff"}, attempt : 0 .. MaxAttempts, wait : Nat]
  OBVIOUS
<1>2. caller' = [caller EXCEPT ![c] = next] BY DEF Sends
<1>3. next.at = "sent" /\ next.attempt >= 1 OBVIOUS
<1> HIDE DEF next
<1>4. CallInv' /\ caller'[c] = next /\ \A d \in Callers : d # c => caller'[d] = caller[d]
  BY <1>1, <1>2, <1>3, CallMoves
<1>5. since' = 0 /\ quiet' = 0 /\ shortest' = Interval
  BY ClientAssumption DEF Sends, ClientInv, PaceInv, Least
<1>6. \A d \in Callers : caller'[d].at # "pacing" BY <1>3, <1>4
<1>7. PaceInv' BY <1>5, <1>6, ClientAssumption DEF PaceInv
<1> QED BY <1>3, <1>4, <1>7

\* The lock is granted: to sleep what is left, or to send.
LEMMA GrantPaces ==
  ASSUME ClientInv, NEW c \in Callers, NEW n \in 1 .. MaxAttempts, ~Held, Granted(c, n)
  PROVE  /\ CallInv' /\ PaceInv'
         /\ caller'[c].at # "queued" /\ \A d \in Callers : d # c => caller'[d] = caller[d]
<1>1. \A d \in Callers : caller[d].at # "pacing" BY DEF Held
<1>2. since \in 0 .. Interval BY DEF ClientInv, PaceInv
<1>3. CASE since < Interval
  <2> DEFINE next == [at |-> "pacing", attempt |-> n, wait |-> Interval - since]
  <2>1. next \in [at : {"idle", "queued", "pacing", "sent", "backoff"}, attempt : 0 .. MaxAttempts, wait : Nat]
    BY <1>2, <1>3, ClientAssumption
  <2>2. caller' = [caller EXCEPT ![c] = next] /\ UNCHANGED <<since, quiet, shortest>>
    BY <1>3 DEF Granted
  <2>3. next.at = "pacing" /\ next.attempt >= 1 /\ next.wait + since = Interval
    BY <1>2, ClientAssumption
  <2> HIDE DEF next
  <2>4. CallInv' /\ caller'[c] = next /\ \A d \in Callers : d # c => caller'[d] = caller[d]
    BY <2>1, <2>2, <2>3, CallMoves
  <2>5. PaceInv' BY <1>1, <2>2, <2>3, <2>4, ClientAssumption DEF ClientInv, PaceInv
  <2> QED BY <2>3, <2>4, <2>5
<1>4. CASE ~(since < Interval)
  <2>1. since = Interval BY <1>2, <1>4, ClientAssumption
  <2>2. Sends(c, n) BY <1>4 DEF Granted
  <2> QED BY <1>1, <2>1, <2>2, SendingPaces
<1> QED BY <1>3, <1>4

\* The line is as it was when nobody joins or leaves it.
LEMMA LineStays ==
  ASSUME ClientInv, UNCHANGED waiters,
         \A d \in Callers : caller'[d].at = "queued" <=> caller[d].at = "queued"
  PROVE  LineInv'
<1>1. {d \in Callers : caller'[d].at = "queued"} = {d \in Callers : caller[d].at = "queued"} OBVIOUS
<1> QED BY <1>1 DEF ClientInv, LineInv

\* A call that waits for nothing asks for the lock: it is granted, or the call joins the line.
LEMMA PacingKeeps ==
  ASSUME ClientInv, NEW c \in Callers, NEW n \in 1 .. MaxAttempts, Paces(c, n),
         caller[c].at \in {"idle", "backoff"}
  PROVE  ClientInv'
<1>1. CASE waiters = <<>> /\ ~Held
  <2>1. Granted(c, n) /\ UNCHANGED waiters BY <1>1 DEF Paces
  <2>2. /\ CallInv' /\ PaceInv'
        /\ caller'[c].at # "queued" /\ \A d \in Callers : d # c => caller'[d] = caller[d]
    BY <1>1, <2>1, GrantPaces
  <2>3. \A d \in Callers : caller'[d].at = "queued" <=> caller[d].at = "queued" BY <2>2
  <2> QED BY <2>1, <2>2, <2>3, LineStays DEF ClientInv
<1>2. CASE ~(waiters = <<>> /\ ~Held)
  <2> DEFINE next == [at |-> "queued", attempt |-> n, wait |-> 0]
  <2>1. next \in [at : {"idle", "queued", "pacing", "sent", "backoff"}, attempt : 0 .. MaxAttempts, wait : Nat]
    BY ClientAssumption
  <2>2. /\ caller' = [caller EXCEPT ![c] = next]
        /\ waiters' = Append(waiters, c) /\ UNCHANGED <<since, quiet, shortest>>
    BY <1>2 DEF Paces
  <2>3. next.at = "queued" /\ next.attempt >= 1 OBVIOUS
  <2> HIDE DEF next
  <2>4. CallInv' /\ caller'[c] = next /\ \A d \in Callers : d # c => caller'[d] = caller[d]
    BY <2>1, <2>2, <2>3, CallMoves
  <2>5. PaceInv' BY <2>2, <2>3, <2>4 DEF ClientInv, PaceInv
  <2>6. c \notin ToSet(waiters) BY DEF ClientInv, LineInv
  <2>7. waiters' \in Lines /\ ToSet(waiters') = ToSet(waiters) \cup {c}
    BY <2>2, <2>6, LineJoined DEF ClientInv, LineInv
  <2>8. {d \in Callers : caller'[d].at = "queued"} = {d \in Callers : caller[d].at = "queued"} \cup {c}
    BY <2>3, <2>4
  <2>9. LineInv' BY <2>7, <2>8 DEF ClientInv, LineInv
  <2> QED BY <2>4, <2>5, <2>9 DEF ClientInv
<1> QED BY <1>1, <1>2

LEMMA BeginKeeps == ASSUME ClientInv, NEW c \in Callers, Begin(c) PROVE ClientInv'
<1>1. 1 \in 1 .. MaxAttempts BY ClientAssumption
<1> QED BY <1>1, PacingKeeps DEF Begin

LEMMA AgainKeeps == ASSUME ClientInv, NEW c \in Callers, TriesAgain(c) PROVE ClientInv'
<1>1. caller[c].attempt + 1 \in 1 .. MaxAttempts
  BY ClientAssumption DEF TriesAgain, ClientInv, CallInv
<1> QED BY <1>1, PacingKeeps DEF TriesAgain

LEMMA LockTurnKeeps == ASSUME ClientInv, NEW c \in Callers, LockTurn(c) PROVE ClientInv'
<1> DEFINE n == caller[c].attempt
<1>1. waiters \in Lines /\ waiters # <<>> /\ Head(waiters) = c /\ waiters' = Tail(waiters)
      /\ ~Held /\ Granted(c, n)
  BY DEF ClientInv, LineInv, LockTurn
<1>2. c \in ToSet(waiters) /\ waiters' \in Lines /\ ToSet(waiters') = ToSet(waiters) \ {c}
  BY <1>1, LineMoves
<1>3. caller[c].at = "queued" BY <1>2 DEF ClientInv, LineInv
<1>4. n \in 1 .. MaxAttempts BY <1>3 DEF ClientInv, CallInv
<1> HIDE DEF n
<1>5. /\ CallInv' /\ PaceInv'
      /\ caller'[c].at # "queued" /\ \A d \in Callers : d # c => caller'[d] = caller[d]
  BY <1>1, <1>4, GrantPaces
<1>6. {d \in Callers : caller'[d].at = "queued"} = {d \in Callers : caller[d].at = "queued"} \ {c}
  BY <1>5
<1>7. LineInv' BY <1>2, <1>6 DEF ClientInv, LineInv
<1> QED BY <1>5, <1>7 DEF ClientInv

LEMMA PacedKeeps == ASSUME ClientInv, NEW c \in Callers, Paced(c) PROVE ClientInv'
<1>1. caller[c].at = "pacing" /\ caller[c].wait = 0 /\ Sends(c, caller[c].attempt) /\ UNCHANGED waiters
  BY DEF Paced
<1>2. caller[c].attempt \in 1 .. MaxAttempts BY <1>1 DEF ClientInv, CallInv
<1>3. since = Interval BY <1>1, ClientAssumption DEF ClientInv, PaceInv
<1>4. \A d \in Callers : caller[d].at = "pacing" => d = c BY <1>1 DEF ClientInv, PaceInv
<1>5. CallInv' /\ PaceInv' /\ caller'[c].at = "sent" /\ \A d \in Callers : d # c => caller'[d] = caller[d]
  BY <1>1, <1>2, <1>3, <1>4, SendingPaces
<1>6. \A d \in Callers : caller'[d].at = "queued" <=> caller[d].at = "queued" BY <1>1, <1>5
<1> QED BY <1>1, <1>5, <1>6, LineStays DEF ClientInv

\* A call that is over, or backs off, holds nobody up.
LEMMA LeavingPaces ==
  ASSUME ClientInv, NEW c \in Callers, Leaves(c)
  PROVE  CallInv' /\ PaceInv' /\ caller'[c].at = "idle" /\ \A d \in Callers : d # c => caller'[d] = caller[d]
<1>1. NoCall \in [at : {"idle", "queued", "pacing", "sent", "backoff"}, attempt : 0 .. MaxAttempts, wait : Nat]
      /\ NoCall.at = "idle"
  BY ClientAssumption DEF NoCall
<1>2. caller' = [caller EXCEPT ![c] = NoCall] /\ UNCHANGED <<since, quiet, shortest>> BY DEF Leaves
<1>3. CallInv' /\ caller'[c] = NoCall /\ \A d \in Callers : d # c => caller'[d] = caller[d]
  BY <1>1, <1>2, CallMoves
<1>4. PaceInv' BY <1>1, <1>2, <1>3 DEF ClientInv, PaceInv
<1> QED BY <1>1, <1>3, <1>4

LEMMA AnsweredKeeps == ASSUME ClientInv, NEW c \in Callers, Answered(c) PROVE ClientInv'
<1>1. caller[c].at = "sent" /\ Leaves(c) /\ UNCHANGED waiters BY DEF Answered
<1>2. \A d \in Callers : caller'[d].at = "queued" <=> caller[d].at = "queued" BY <1>1, LeavingPaces
<1> QED BY <1>1, <1>2, LeavingPaces, LineStays DEF ClientInv

LEMMA CancelledKeeps == ASSUME ClientInv, NEW c \in Callers, Cancelled(c) PROVE ClientInv'
<1>1. Leaves(c) /\ waiters' = RemoveFirst(waiters, c) BY DEF Cancelled
<1>2. waiters' \in Lines /\ ToSet(waiters') = ToSet(waiters) \ {c}
  BY <1>1, LineGivenUp DEF ClientInv, LineInv
<1>3. CallInv' /\ PaceInv' /\ caller'[c].at = "idle" /\ \A d \in Callers : d # c => caller'[d] = caller[d]
  BY <1>1, LeavingPaces
<1>4. {d \in Callers : caller'[d].at = "queued"} = {d \in Callers : caller[d].at = "queued"} \ {c}
  BY <1>3
<1>5. LineInv' BY <1>2, <1>4 DEF ClientInv, LineInv
<1> QED BY <1>3, <1>5 DEF ClientInv

\* A backoff is a time.
LEMMA BackoffType ==
  ASSUME NEW n \in 1 .. MaxAttempts, NEW header \in RetryAfters \cup {None}
  PROVE  Backoff(n, header) \in Nat
<1>1. 2^(n - 1) \in Nat BY DoublingAssumption
<1>2. \A p \in Nat : BaseBackoff * p \in Nat BY ClientAssumption
<1>3. BaseBackoff * 2^(n - 1) \in Nat BY <1>1, <1>2
<1>4. \A w \in Nat : Least(w, MaxBackoff) \in Nat BY ClientAssumption DEF Least
<1>5. CASE header # None BY <1>4, <1>5, ClientAssumption DEF Backoff
<1>6. CASE header = None BY <1>3, <1>4, <1>6 DEF Backoff
<1> QED BY <1>5, <1>6

LEMMA RetryableKeeps ==
  ASSUME ClientInv, NEW c \in Callers, NEW header \in RetryAfters \cup {None}, Retryable(c, header)
  PROVE  ClientInv'
<1> DEFINE n == caller[c].attempt
<1>1. caller[c].at = "sent" /\ UNCHANGED waiters BY DEF Retryable
<1>2. n \in 1 .. MaxAttempts BY <1>1 DEF ClientInv, CallInv
<1>3. CASE n = MaxAttempts
  <2>1. Leaves(c) BY <1>3 DEF Retryable
  <2>2. \A d \in Callers : caller'[d].at = "queued" <=> caller[d].at = "queued"
    BY <1>1, <2>1, LeavingPaces
  <2> QED BY <1>1, <2>1, <2>2, LeavingPaces, LineStays DEF ClientInv
<1>4. CASE n # MaxAttempts
  <2> DEFINE next == [at |-> "backoff", attempt |-> n, wait |-> Backoff(n, header)]
  <2>1. Backoff(n, header) \in Nat BY <1>2, BackoffType
  <2>2. next \in [at : {"idle", "queued", "pacing", "sent", "backoff"}, attempt : 0 .. MaxAttempts, wait : Nat]
    BY <1>2, <2>1
  <2>3. caller' = [caller EXCEPT ![c] = next] /\ UNCHANGED <<since, quiet, shortest>> BY <1>4 DEF Retryable
  <2>4. next.at = "backoff" /\ next.attempt >= 1 /\ next.attempt < MaxAttempts
    BY <1>2, <1>4, ClientAssumption
  <2> HIDE DEF next, n
  <2>5. CallInv' /\ caller'[c] = next /\ \A d \in Callers : d # c => caller'[d] = caller[d]
    BY <2>2, <2>3, <2>4, CallMoves
  <2>6. PaceInv' BY <2>3, <2>4, <2>5 DEF ClientInv, PaceInv
  <2>7. \A d \in Callers : caller'[d].at = "queued" <=> caller[d].at = "queued" BY <1>1, <2>4, <2>5
  <2> QED BY <1>1, <2>5, <2>6, <2>7, LineStays DEF ClientInv
<1> QED BY <1>3, <1>4

\* Time shortens the holder's sleep and lengthens the pace alike.
LEMMA TimeKeepsPace == ASSUME ClientInv, TimePasses PROVE ClientInv'
<1> DEFINE Later(call) == [call EXCEPT !.wait = IF @ > 0 THEN @ - 1 ELSE 0]
<1>1. \A c \in Callers : caller'[c] = Later(caller[c]) BY DEF TimePasses
<1>2. caller \in [Callers -> [at : {"idle", "queued", "pacing", "sent", "backoff"},
                              attempt : 0 .. MaxAttempts, wait : Nat]]
  BY DEF ClientInv, CallInv
<1>3. \A c \in Callers : /\ caller'[c].at = caller[c].at /\ caller'[c].attempt = caller[c].attempt
                         /\ caller'[c].wait = IF caller[c].wait > 0 THEN caller[c].wait - 1 ELSE 0
                         /\ caller'[c] \in [at : {"idle", "queued", "pacing", "sent", "backoff"},
                                            attempt : 0 .. MaxAttempts, wait : Nat]
  <2> SUFFICES ASSUME NEW c \in Callers
               PROVE  /\ Later(caller[c]).at = caller[c].at /\ Later(caller[c]).attempt = caller[c].attempt
                      /\ Later(caller[c]).wait = IF caller[c].wait > 0 THEN caller[c].wait - 1 ELSE 0
                      /\ Later(caller[c]) \in [at : {"idle", "queued", "pacing", "sent", "backoff"},
                                                attempt : 0 .. MaxAttempts, wait : Nat]
    BY <1>1, Zenon
  <2>1. PICK call \in [at : {"idle", "queued", "pacing", "sent", "backoff"},
                       attempt : 0 .. MaxAttempts, wait : Nat] : call = caller[c]
    BY <1>2
  <2>2. Later(call) = [at |-> call.at, attempt |-> call.attempt,
                       wait |-> IF call.wait > 0 THEN call.wait - 1 ELSE 0]
    OBVIOUS
  <2>3. (IF call.wait > 0 THEN call.wait - 1 ELSE 0) \in Nat OBVIOUS
  <2> HIDE DEF Later
  <2> QED BY <2>1, <2>2, <2>3
<1> HIDE DEF Later
<1>4. caller' \in [Callers -> [at : {"idle", "queued", "pacing", "sent", "backoff"},
                               attempt : 0 .. MaxAttempts, wait : Nat]]
  <2>1. caller' = [c \in Callers |-> caller'[c]] BY DEF TimePasses
  <2> QED BY <1>3, <2>1
<1>5. CallInv' BY <1>3, <1>4 DEF ClientInv, CallInv
<1>6. LineInv'
  <2>1. \A d \in Callers : caller'[d].at = "queued" <=> caller[d].at = "queued" BY <1>3
  <2> QED BY <2>1, LineStays DEF TimePasses
<1>7. PaceInv'
  <2>1. since \in 0 .. Interval /\ quiet = since /\ shortest = Interval BY DEF ClientInv, PaceInv
  <2>2. since' \in 0 .. Interval /\ quiet' = since' /\ shortest' = Interval
        /\ since' = IF since + 1 < Interval THEN since + 1 ELSE Interval
    BY <2>1, ClientAssumption DEF TimePasses, Least
  <2>3. ASSUME NEW c \in Callers, caller'[c].at = "pacing" PROVE caller'[c].wait + since' >= Interval
    <3>1. caller[c].wait \in Nat /\ caller[c].wait + since >= Interval
      BY <1>2, <1>3, <2>3 DEF ClientInv, PaceInv
    <3>2. caller'[c].wait = IF caller[c].wait > 0 THEN caller[c].wait - 1 ELSE 0 BY <1>3
    <3> QED BY <2>1, <2>2, <3>1, <3>2, ClientAssumption
  <2>4. \A c, d \in Callers : caller'[c].at = "pacing" /\ caller'[d].at = "pacing" => c = d
    BY <1>3 DEF ClientInv, PaceInv
  <2> QED BY <2>2, <2>3, <2>4 DEF PaceInv
<1> QED BY <1>5, <1>6, <1>7 DEF ClientInv

LEMMA ClientKeeps == ASSUME ClientInv, [ClientNext]_clientVars PROVE ClientInv'
<1>1. CASE UNCHANGED clientVars
  BY <1>1 DEF clientVars, ClientInv, CallInv, LineInv, PaceInv
<1>2. ASSUME NEW c \in Callers, CallGoes(c) PROVE ClientInv'
  BY <1>2, LockTurnKeeps, PacedKeeps, AgainKeeps, AnsweredKeeps, RetryableKeeps DEF CallGoes
<1>3. ASSUME NEW c \in Callers, Begin(c) \/ Cancelled(c) PROVE ClientInv'
  BY <1>3, BeginKeeps, CancelledKeeps
<1>4. CASE TimePasses BY <1>4, TimeKeepsPace
<1> QED BY <1>1, <1>2, <1>3, <1>4 DEF ClientNext

\* However many coroutines ask, retry and are cancelled: no two requests leave within the
\* interval, and the line holds each caller that waits once.
LEMMA ClientHolds == ClientSpec => [](ClientTypeOK /\ RequestsApart)
<1>1. ClientInv /\ [ClientNext]_clientVars => ClientInv' BY ClientKeeps
<1>2. ClientInv => ClientTypeOK /\ RequestsApart
  BY ClientAssumption DEF ClientInv, CallInv, LineInv, PaceInv, Lines, ClientTypeOK, RequestsApart
<1> QED BY <1>1, <1>2, ClientStart, PTL DEF ClientSpec

---------------------------------------------------------------------------
(* The feed.                                                                *)

\* A set of integers between two bounds that has a member has a least and a largest one.
LEMMA BoundedExtremes ==
  ASSUME NEW T, T \subseteq Int, T # {}, NEW low \in Int, NEW high \in Int,
         \A n \in T : low <= n /\ n <= high
  PROVE  /\ Min(T) \in T /\ Max(T) \in T
         /\ \A n \in T : Min(T) <= n /\ n <= Max(T)
<1>1. \E x \in T : \A y \in T : x <= y
  <2> DEFINE up == {n - low : n \in T}
  <2>1. \A n \in T : n - low \in Nat OBVIOUS
  <2>2. up \subseteq Nat /\ up # {} BY <2>1, Zenon
  <2> HIDE DEF up
  <2>3. PICK u \in up : \A v \in up : u <= v BY <2>2, SmallestMember
  <2>4. \A n \in T : n - low \in up BY DEF up
  <2>5. PICK x \in T : u = x - low BY <2>3 DEF up
  <2>6. \A y \in T : x <= y BY <2>3, <2>4, <2>5
  <2> QED BY <2>6
<1>2. \E x \in T : \A y \in T : x >= y
  <2> DEFINE down == {high - n : n \in T}
  <2>1. \A n \in T : high - n \in Nat OBVIOUS
  <2>2. down \subseteq Nat /\ down # {} BY <2>1, Zenon
  <2> HIDE DEF down
  <2>3. PICK u \in down : \A v \in down : u <= v BY <2>2, SmallestMember
  <2>4. \A n \in T : high - n \in down BY DEF down
  <2>5. PICK x \in T : u = high - x BY <2>3 DEF down
  <2>6. \A y \in T : x >= y BY <2>3, <2>4, <2>5
  <2> QED BY <2>6
<1>3. Min(T) \in T /\ \A y \in T : Min(T) <= y BY <1>1, Zenon DEF Min
<1>4. Max(T) \in T /\ \A y \in T : Max(T) >= y BY <1>2, Zenon DEF Max
<1> QED BY <1>3, <1>4

Positionings == [observed : Int, oldest : Int]
Fetches == [awaited : Nat, times : SUBSET Int, received : Int, strange : SUBSET {"unsafe", "broken"}]
BuildStates ==
  [at : AtRest \cup {"pairs", "trade", "candles", "sidecar", "metrics", "ready"},
   price : Int \cup {None}, closes : Seq(Int), began : Nat \cup {None}, fetch : Fetches \cup {None},
   refresh : {None, "CACHED", "UNAVAILABLE", "FAILED", "REFRESHED"}, context : Positionings \cup {None}]

\* What one build has read so far, and what it was told of it.
BuildOK(m) ==
  /\ m.at \in {"pairs", "trade"} => m.closes = <<>>
  /\ m.at \in {"candles", "sidecar", "metrics", "ready", "consulted"} => m.price \in Int /\ m.price <= clock
  /\ m.at = "candles" => Len(m.closes) < Len(frames)
  /\ \A i \in 1 .. Len(m.closes) : m.price <= m.closes[i] + MaxSkew
  /\ m.at = "metrics" =>
       /\ m.began \in Nat /\ m.fetch \in Fetches
       /\ attempt \in Nat /\ m.began <= attempt
       /\ \A time \in m.fetch.times : m.began - MaxMetricAge <= time /\ time <= m.began + MaxSkew
  /\ m.context # None =>
       /\ m.at = "consulted" /\ m.context \in Positionings /\ m.context.observed <= m.price
       /\ m.price - m.context.oldest <= MaxContextAge + MaxMetricAge + MaxSkew
  \* An announced specialist finds what was announced, or something newer.
  /\ m.at \in {"ready", "consulted"} /\ m.refresh \in {"REFRESHED", "CACHED"} =>
       /\ snapshot # None /\ m.price - snapshot.observed <= MaxContextAge
       /\ m.at = "consulted" /\ m.context = None => snapshot.observed > m.price

CacheInv ==
  /\ clock \in 0 .. EndOfFeed
  /\ metadata = None \/ metadata.received \in 0 .. clock
  /\ snapshot \in Positionings \cup {None}
  /\ snapshot # None =>
       snapshot.oldest <= snapshot.observed /\ snapshot.observed - snapshot.oldest <= MaxMetricAge + MaxSkew
  /\ attempt = None \/ attempt \in 0 .. clock

FeedInv ==
  /\ CacheInv
  /\ build \in [Builds -> BuildStates]
  /\ \A b \in Builds : BuildOK(build[b])
  /\ RefreshesApart

\* What a build has read stays true of it while others, and time, move on: the clock and
\* the cached snapshot only go forward, and an attempt is noted at the clock.
GoesOn ==
  /\ clock' \in Int /\ clock <= clock'
  /\ attempt' = attempt \/ attempt' = clock
  /\ \/ snapshot' = snapshot
     \/ snapshot' \in Positionings /\ (snapshot # None => snapshot.observed <= snapshot'.observed)

LEMMA BuildStays ==
  ASSUME CacheInv, GoesOn, NEW m \in BuildStates, BuildOK(m)
  PROVE  BuildOK(m)'
<1>1. clock \in Nat /\ clock' \in Int /\ clock <= clock'
      /\ (attempt \in Nat => attempt <= clock /\ attempt' \in Nat /\ attempt <= attempt')
  BY FeedAssumption DEF CacheInv, GoesOn
<1>2. None \notin Positionings /\ None \notin Int BY FeedAssumption DEF Positionings
<1>3. snapshot # None => snapshot' # None /\ snapshot.observed \in Int /\ snapshot'.observed \in Int
                         /\ snapshot.observed <= snapshot'.observed
  BY <1>2 DEF CacheInv, GoesOn, Positionings
<1>4. m.closes \in Seq(Int) BY DEF BuildStates
<1>5. m.at \in {"candles", "sidecar", "metrics", "ready", "consulted"} => m.price \in Int /\ m.price <= clock'
  BY <1>1 DEF BuildOK
<1>6. m.at = "metrics" => attempt' \in Nat /\ m.began \in Nat /\ m.began <= attempt'
  BY <1>1 DEF BuildOK
<1>7. m.at \in {"ready", "consulted"} /\ m.refresh \in {"REFRESHED", "CACHED"} =>
       /\ snapshot' # None /\ m.price - snapshot'.observed <= MaxContextAge
       /\ m.at = "consulted" /\ m.context = None => snapshot'.observed > m.price
  BY <1>3, FeedAssumption, SMTT(20) DEF BuildOK
<1> QED BY <1>5, <1>6, <1>7 DEF BuildOK

\* A step of one build: the others stay, and only a build that begins a fetch, or goes on
\* with the one it began, is among the metrics.
LEMMA BuildMoves ==
  ASSUME FeedInv, NEW b \in Builds, NEW m \in BuildStates, build' = [build EXCEPT ![b] = m],
         CacheInv', GoesOn, BuildOK(m)',
         \/ m.at # "metrics"
         \/ build[b].at = "metrics" /\ m.began = build[b].began
         \/ m.began = clock /\ ~CoolingDown
  PROVE  FeedInv'
<1>1. /\ build' \in [Builds -> BuildStates] /\ build'[b] = m
      /\ \A d \in Builds : d # b => build'[d] = build[d]
  BY DEF FeedInv
<1>2. (\A d \in Builds : BuildOK(build[d]))'
  <2> SUFFICES ASSUME NEW d \in Builds PROVE BuildOK(build[d])'
    OBVIOUS
  <2>1. CASE d = b
    <3>1. build'[d] = m BY <1>1, <2>1
    <3> QED BY <3>1 DEF BuildOK
  <2>2. CASE d # b
    <3>1. PICK k \in BuildStates : k = build[d] BY DEF FeedInv
    <3>2. BuildOK(k) BY <3>1 DEF FeedInv
    <3>3. BuildOK(k)' BY <3>2, BuildStays DEF FeedInv
    <3>4. build'[d] = k BY <1>1, <2>2, <3>1
    <3> QED BY <3>3, <3>4 DEF BuildOK
  <2> QED BY <2>1, <2>2
<1>3. RefreshesApart'
  <2>1. clock \in Nat /\ MinRefreshInterval \in Nat
        /\ (attempt \in Nat => attempt <= clock /\ (~CoolingDown => clock - attempt >= MinRefreshInterval))
        /\ None \notin Nat
    BY FeedAssumption DEF FeedInv, CacheInv, CoolingDown
  <2>2. \A d \in Builds : build[d].at = "metrics" =>
          build[d].began \in Nat /\ attempt \in Nat /\ build[d].began <= attempt
    BY DEF FeedInv, BuildOK
  <2>3. \A d \in Builds : build'[d].at = "metrics" =>
          \/ build[d].at = "metrics" /\ build'[d].began = build[d].began
          \/ d = b /\ build'[d].began = clock /\ ~CoolingDown
    BY <1>1
  <2>4. \A c, d \in Builds : c # d /\ build[c].at = "metrics" /\ build[d].at = "metrics"
          /\ build[c].began <= build[d].began => build[d].began - build[c].began >= MinRefreshInterval
    BY DEF FeedInv, RefreshesApart
  <2> SUFFICES ASSUME NEW c \in Builds, NEW d \in Builds, c # d, build'[c].at = "metrics",
                      build'[d].at = "metrics", build'[c].began <= build'[d].began
               PROVE  build'[d].began - build'[c].began >= MinRefreshInterval
    BY DEF RefreshesApart
  <2>5. CASE c # b /\ d # b BY <1>1, <2>4, <2>5
  <2>6. CASE build[c].at = "metrics" /\ build'[c].began = build[c].began /\ build[d].at = "metrics" /\ build'[d].began = build[d].began
    BY <2>4, <2>6
  <2>7. CASE c = b /\ build'[c].began = clock /\ ~CoolingDown
    BY <1>1, <2>1, <2>2, <2>7
  <2>8. CASE d = b /\ build'[d].began = clock /\ ~CoolingDown
    BY <1>1, <2>1, <2>2, <2>8
  <2> QED BY <2>3, <2>5, <2>6, <2>7, <2>8
<1> QED BY <1>1, <1>2, <1>3 DEF FeedInv

LEMMA FeedNumbers ==
  /\ MaxSkew \in Nat /\ MaxMetricAge \in Nat /\ MaxContextAge \in Nat /\ MinRefreshInterval \in Nat
  /\ Analytics \in Nat /\ Len(frames) \in Nat /\ \A i \in 1 .. Len(frames) : frames[i] \in Nat
  /\ None \notin Int /\ None \notin Positionings
BY FeedAssumption DEF Positionings

\* What an answer tells of is an integer time.
LEMMA ToldTimes == ASSUME FeedInv, NEW time \in Told PROVE time \in Int /\ clock \in Nat
<1>1. clock \in Nat BY FeedAssumption DEF FeedInv, CacheInv
<1>2. \A lag \in Lags : clock - lag \in Int BY <1>1, FeedAssumption
<1>3. PICK lag \in Lags : time = clock - lag BY Zenon DEF Told
<1> QED BY <1>1, <1>2, <1>3

LEMMA NoBuildIsOne == NoBuild \in BuildStates /\ NoBuild.at = "idle" /\ (CacheInv => BuildOK(NoBuild))
<1>1. NoBuild \in BuildStates BY DEF NoBuild, BuildStates, AtRest
<1>2. NoBuild.at = "idle" /\ NoBuild.closes = <<>> /\ NoBuild.context = None BY DEF NoBuild
<1>3. BuildOK(NoBuild) BY <1>2 DEF BuildOK
<1> QED BY <1>1, <1>2, <1>3

\* A build that has come to another place, with what it has read until now.
LEMMA PlaceMoves ==
  ASSUME NEW m \in BuildStates,
         NEW p \in AtRest \cup {"pairs", "trade", "candles", "sidecar", "metrics", "ready"}
  PROVE  /\ [m EXCEPT !.at = p] \in BuildStates
         /\ [m EXCEPT !.at = p].at = p /\ [m EXCEPT !.at = p].price = m.price
         /\ [m EXCEPT !.at = p].closes = m.closes /\ [m EXCEPT !.at = p].context = m.context
         /\ [m EXCEPT !.at = p].began = m.began /\ [m EXCEPT !.at = p].fetch = m.fetch
         /\ [m EXCEPT !.at = p].refresh = m.refresh
BY DEF BuildStates

LEMMA GivesUpKeeps ==
  ASSUME FeedInv, NEW b \in Builds, GivesUp(b), CacheInv', GoesOn
  PROVE  FeedInv'
<1>1. NoBuild \in BuildStates /\ NoBuild.at # "metrics" /\ BuildOK(NoBuild)
  BY NoBuildIsOne DEF FeedInv
<1>2. BuildOK(NoBuild)' BY <1>1, BuildStays DEF FeedInv
<1>3. build' = [build EXCEPT ![b] = NoBuild] BY DEF GivesUp
<1> QED BY <1>1, <1>2, <1>3, BuildMoves

LEMMA StartBuildKeeps == ASSUME FeedInv, NEW b \in Builds, StartBuild(b) PROVE FeedInv'
<1> DEFINE place == CASE CachedMetadata = None -> "pairs" [] Constrained -> "trade" [] OTHER -> "idle"
           m == [NoBuild EXCEPT !.at = place]
<1>1. place \in {"pairs", "trade", "idle"} OBVIOUS
<1>2. build' = [build EXCEPT ![b] = m] BY DEF StartBuild
<1> HIDE DEF place
<1>3. m \in BuildStates /\ m.at = place /\ m.closes = <<>> /\ m.context = None
  BY <1>1, NoBuildIsOne, PlaceMoves DEF NoBuild
<1> HIDE DEF m
<1>4. CacheInv' /\ GoesOn BY FeedAssumption DEF StartBuild, FeedInv, CacheInv, GoesOn
<1>5. PICK k \in BuildStates : k = m BY <1>3
<1>6. BuildOK(k)' BY <1>1, <1>3, <1>5 DEF BuildOK
<1> QED BY <1>1, <1>2, <1>3, <1>4, <1>5, <1>6, BuildMoves

LEMMA PairsAnsweredKeeps ==
  ASSUME FeedInv, NEW b \in Builds, NEW online \in BOOLEAN, PairsAnswered(b, online) PROVE FeedInv'
<1>1. CacheInv' /\ GoesOn BY FeedAssumption DEF PairsAnswered, FeedInv, CacheInv, GoesOn
<1>2. PICK m \in BuildStates : m = build[b] BY DEF FeedInv
<1>3. BuildOK(m) /\ m.at = "pairs" BY <1>2 DEF FeedInv, PairsAnswered
<1> DEFINE k == [m EXCEPT !.at = "trade"]
<1>4. k \in BuildStates /\ k.at = "trade" /\ k.closes = m.closes /\ k.context = m.context
  BY PlaceMoves
<1>5. CASE online
  <2>1. build' = [build EXCEPT ![b] = k] BY <1>2, <1>5 DEF PairsAnswered, Reaches
  <2> HIDE DEF k
  <2>2. BuildOK(k)' BY <1>3, <1>4 DEF BuildOK
  <2> QED BY <1>1, <1>4, <2>1, <2>2, BuildMoves
<1>6. CASE ~online BY <1>1, <1>6, GivesUpKeeps DEF PairsAnswered
<1> QED BY <1>5, <1>6

LEMMA TradeAnsweredKeeps ==
  ASSUME FeedInv, NEW b \in Builds, NEW time \in Told, TradeAnswered(b, time) PROVE FeedInv'
<1>1. CacheInv' /\ GoesOn BY FeedAssumption DEF TradeAnswered, FeedInv, CacheInv, GoesOn
<1>2. PICK m \in BuildStates : m = build[b] BY DEF FeedInv
<1>3. BuildOK(m) /\ m.at = "trade" BY <1>2 DEF FeedInv, TradeAnswered
<1>4. clock \in Int /\ time \in Int BY ToldTimes
<1> DEFINE k == [m EXCEPT !.at = "candles", !.price = time]
<1>5. CASE ~(clock < time)
  <2>1. build' = [build EXCEPT ![b] = k] BY <1>2, <1>5 DEF TradeAnswered
  <2>2. k \in BuildStates /\ k.at = "candles" /\ k.price = time /\ k.closes = m.closes /\ k.context = m.context
    BY <1>4 DEF BuildStates
  <2> HIDE DEF k
  <2>3. BuildOK(k)' BY <1>1, <1>3, <1>4, <1>5, <2>2, FeedAssumption DEF BuildOK, GoesOn
  <2> QED BY <1>1, <2>1, <2>2, <2>3, BuildMoves
<1>6. CASE clock < time BY <1>1, <1>6, GivesUpKeeps DEF TradeAnswered
<1> QED BY <1>5, <1>6

LEMMA SpotFailsKeeps == ASSUME FeedInv, NEW b \in Builds, SpotFails(b) PROVE FeedInv'
<1>1. CacheInv' /\ GoesOn BY FeedAssumption DEF SpotFails, FeedInv, CacheInv, GoesOn
<1> QED BY <1>1, GivesUpKeeps DEF SpotFails

\* The first candles to come late enough confirm the price; the others were asked for after.
LEMMA CandlesAnsweredKeeps ==
  ASSUME FeedInv, NEW b \in Builds, NEW open \in Told, NEW found \in BOOLEAN, CandlesAnswered(b, open, found)
  PROVE  FeedInv'
<1>1. CacheInv' /\ GoesOn BY FeedAssumption DEF CandlesAnswered, FeedInv, CacheInv, GoesOn
<1>2. PICK m \in BuildStates : m = build[b] BY DEF FeedInv
<1>3. BuildOK(m) /\ m.at = "candles" BY <1>2 DEF FeedInv, CandlesAnswered
<1>4. /\ m.closes \in Seq(Int) /\ Len(m.closes) \in Nat /\ Len(m.closes) < Len(frames) /\ m.price \in Int
      /\ m.price <= clock /\ \A i \in 1 .. Len(m.closes) : m.price <= m.closes[i] + MaxSkew
  BY <1>3 DEF BuildOK, BuildStates
<1> DEFINE close == open + frames[Len(m.closes) + 1]
           closes == Append(m.closes, close)
           last == Len(closes) = Len(frames)
           place == IF last THEN "sidecar" ELSE "candles"
           k == [m EXCEPT !.closes = closes, !.at = place]
<1>5. clock \in Int /\ open \in Int /\ close \in Int
  <2>1. clock \in Int /\ open \in Int BY ToldTimes
  <2>2. frames[Len(m.closes) + 1] \in Nat BY <1>4, FeedNumbers
  <2> QED BY <2>1, <2>2
<1>6. CandlesAnswered(b, open, found) =>
        \/ CurrentAt(open, close, clock) /\ build' = [build EXCEPT ![b] = k]
        \/ GivesUp(b)
  BY <1>2 DEF CandlesAnswered
<1>7. CASE CurrentAt(open, close, clock) /\ build' = [build EXCEPT ![b] = k]
  <2> HIDE DEF close
  <2>1. clock <= close + MaxSkew BY <1>5, <1>7, FeedNumbers DEF CurrentAt
  <2>2. closes \in Seq(Int) /\ Len(closes) = Len(m.closes) + 1 /\ closes[Len(closes)] = close
        /\ \A i \in 1 .. Len(m.closes) : closes[i] = m.closes[i]
    BY <1>4, <1>5
  <2>3. m.price <= close + MaxSkew BY <1>4, <1>5, <2>1, FeedNumbers
  <2> HIDE DEF closes
  <2>4. \A i \in 1 .. Len(closes) : m.price <= closes[i] + MaxSkew
    <3>1. \A i \in 1 .. Len(closes) : i \in 1 .. Len(m.closes) \/ i = Len(closes) BY <1>4, <2>2
    <3> QED BY <1>4, <2>2, <2>3, <3>1, Zenon
  <2>5. ~last => Len(closes) < Len(frames) BY <1>4, <2>2, FeedNumbers
  <2>6. place \in {"sidecar", "candles"} /\ (place = "candles" => ~last) OBVIOUS
  <2> HIDE DEF last, place
  <2>7. k \in BuildStates /\ k.at = place /\ k.price = m.price /\ k.closes = closes /\ k.context = m.context
    BY <2>2, <2>6 DEF BuildStates
  <2> HIDE DEF k
  <2>8. m.context = None BY <1>3 DEF BuildOK
  <2>9. clock' = clock BY DEF CandlesAnswered
  <2>10. BuildOK(k)' BY <1>4, <2>4, <2>5, <2>6, <2>7, <2>8, <2>9 DEF BuildOK
  <2> QED BY <1>1, <1>7, <2>6, <2>7, <2>10, BuildMoves
<1>8. CASE GivesUp(b) BY <1>1, <1>8, GivesUpKeeps
<1> QED BY <1>6, <1>7, <1>8

---------------------------------------------------------------------------
(* What derivatives say, fetched and cached.                                *)

LEMMA FieldsOf ==
  ASSUME NEW m \in BuildStates
  PROVE  /\ m.price \in Int \cup {None} /\ m.began \in Nat \cup {None} /\ m.fetch \in Fetches \cup {None}
         /\ m.refresh \in {None, "CACHED", "UNAVAILABLE", "FAILED", "REFRESHED"}
         /\ m.closes \in Seq(Int) /\ <<>> \in Seq(Int) /\ m.context \in Positionings \cup {None}
BY DEF BuildStates

\* A build as the cool-down leaves it.
LEMMA ReadyWith ==
  ASSUME NEW m \in BuildStates, NEW status \in {"CACHED", "UNAVAILABLE"},
         NEW k, k = [m EXCEPT !.at = "ready", !.closes = <<>>, !.refresh = status]
  PROVE  /\ k \in BuildStates /\ k.at = "ready" /\ k.price = m.price /\ k.closes = <<>>
         /\ k.context = m.context /\ k.refresh = status
<1>1. k = [at |-> "ready", price |-> m.price, closes |-> <<>>, began |-> m.began,
           fetch |-> m.fetch, refresh |-> status, context |-> m.context]
  BY Zenon DEF BuildStates
<1> QED BY <1>1, FieldsOf DEF BuildStates

\* What the cache gives for a decision is the snapshot, observed within its time.
LEMMA ContextOf ==
  ASSUME FeedInv, NEW s \in Positionings \cup {None}, NEW time \in Int
  PROVE  ContextFor(s, time) # None =>
           /\ ContextFor(s, time) = s /\ s \in Positionings
           /\ s.observed <= time /\ time - s.observed <= MaxContextAge
BY FeedNumbers DEF ContextFor

LEMMA RefreshKeeps == ASSUME FeedInv, NEW b \in Builds, Refresh(b) PROVE FeedInv'
<1>1. CacheInv' /\ GoesOn BY FeedAssumption DEF Refresh, FeedInv, CacheInv, GoesOn
<1>2. PICK m \in BuildStates : m = build[b] BY DEF FeedInv
<1>3. BuildOK(m) /\ m.at = "sidecar" BY <1>2 DEF FeedInv, Refresh
<1>4. m.price \in Int /\ m.price <= clock /\ m.context = None /\ clock \in Nat
  BY <1>3, FeedAssumption DEF BuildOK, FeedInv, CacheInv
<1>5. clock' = clock /\ snapshot' = snapshot BY DEF Refresh
<1>6. CASE CoolingDown
  <2>1. PICK status : status = InCache(b) OBVIOUS
  <2>2. status \in {"CACHED", "UNAVAILABLE"} BY <2>1 DEF InCache
  <2>3. status = "CACHED" => snapshot # None /\ m.price - snapshot.observed <= MaxContextAge
    BY <1>2, <1>4, <2>1, ContextOf, FeedNumbers DEF InCache, Decision, FeedInv, CacheInv
  <2>4. PICK k : k = [m EXCEPT !.at = "ready", !.closes = <<>>, !.refresh = status] OBVIOUS
  <2>5. build' = [build EXCEPT ![b] = k] BY <1>2, <1>6, <2>1, <2>4 DEF Refresh
  <2>6. k \in BuildStates /\ k.at = "ready" /\ k.price = m.price /\ k.closes = <<>>
        /\ k.context = m.context /\ k.refresh = status
    BY <2>2, <2>4, ReadyWith, ZenonT(60)
  <2>7. BuildOK(k)' BY <1>4, <1>5, <2>2, <2>3, <2>6 DEF BuildOK
  <2> QED BY <1>1, <2>5, <2>6, <2>7, BuildMoves
<1>7. CASE ~CoolingDown
  <2>1. PICK began \in Nat : began = clock BY <1>4
  <2>2. PICK fetch \in Fetches :
          fetch.times = {}
          /\ fetch = [awaited |-> Analytics, times |-> {}, received |-> clock, strange |-> {}]
    <3> DEFINE first == [awaited |-> Analytics, times |-> {}, received |-> clock, strange |-> {}]
    <3>1. first \in Fetches /\ first.times = {} BY <1>4, FeedNumbers DEF Fetches
    <3> QED BY <3>1
  <2>3. PICK k : k = [m EXCEPT !.at = "metrics", !.closes = <<>>, !.began = began, !.fetch = fetch] OBVIOUS
  <2>4. build' = [build EXCEPT ![b] = k] /\ attempt' = clock
    BY <1>2, <1>7, <2>1, <2>2, <2>3 DEF Refresh, Fetching
  <2>5. k \in BuildStates /\ k.at = "metrics" /\ k.price = m.price /\ k.closes = <<>>
        /\ k.context = m.context /\ k.began = began /\ k.fetch = fetch
    <3>1. k = [at |-> "metrics", price |-> m.price, closes |-> <<>>, began |-> began,
               fetch |-> fetch, refresh |-> m.refresh, context |-> m.context]
      BY <2>3, Zenon DEF BuildStates
    <3> QED BY <3>1, FieldsOf DEF BuildStates
  <2>6. BuildOK(k)' BY <1>4, <1>5, <2>1, <2>2, <2>4, <2>5 DEF BuildOK
  <2> QED BY <1>1, <1>7, <2>1, <2>4, <2>5, <2>6, BuildMoves
<1> QED BY <1>6, <1>7

\* What an answer of the analytics leaves of the fetch it was awaited by.
LEMMA AnsweredMoves ==
  ASSUME FeedInv, NEW b \in Builds, build[b].at = "metrics", NEW fetch \in Fetches,
         build' = [build EXCEPT ![b].fetch = fetch], UNCHANGED <<clock, metadata, snapshot, attempt>>,
         \A time \in fetch.times :
           build[b].began - MaxMetricAge <= time /\ time <= build[b].began + MaxSkew
  PROVE  FeedInv'
<1>1. CacheInv' /\ GoesOn BY FeedAssumption DEF FeedInv, CacheInv, GoesOn
<1>2. PICK m \in BuildStates : m = build[b] BY DEF FeedInv
<1> DEFINE k == [m EXCEPT !.fetch = fetch]
<1>3. BuildOK(m) BY <1>2 DEF FeedInv
<1>4. build' = [build EXCEPT ![b] = k] BY <1>2
<1>5. k \in BuildStates /\ k.at = m.at /\ k.price = m.price /\ k.closes = m.closes
      /\ k.context = m.context /\ k.began = m.began /\ k.fetch = fetch
  BY DEF BuildStates
<1> HIDE DEF k
<1>6. BuildOK(k)' BY <1>2, <1>3, <1>5 DEF BuildOK
<1> QED BY <1>1, <1>2, <1>4, <1>5, <1>6, BuildMoves

\* Whatever else an answer brings, what a fetch has of the past and what went wrong with it.
LEMMA UnusualKeeps ==
  ASSUME FeedInv, NEW b \in Builds, Awaits(b), NEW what \in SUBSET {"unsafe", "broken"}, Unusual(b, what),
         UNCHANGED <<clock, metadata, snapshot, attempt>>
  PROVE  FeedInv'
<1>1. BuildOK(build[b]) /\ build[b].at = "metrics" /\ build[b].fetch.awaited > 0 BY DEF FeedInv, Awaits
<1>2. PICK was \in Fetches : was = build[b].fetch BY <1>1 DEF BuildOK
<1> DEFINE After(f) == [f EXCEPT !.awaited = @ - 1, !.strange = @ \cup what]
<1>3. build' = [build EXCEPT ![b].fetch = After(build[b].fetch)] BY DEF Unusual
<1>4. PICK fetch : fetch = After(build[b].fetch) OBVIOUS
<1>5. fetch = [awaited |-> was.awaited - 1, times |-> was.times, received |-> was.received,
               strange |-> was.strange \cup what]
  <2>1. fetch = [was EXCEPT !.awaited = @ - 1, !.strange = @ \cup what] BY <1>2, <1>4
  <2> QED BY <2>1, Zenon DEF Fetches
<1>6. fetch \in Fetches /\ fetch.times = was.times
  <2>1. was.awaited - 1 \in Nat BY <1>1, <1>2 DEF Fetches
  <2>2. was.times \in SUBSET Int /\ was.received \in Int /\ was.strange \cup what \in SUBSET {"unsafe", "broken"}
    BY DEF Fetches
  <2> QED BY <1>5, <2>1, <2>2 DEF Fetches
<1> HIDE DEF After
<1>7. build' = [build EXCEPT ![b].fetch = fetch] BY <1>3, <1>4
<1>8. \A time \in fetch.times : build[b].began - MaxMetricAge <= time /\ time <= build[b].began + MaxSkew
  BY <1>1, <1>2, <1>6 DEF BuildOK
<1> QED BY <1>1, <1>6, <1>7, <1>8, AnsweredMoves

\* A time that is told joins those of the fetch only within the tolerances of its beginning.
LEMMA AnalyticsAnsweredKeeps ==
  ASSUME FeedInv, NEW b \in Builds, NEW time \in Told, AnalyticsAnswered(b, time) PROVE FeedInv'
<1>1. BuildOK(build[b]) /\ build[b].at = "metrics" /\ build[b].fetch.awaited > 0 /\ Awaits(b)
      /\ UNCHANGED <<clock, metadata, snapshot, attempt>>
  BY DEF FeedInv, Awaits, AnalyticsAnswered
<1>2. PICK was \in Fetches : was = build[b].fetch BY <1>1 DEF BuildOK
<1>3. time \in Int /\ clock \in Nat /\ build[b].began \in Nat BY <1>1, ToldTimes DEF BuildOK
<1>4. CASE \E what \in SUBSET {"unsafe", "broken"} : Unusual(b, what) BY <1>1, <1>4, UnusualKeeps
<1> DEFINE After(f) == [f EXCEPT !.awaited = @ - 1, !.times = @ \cup {time}, !.received = clock]
<1>5. PICK fetch : fetch = After(build[b].fetch) OBVIOUS
<1>6. fetch = [awaited |-> was.awaited - 1, times |-> was.times \cup {time}, received |-> clock,
               strange |-> was.strange]
  <2>1. fetch = [was EXCEPT !.awaited = @ - 1, !.times = @ \cup {time}, !.received = clock] BY <1>2, <1>5
  <2> QED BY <2>1, Zenon DEF Fetches
<1>7. fetch \in Fetches /\ fetch.times = was.times \cup {time}
  <2>1. was.awaited - 1 \in Nat BY <1>1, <1>2 DEF Fetches
  <2>2. was.times \cup {time} \in SUBSET Int /\ clock \in Int /\ was.strange \in SUBSET {"unsafe", "broken"}
    BY <1>3 DEF Fetches
  <2> QED BY <1>6, <2>1, <2>2 DEF Fetches
<1>8. CASE /\ build' = [build EXCEPT ![b].fetch = fetch]
           /\ ~(time - build[b].began > MaxSkew) /\ ~(time < build[b].began - MaxMetricAge)
  <2>1. build[b].began - MaxMetricAge <= time /\ time <= build[b].began + MaxSkew BY <1>3, <1>8, FeedNumbers, SMTT(40)
  <2>2. \A t \in fetch.times : build[b].began - MaxMetricAge <= t /\ t <= build[b].began + MaxSkew
    BY <1>1, <1>2, <1>7, <2>1 DEF BuildOK
  <2> QED BY <1>1, <1>7, <1>8, <2>2, AnsweredMoves
<1>9. \/ \E what \in SUBSET {"unsafe", "broken"} : Unusual(b, what)
      \/ /\ build' = [build EXCEPT ![b].fetch = fetch]
         /\ ~(time - build[b].began > MaxSkew) /\ ~(time < build[b].began - MaxMetricAge)
  <2>1. CASE time - clock > MaxSkew \/ time - build[b].began > MaxSkew
    BY <2>1 DEF AnalyticsAnswered
  <2>2. CASE ~(time - clock > MaxSkew \/ time - build[b].began > MaxSkew) /\ time < build[b].began - MaxMetricAge
    BY <2>2 DEF AnalyticsAnswered
  <2>3. CASE ~(time - clock > MaxSkew \/ time - build[b].began > MaxSkew) /\ ~(time < build[b].began - MaxMetricAge)
    <3>1. build' = [build EXCEPT ![b].fetch = After(build[b].fetch)] BY <2>3 DEF AnalyticsAnswered
    <3> HIDE DEF After
    <3>2. build' = [build EXCEPT ![b].fetch = fetch] BY <1>5, <3>1
    <3> QED BY <2>3, <3>2
  <2> QED BY <2>1, <2>2, <2>3
<1> QED BY <1>4, <1>8, <1>9

LEMMA AnalyticsFailsKeeps ==
  ASSUME FeedInv, NEW b \in Builds, NEW what \in {{}, {"broken"}}, AnalyticsFails(b, what) PROVE FeedInv'
<1>1. what \in SUBSET {"unsafe", "broken"} OBVIOUS
<1> QED BY <1>1, UnusualKeeps DEF AnalyticsFails

\* The end of a fetch: what is announced is in the cache, or something newer.
LEMMA RefreshedKeeps ==
  ASSUME FeedInv, NEW b \in Builds, build[b].at = "metrics",
         NEW status \in {"CACHED", "UNAVAILABLE", "FAILED", "REFRESHED"}, Refreshed(b, status),
         UNCHANGED <<clock, metadata, attempt>>, CacheInv', GoesOn,
         status \in {"CACHED", "REFRESHED"} =>
           snapshot' # None /\ build[b].price - snapshot'.observed <= MaxContextAge
  PROVE  FeedInv'
<1>1. PICK m \in BuildStates : m = build[b] BY DEF FeedInv
<1>2. BuildOK(m) /\ m.at = "metrics" BY <1>1 DEF FeedInv
<1>3. PICK k : k = [m EXCEPT !.at = "ready", !.refresh = status, !.began = None, !.fetch = None] OBVIOUS
<1>4. build' = [build EXCEPT ![b] = k] BY <1>1, <1>3 DEF Refreshed
<1>5. k \in BuildStates /\ k.at = "ready" /\ k.price = m.price /\ k.closes = m.closes
      /\ k.context = m.context /\ k.refresh = status
  <2>1. k = [at |-> "ready", price |-> m.price, closes |-> m.closes, began |-> None,
             fetch |-> None, refresh |-> status, context |-> m.context]
    BY <1>3, Zenon DEF BuildStates
  <2> QED BY <2>1, FieldsOf DEF BuildStates
<1>6. m.context = None /\ m.price \in Int /\ m.price <= clock BY <1>2 DEF BuildOK
<1>7. clock' = clock OBVIOUS
<1>8. k.refresh \in {"REFRESHED", "CACHED"} =>
        snapshot' # None /\ k.price - snapshot'.observed <= MaxContextAge
  BY <1>1, <1>5
<1>9. BuildOK(k)' BY <1>2, <1>5, <1>6, <1>7, <1>8 DEF BuildOK
<1> QED BY <1>4, <1>5, <1>9, BuildMoves

\* The snapshot put together replaces the cached one unless that is newer.
LEMMA AssembleKeeps == ASSUME FeedInv, NEW b \in Builds, Assemble(b) PROVE FeedInv'
<1>1. BuildOK(build[b]) /\ build[b].at = "metrics" /\ UNCHANGED <<clock, metadata, attempt>>
  BY DEF FeedInv, Assemble
<1>2. PICK was \in Fetches : was = build[b].fetch BY <1>1 DEF BuildOK
<1>3. build[b].price \in Int /\ build[b].began \in Nat /\ snapshot \in Positionings \cup {None}
  BY <1>1 DEF BuildOK, FeedInv, CacheInv
<1>4. \A s \in Positionings \cup {None} : ContextFor(s, Decision(b)) # None =>
        s # None /\ build[b].price - s.observed <= MaxContextAge
  BY <1>3, ContextOf, FeedNumbers DEF Decision
<1>5. ASSUME UNCHANGED snapshot, NEW status \in {InCache(b), "FAILED"}, Refreshed(b, status) PROVE FeedInv'
  <2>1. status \in {"CACHED", "UNAVAILABLE", "FAILED", "REFRESHED"} BY DEF InCache
  <2>2. status \in {"CACHED", "REFRESHED"} =>
          snapshot' # None /\ build[b].price - snapshot'.observed <= MaxContextAge
    BY <1>3, <1>4, <1>5 DEF InCache
  <2>3. CacheInv' /\ GoesOn BY <1>1, <1>5, FeedAssumption DEF FeedInv, CacheInv, GoesOn
  <2> QED BY <1>1, <1>5, <2>1, <2>2, <2>3, RefreshedKeeps
<1> DEFINE s == [observed |-> Max(was.times), oldest |-> Min(was.times)]
           status == IF ContextFor(snapshot', Decision(b)) # None THEN "REFRESHED" ELSE "UNAVAILABLE"
<1>6. CASE was.times # {} /\ snapshot' = Newer(s) /\ Refreshed(b, status)
  <2> DEFINE low == build[b].began - MaxMetricAge
             high == build[b].began + MaxSkew
  <2>1. low \in Int /\ high \in Int /\ high - low = MaxMetricAge + MaxSkew /\ was.times \subseteq Int
    BY <1>3, FeedNumbers, SMTT(40) DEF Fetches
  <2>2. \A n \in was.times : low <= n /\ n <= high BY <1>1, <1>2 DEF BuildOK
  <2> HIDE DEF low, high
  <2>3. Min(was.times) \in was.times /\ Max(was.times) \in was.times
        /\ \A n \in was.times : Min(was.times) <= n /\ n <= Max(was.times)
    BY <1>6, <2>1, <2>2, BoundedExtremes
  <2>4. s \in Positionings /\ s.oldest <= s.observed /\ s.observed - s.oldest <= MaxMetricAge + MaxSkew
    <3> DEFINE first == Min(was.times)
               final == Max(was.times)
    <3>1. first \in Int /\ final \in Int /\ first <= final /\ low <= first /\ final <= high
      BY <2>1, <2>2, <2>3
    <3>2. s = [observed |-> final, oldest |-> first] OBVIOUS
    <3> HIDE DEF first, final, s
    <3> QED BY <2>1, <3>1, <3>2, FeedNumbers DEF Positionings
  <2> HIDE DEF s, status
  <2>5. snapshot' \in {s, snapshot} /\ snapshot' # None
        /\ (snapshot # None => snapshot.observed <= snapshot'.observed)
        /\ snapshot' \in Positionings
    BY <1>3, <1>6, <2>4, FeedNumbers DEF Newer, Positionings
  <2>6. CacheInv' /\ GoesOn
    BY <1>1, <2>4, <2>5, FeedAssumption DEF FeedInv, CacheInv, GoesOn
  <2>7. status \in {"CACHED", "UNAVAILABLE", "FAILED", "REFRESHED"} BY DEF status
  <2>8. status \in {"CACHED", "REFRESHED"} =>
          snapshot' # None /\ build[b].price - snapshot'.observed <= MaxContextAge
    BY <1>4, <2>5 DEF status
  <2> QED BY <1>1, <1>6, <2>6, <2>7, <2>8, RefreshedKeeps
<1>7. \/ UNCHANGED snapshot /\ \E status1 \in {InCache(b), "FAILED"} : Refreshed(b, status1)
      \/ was.times # {} /\ snapshot' = Newer(s) /\ Refreshed(b, status)
  BY <1>2 DEF Assemble
<1> QED BY <1>5, <1>6, <1>7

\* When it is consulted, the cache gives a context of the decision's time; it has none for an
\* announced specialist only if what it holds was observed after the decision.
LEMMA ConsultKeeps == ASSUME FeedInv, NEW b \in Builds, Consult(b) PROVE FeedInv'
<1>1. CacheInv' /\ GoesOn BY FeedAssumption DEF Consult, FeedInv, CacheInv, GoesOn
<1>2. PICK m \in BuildStates : m = build[b] BY DEF FeedInv
<1>3. BuildOK(m) /\ m.at = "ready" /\ m.price \in Int /\ m.price <= clock
  BY <1>2 DEF FeedInv, Consult, BuildOK
<1>4. PICK context : context = ContextFor(snapshot, Decision(b)) OBVIOUS
<1>5. context \in Positionings \cup {None} BY <1>4 DEF ContextFor, FeedInv, CacheInv
<1>6. context # None =>
        /\ context = snapshot /\ context \in Positionings
        /\ context.observed <= m.price /\ m.price - context.observed <= MaxContextAge
  BY <1>2, <1>3, <1>4, ContextOf DEF Decision, FeedInv, CacheInv
<1>7. context # None => m.price - context.oldest <= MaxContextAge + MaxMetricAge + MaxSkew
  <2> SUFFICES ASSUME context # None PROVE m.price - context.oldest <= MaxContextAge + MaxMetricAge + MaxSkew
    OBVIOUS
  <2>1. context.observed - context.oldest <= MaxMetricAge + MaxSkew BY <1>6 DEF FeedInv, CacheInv
  <2>2. context.observed \in Int /\ context.oldest \in Int BY <1>6 DEF Positionings
  <2> QED BY <1>3, <1>6, <2>1, <2>2, FeedNumbers
<1>8. m.refresh \in {"REFRESHED", "CACHED"} =>
        snapshot # None /\ m.price - snapshot.observed <= MaxContextAge
        /\ (context = None => snapshot.observed > m.price)
  <2> SUFFICES ASSUME m.refresh \in {"REFRESHED", "CACHED"}
               PROVE  snapshot # None /\ m.price - snapshot.observed <= MaxContextAge
                      /\ (context = None => snapshot.observed > m.price)
    OBVIOUS
  <2>1. snapshot # None /\ m.price - snapshot.observed <= MaxContextAge BY <1>3 DEF BuildOK
  <2>2. snapshot \in Positionings /\ snapshot.observed \in Int BY <2>1 DEF FeedInv, CacheInv, Positionings
  <2>3. context = None => ~(snapshot.observed <= m.price) BY <1>2, <1>4, <2>1 DEF ContextFor, Decision
  <2> QED BY <1>3, <2>1, <2>2, <2>3
<1>9. PICK k : k = [m EXCEPT !.at = "consulted", !.context = context] OBVIOUS
<1>10. build' = [build EXCEPT ![b] = k] BY <1>2, <1>4, <1>9 DEF Consult
<1>11. k \in BuildStates /\ k.at = "consulted" /\ k.price = m.price /\ k.closes = m.closes
       /\ k.context = context /\ k.refresh = m.refresh
  <2>1. k = [at |-> "consulted", price |-> m.price, closes |-> m.closes, began |-> m.began,
             fetch |-> m.fetch, refresh |-> m.refresh, context |-> context]
    BY <1>9, Zenon DEF BuildStates
  <2> QED BY <1>5, <2>1, FieldsOf DEF BuildStates, AtRest
<1>12. clock' = clock /\ snapshot' = snapshot BY DEF Consult
<1>13. BuildOK(k)' BY <1>3, <1>6, <1>7, <1>8, <1>11, <1>12 DEF BuildOK
<1> QED BY <1>1, <1>10, <1>11, <1>13, BuildMoves

\* Time, and steps of others, leave every build as it was.
LEMMA FeedTimeKeeps == ASSUME FeedInv, TimeGoesBy \/ UNCHANGED feedVars PROVE FeedInv'
<1>1. CacheInv' /\ GoesOn BY FeedAssumption, SMTT(40) DEF TimeGoesBy, feedVars, FeedInv, CacheInv, GoesOn
<1>2. build' = build BY DEF TimeGoesBy, feedVars
<1>3. (\A b \in Builds : BuildOK(build[b]))'
  <2> SUFFICES ASSUME NEW b \in Builds PROVE BuildOK(build[b])'
    OBVIOUS
  <2>1. PICK m \in BuildStates : m = build[b] BY DEF FeedInv
  <2>2. BuildOK(m) BY <2>1 DEF FeedInv
  <2>3. BuildOK(m)' BY <1>1, <2>2, BuildStays DEF FeedInv
  <2> QED BY <1>2, <2>1, <2>3 DEF BuildOK
<1> QED BY <1>1, <1>2, <1>3 DEF FeedInv, RefreshesApart

LEMMA FeedKeeps == ASSUME FeedInv, [FeedNext]_feedVars PROVE FeedInv'
<1>1. ASSUME NEW b \in Builds, Proceeds(b) PROVE FeedInv'
  BY <1>1, PairsAnsweredKeeps, TradeAnsweredKeeps, CandlesAnsweredKeeps, SpotFailsKeeps, RefreshKeeps,
     AnalyticsAnsweredKeeps, AnalyticsFailsKeeps, AssembleKeeps, ConsultKeeps DEF Proceeds
<1> QED BY <1>1, StartBuildKeeps, FeedTimeKeeps DEF FeedNext

LEMMA FeedStart == FeedInit => FeedInv
<1> SUFFICES ASSUME FeedInit PROVE FeedInv OBVIOUS
<1>1. CacheInv BY FeedAssumption DEF FeedInit, CacheInv
<1>2. \A b \in Builds : build[b] = NoBuild BY DEF FeedInit
<1>3. build \in [Builds -> BuildStates] BY NoBuildIsOne DEF FeedInit
<1>4. \A b \in Builds : BuildOK(build[b]) BY <1>1, <1>2, NoBuildIsOne
<1> QED BY <1>1, <1>2, <1>3, <1>4, NoBuildIsOne DEF FeedInv, RefreshesApart

\* What decisions are told of the spot market and of derivatives is of their time, whichever
\* build fetched it and however builds overlap, whatever the tolerances; and requests leave apart.
THEOREM FeedAlwaysHolds == ClientSpec /\ FeedSpec => []FeedHolds
<1>1. FeedInv => FeedTypeOK /\ PriceWithinCandles /\ RefreshesApart /\ MetricsOfTheirTime /\ AnnouncedOrOvertaken
  <2> SUFFICES ASSUME FeedInv
               PROVE  FeedTypeOK /\ PriceWithinCandles /\ MetricsOfTheirTime /\ AnnouncedOrOvertaken
    BY DEF FeedInv
  <2>1. FeedTypeOK BY DEF FeedInv, CacheInv, FeedTypeOK, BuildStates
  <2>2. PriceWithinCandles BY DEF FeedInv, BuildOK, PriceWithinCandles
  <2>3. MetricsOfTheirTime BY DEF FeedInv, BuildOK, MetricsOfTheirTime, Decision
  <2>4. AnnouncedOrOvertaken BY DEF FeedInv, BuildOK, AnnouncedOrOvertaken, Decision
  <2> QED BY <2>1, <2>2, <2>3, <2>4
<1>2. FeedSpec => [](FeedTypeOK /\ PriceWithinCandles /\ RefreshesApart /\ MetricsOfTheirTime /\ AnnouncedOrOvertaken)
  BY <1>1, FeedStart, FeedKeeps, PTL DEF FeedSpec
<1>3. (ClientTypeOK /\ RequestsApart)
      /\ (FeedTypeOK /\ PriceWithinCandles /\ RefreshesApart /\ MetricsOfTheirTime /\ AnnouncedOrOvertaken)
      => FeedHolds
  BY DEF FeedHolds
<1> QED BY <1>2, <1>3, ClientHolds, PTL

---------------------------------------------------------------------------
(* Swings.  A turn of the loop is a function of what it holds and of the     *)
(* history: the lemmas are about any of them.                                *)

Sides == {"HIGH", "LOW"}
Extremes == [kind : Sides, index : Nat, price : Nat, atr : Nat]
KnownPivots == [kind : Sides, index : Nat, price : Nat, atr : Nat, confirmed : Nat]
Swings ==
  [high : Extremes \cup {None}, low : Extremes \cup {None}, candidate : Extremes \cup {None}, pivots : Seq(KnownPivots)]
Closed == {bar \in Candle : bar.low <= bar.high}
Histories == {hs \in Seq(Candle) : \A i \in 1 .. Len(hs) : hs[i].low <= hs[i].high}

\* A price is beyond a pivot of the other side by the reversal the pivot was confirmed with.
Past(kind, price, p) ==
  IF kind = "LOW" THEN price <= p.price - Multiple * p.atr ELSE price >= p.price + Multiple * p.atr

PivotsOK(ps, hs) ==
  \A i \in 1 .. Len(ps) :
    /\ ps[i].index \in 1 .. Len(hs) /\ ps[i].confirmed \in 1 .. Len(hs) /\ ps[i].index < ps[i].confirmed
    /\ i > 1 => /\ ps[i].kind # ps[i - 1].kind /\ ps[i].index >= ps[i - 1].confirmed
                /\ Past(ps[i].kind, ps[i].price, ps[i - 1])
    /\ i > 2 => \A x \in ps[i - 1].index + 1 .. ps[i].confirmed : ~Beyond(ps[i].kind, hs[x], ps[i].price)

\* The candidate after the last pivot is beyond it; no candle since has gone farther or has
\* reversed it, and from the second leg on none since the last pivot has gone farther.
NextOK(c, ps, hs) ==
  LET last == ps[Len(ps)] IN
  /\ Len(ps) >= 1 /\ c.index \in last.confirmed .. Len(hs)
  /\ c.kind # last.kind /\ Past(c.kind, c.price, last)
  /\ \A x \in c.index + 1 .. Len(hs) : ~Beyond(c.kind, hs[x], c.price) /\ ~Reverses(c, hs[x])
  /\ Len(ps) >= 2 => \A x \in last.index + 1 .. Len(hs) : ~Beyond(c.kind, hs[x], c.price)

ZigOK(z, hs) ==
  /\ z \in Swings /\ hs \in Histories
  /\ PivotsOK(z.pivots, hs)
  /\ z.high = None => z.low = None /\ z.candidate = None /\ z.pivots = <<>>
  /\ z.high # None => /\ z.low # None /\ z.high.kind = "HIGH" /\ z.low.kind = "LOW"
                      /\ z.high.index \in 1 .. Len(hs) /\ z.low.index \in 1 .. Len(hs)
                      /\ \E i \in 1 .. Len(hs) : hs[i].atr # None
  /\ z.candidate = None => z.pivots = <<>>
  /\ z.candidate # None => z.high # None /\ NextOK(z.candidate, z.pivots, hs)

LEMMA HistoryGrows ==
  ASSUME NEW hs \in Histories, NEW bar \in Closed
  PROVE  /\ Append(hs, bar) \in Histories /\ Len(hs) \in Nat /\ Len(Append(hs, bar)) = Len(hs) + 1
         /\ \A i \in 1 .. Len(hs) : Append(hs, bar)[i] = hs[i] /\ hs[i] \in Closed
         /\ Append(hs, bar)[Len(hs) + 1] = bar
<1> DEFINE more == Append(hs, bar)
<1>1. /\ more \in Seq(Candle) /\ Len(hs) \in Nat /\ Len(more) = Len(hs) + 1 /\ more[Len(hs) + 1] = bar
      /\ \A i \in 1 .. Len(hs) : more[i] = hs[i] /\ hs[i] \in Candle /\ hs[i].low <= hs[i].high
  BY DEF Histories, Closed
<1> HIDE DEF more
<1>2. bar.low <= bar.high BY DEF Closed
<1>3. \A i \in 1 .. Len(more) : more[i].low <= more[i].high
  <2>1. \A i \in 1 .. Len(more) : i \in 1 .. Len(hs) \/ i = Len(hs) + 1 BY <1>1
  <2> QED BY <1>1, <1>2, <2>1
<1>4. \A i \in 1 .. Len(hs) : hs[i] \in Closed BY <1>1 DEF Closed
<1>5. more \in Histories BY <1>1, <1>3 DEF Histories
<1> QED BY <1>1, <1>4, <1>5 DEF more

\* What is said of pivots is said of candles up to their confirmation.
LEMMA PivotsStay ==
  ASSUME NEW hs \in Histories, NEW bar \in Closed, NEW ps \in Seq(KnownPivots), PivotsOK(ps, hs)
  PROVE  PivotsOK(ps, Append(hs, bar))
<1>1. PICK more \in Histories : more = Append(hs, bar) BY HistoryGrows
<1>2. Len(hs) \in Nat /\ Len(more) = Len(hs) + 1 /\ \A i \in 1 .. Len(hs) : more[i] = hs[i]
  BY <1>1, HistoryGrows
<1> SUFFICES ASSUME NEW i \in 1 .. Len(ps)
             PROVE  /\ ps[i].index \in 1 .. Len(more) /\ ps[i].confirmed \in 1 .. Len(more)
                    /\ i > 2 => \A x \in ps[i - 1].index + 1 .. ps[i].confirmed :
                                  ~Beyond(ps[i].kind, more[x], ps[i].price)
  BY <1>1 DEF PivotsOK
<1>3. ps[i].index \in 1 .. Len(hs) /\ ps[i].confirmed \in 1 .. Len(hs) BY DEF PivotsOK
<1>4. ASSUME i > 2, NEW x \in ps[i - 1].index + 1 .. ps[i].confirmed
      PROVE  ~Beyond(ps[i].kind, more[x], ps[i].price)
  <2>1. ps[i - 1] \in KnownPivots /\ i - 1 \in 1 .. Len(ps) BY <1>4
  <2>2. ps[i - 1].index \in 1 .. Len(hs) BY <2>1 DEF PivotsOK
  <2>3. x \in 1 .. Len(hs) BY <1>3, <2>2
  <2>4. ~Beyond(ps[i].kind, hs[x], ps[i].price) BY <1>4 DEF PivotsOK
  <2> QED BY <1>2, <2>3, <2>4
<1> QED BY <1>2, <1>3, <1>4, SMTT(40)

\* A pivot joins those before it.
LEMMA PivotJoins ==
  ASSUME NEW hs, NEW ps \in Seq(KnownPivots), PivotsOK(ps, hs), NEW p \in KnownPivots,
         p.index \in 1 .. Len(hs), p.confirmed \in 1 .. Len(hs), p.index < p.confirmed,
         Len(ps) >= 1 =>
           /\ p.kind # ps[Len(ps)].kind /\ p.index >= ps[Len(ps)].confirmed
           /\ Past(p.kind, p.price, ps[Len(ps)]),
         Len(ps) >= 2 => \A x \in ps[Len(ps)].index + 1 .. p.confirmed : ~Beyond(p.kind, hs[x], p.price)
  PROVE  PivotsOK(Append(ps, p), hs)
<1>1. PICK qs : qs = Append(ps, p) OBVIOUS
<1>2. /\ Len(ps) \in Nat /\ Len(qs) = Len(ps) + 1 /\ qs[Len(ps) + 1] = p
      /\ \A i \in 1 .. Len(ps) : qs[i] = ps[i]
  BY <1>1
<1> SUFFICES ASSUME NEW i \in 1 .. Len(qs)
             PROVE  /\ qs[i].index \in 1 .. Len(hs) /\ qs[i].confirmed \in 1 .. Len(hs)
                    /\ qs[i].index < qs[i].confirmed
                    /\ i > 1 => /\ qs[i].kind # qs[i - 1].kind /\ qs[i].index >= qs[i - 1].confirmed
                                /\ Past(qs[i].kind, qs[i].price, qs[i - 1])
                    /\ i > 2 => \A x \in qs[i - 1].index + 1 .. qs[i].confirmed :
                                  ~Beyond(qs[i].kind, hs[x], qs[i].price)
  BY <1>1 DEF PivotsOK
<1>3. CASE i \in 1 .. Len(ps)
  <2>1. qs[i] = ps[i] /\ (i > 1 => qs[i - 1] = ps[i - 1]) BY <1>2, <1>3
  <2>2. /\ ps[i].index \in 1 .. Len(hs) /\ ps[i].confirmed \in 1 .. Len(hs) /\ ps[i].index < ps[i].confirmed
        /\ i > 1 => /\ ps[i].kind # ps[i - 1].kind /\ ps[i].index >= ps[i - 1].confirmed
                    /\ Past(ps[i].kind, ps[i].price, ps[i - 1])
        /\ i > 2 => \A x \in ps[i - 1].index + 1 .. ps[i].confirmed : ~Beyond(ps[i].kind, hs[x], ps[i].price)
    BY <1>3, Zenon DEF PivotsOK
  <2>3. i > 2 => i > 1 BY <1>2, <1>3
  <2> QED BY <2>1, <2>2, <2>3
<1>4. CASE i = Len(ps) + 1
  <2>1. qs[i] = p /\ (i > 1 => qs[i - 1] = ps[Len(ps)] /\ Len(ps) >= 1) /\ (i > 2 => Len(ps) >= 2)
    BY <1>2, <1>4
  <2> QED BY <1>4, <2>1
<1> QED BY <1>2, <1>3, <1>4

\* The price a candle gives a candidate of a side.
Reached(kind, bar) == IF kind = "HIGH" THEN bar.high ELSE bar.low

LEMMA ReachOf == ASSUME NEW atr \in Nat PROVE Multiple * atr \in Nat
BY SeriesAssumption

LEMMA BarNumbers ==
  ASSUME NEW bar \in Closed
  PROVE  bar.low \in Nat /\ bar.high \in Nat /\ bar.low <= bar.high /\ (bar.atr # None => bar.atr \in Nat)
         /\ \A kind \in Sides : Reached(kind, bar) \in Nat /\ ~Beyond(kind, bar, Reached(kind, bar))
<1>1. bar.low \in Nat /\ bar.high \in Nat /\ bar.low <= bar.high /\ (bar.atr # None => bar.atr \in Nat)
  BY DEF Closed, Candle
<1> QED BY <1>1 DEF Sides, Reached, Beyond

LEMMA CandidateIs ==
  ASSUME NEW kind \in Sides, NEW i \in Nat, NEW bar \in Closed, bar.atr # None
  PROVE  /\ Candidate(kind, i, bar) \in Extremes
         /\ Candidate(kind, i, bar).kind = kind /\ Candidate(kind, i, bar).index = i
         /\ Candidate(kind, i, bar).price = Reached(kind, bar) /\ Candidate(kind, i, bar).atr = bar.atr
BY BarNumbers DEF Candidate, Extremes, Reached

\* The candle that reverses a candidate is beyond it by the reversal, and no candle that did
\* not reverse it has gone farther.
LEMMA ReversalIsPast ==
  ASSUME NEW c \in Extremes, NEW bar \in Closed, Reverses(c, bar), NEW p, p.price = c.price, p.atr = c.atr
  PROVE  /\ Opposite(c.kind) \in Sides /\ Opposite(c.kind) # c.kind
         /\ Past(Opposite(c.kind), Reached(Opposite(c.kind), bar), p)
         /\ \A other \in Closed : ~Reverses(c, other) =>
              ~Beyond(Opposite(c.kind), other, Reached(Opposite(c.kind), bar))
<1>1. c.price \in Nat /\ Multiple * c.atr \in Nat /\ c.kind \in Sides BY ReachOf DEF Extremes
<1>2. PICK reach \in Nat : reach = Multiple * c.atr BY <1>1
<1>3. CASE c.kind = "HIGH"
  <2>1. bar.low <= c.price - reach BY <1>2, <1>3 DEF Reverses
  <2>2. \A other \in Closed : ~Reverses(c, other) => ~(other.low <= c.price - reach)
    BY <1>2, <1>3 DEF Reverses
  <2>3. \A other \in Closed : ~Reverses(c, other) => ~(other.low < bar.low)
    BY <1>1, <2>1, <2>2, BarNumbers
  <2> QED BY <1>2, <1>3, <2>1, <2>3 DEF Opposite, Past, Reached, Beyond, Sides
<1>4. CASE c.kind = "LOW"
  <2>1. bar.high >= c.price + reach BY <1>2, <1>4 DEF Reverses
  <2>2. \A other \in Closed : ~Reverses(c, other) => ~(other.high >= c.price + reach)
    BY <1>2, <1>4 DEF Reverses
  <2>3. \A other \in Closed : ~Reverses(c, other) => ~(other.high > bar.high)
    BY <1>1, <2>1, <2>2, BarNumbers
  <2> QED BY <1>2, <1>4, <2>1, <2>3 DEF Opposite, Past, Reached, Beyond, Sides
<1> QED BY <1>1, <1>3, <1>4 DEF Sides

\* What goes farther than a price is beyond whatever that is beyond, and is not passed by
\* what did not pass it.
LEMMA FartherStillPast ==
  ASSUME NEW kind \in Sides, NEW price \in Nat, NEW bar \in Closed, Beyond(kind, bar, price)
  PROVE  /\ \A p \in KnownPivots : Past(kind, price, p) => Past(kind, Reached(kind, bar), p)
         /\ \A other \in Closed : ~Beyond(kind, other, price) => ~Beyond(kind, other, Reached(kind, bar))
<1>1. \A p \in KnownPivots : p.price \in Nat /\ Multiple * p.atr \in Nat BY ReachOf DEF KnownPivots
<1>2. ASSUME NEW p \in KnownPivots, Past(kind, price, p) PROVE Past(kind, Reached(kind, bar), p)
  <2>1. PICK reach \in Nat : reach = Multiple * p.atr BY <1>1
  <2> QED BY <1>1, <1>2, <2>1, BarNumbers DEF Past, Reached, Beyond, Sides
<1>3. ASSUME NEW other \in Closed, ~Beyond(kind, other, price) PROVE ~Beyond(kind, other, Reached(kind, bar))
  BY <1>3, BarNumbers DEF Reached, Beyond, Sides
<1> QED BY <1>2, <1>3

\* A candidate that a candle reverses becomes a pivot, and the candle the next candidate.
LEMMA ConfirmedJoins ==
  ASSUME NEW hs \in Histories, NEW bar \in Closed, bar.atr # None, NEW z \in Swings, PivotsOK(z.pivots, hs),
         NEW c \in Extremes, c.index \in 1 .. Len(hs), Reverses(c, bar),
         Len(z.pivots) >= 1 => NextOK(c, z.pivots, hs) /\ ~Beyond(c.kind, bar, c.price),
         NEW y, y = Confirmed(z, c, Len(hs) + 1, bar)
  PROVE  /\ y \in Swings /\ y.high = z.high /\ y.low = z.low /\ y.candidate # None
         /\ PivotsOK(y.pivots, Append(hs, bar)) /\ NextOK(y.candidate, y.pivots, Append(hs, bar))
<1>1. PICK more \in Histories : more = Append(hs, bar) BY HistoryGrows
<1>2. /\ Len(hs) \in Nat /\ Len(more) = Len(hs) + 1 /\ more[Len(hs) + 1] = bar
      /\ \A i \in 1 .. Len(hs) : more[i] = hs[i] /\ hs[i] \in Closed
  BY <1>1, HistoryGrows
<1>3. PICK ps \in Seq(KnownPivots) : ps = z.pivots BY DEF Swings
<1>4. PICK p : p = Pivot(c, Len(hs) + 1) OBVIOUS
<1>5. /\ p \in KnownPivots /\ p.kind = c.kind /\ p.index = c.index /\ p.price = c.price /\ p.atr = c.atr
      /\ p.confirmed = Len(hs) + 1
  BY <1>2, <1>4 DEF Pivot, KnownPivots, Extremes
<1>6. PICK qs \in Seq(KnownPivots) : qs = Append(ps, p) BY <1>5, AppendProperties
<1>7. Len(ps) \in Nat /\ Len(qs) = Len(ps) + 1 /\ qs[Len(qs)] = p BY <1>6
<1>8. Len(ps) >= 1 => ps[Len(ps)] \in KnownPivots BY <1>7
<1>9. PICK kind \in Sides : kind = Opposite(c.kind) BY ReversalIsPast
<1>10. PICK next : next = Candidate(kind, Len(hs) + 1, bar) OBVIOUS
<1>11. next \in Extremes /\ next.kind = kind /\ next.index = Len(hs) + 1 /\ next.price = Reached(kind, bar)
  BY <1>2, <1>10, CandidateIs
<1>12. y = [high |-> z.high, low |-> z.low, candidate |-> next, pivots |-> qs]
  BY <1>3, <1>4, <1>6, <1>9, <1>10, Zenon DEF Confirmed, Swings
<1>13. y \in Swings /\ y.high = z.high /\ y.low = z.low /\ y.candidate = next /\ y.pivots = qs /\ next # None
  <2>1. z.high \in Extremes \cup {None} /\ z.low \in Extremes \cup {None} BY DEF Swings
  <2>2. next # None BY <1>11, SeriesAssumption DEF Extremes, Sides
  <2>3. next \in Extremes \cup {None} BY <1>11
  <2>4. y \in Swings BY <1>12, <2>1, <2>3 DEF Swings
  <2> QED BY <1>12, <2>2, <2>4
<1>14. PivotsOK(ps, more) BY <1>1, <1>3, PivotsStay
<1>15. Len(ps) >= 1 => NextOK(c, ps, hs) /\ ~Beyond(c.kind, bar, c.price) BY <1>3
<1>16. PivotsOK(qs, more)
  <2>1. p.index \in 1 .. Len(more) /\ p.confirmed \in 1 .. Len(more) /\ p.index < p.confirmed
    BY <1>2, <1>5
  <2>2. Len(ps) >= 1 => /\ p.kind # ps[Len(ps)].kind /\ p.index >= ps[Len(ps)].confirmed
                        /\ Past(p.kind, p.price, ps[Len(ps)])
    <3> SUFFICES ASSUME Len(ps) >= 1
                 PROVE  /\ p.kind # ps[Len(ps)].kind /\ p.index >= ps[Len(ps)].confirmed
                        /\ Past(p.kind, p.price, ps[Len(ps)])
      OBVIOUS
    <3>1. ps[Len(ps)].confirmed \in Nat BY <1>8 DEF KnownPivots
    <3> QED BY <1>2, <1>5, <1>15, <3>1 DEF NextOK
  <2>3. ASSUME Len(ps) >= 2, NEW x \in ps[Len(ps)].index + 1 .. p.confirmed
        PROVE  ~Beyond(p.kind, more[x], p.price)
    <3>1. ps[Len(ps)].index \in Nat BY <1>8, <2>3, SMTT(20) DEF KnownPivots
    <3>2. CASE x = Len(hs) + 1 BY <1>2, <1>5, <1>15, <2>3, <3>2
    <3>3. CASE x # Len(hs) + 1
      <4>1. x \in ps[Len(ps)].index + 1 .. Len(hs) /\ x \in 1 .. Len(hs) BY <1>2, <1>5, <2>3, <3>1, <3>3
      <4>2. ~Beyond(c.kind, hs[x], c.price) BY <1>7, <1>15, <2>3, <4>1 DEF NextOK
      <4> QED BY <1>2, <1>5, <4>1, <4>2
    <3> QED BY <3>2, <3>3
  <2> QED BY <1>5, <1>6, <1>14, <2>1, <2>2, <2>3, PivotJoins
<1>17. NextOK(next, qs, more)
  <2>1. next.kind # p.kind /\ Past(next.kind, next.price, p) BY <1>5, <1>9, <1>11, ReversalIsPast
  <2>2. next.index \in p.confirmed .. Len(more) BY <1>2, <1>5, <1>11
  <2>3. \A x \in next.index + 1 .. Len(more) : FALSE BY <1>2, <1>11
  <2>4. ASSUME Len(qs) >= 2, NEW x \in p.index + 1 .. Len(more) PROVE ~Beyond(next.kind, more[x], next.price)
    <3>1. c.index \in Nat BY DEF Extremes
    <3>2. CASE x = Len(hs) + 1 BY <1>2, <1>11, <3>2, BarNumbers
    <3>3. CASE x # Len(hs) + 1
      <4>1. x \in c.index + 1 .. Len(hs) /\ x \in 1 .. Len(hs) BY <1>2, <1>5, <2>4, <3>1, <3>3
      <4>2. ~Reverses(c, hs[x]) BY <1>7, <1>15, <2>4, <4>1 DEF NextOK
      <4> QED BY <1>2, <1>9, <1>11, <4>1, <4>2, ReversalIsPast
    <3> QED BY <3>2, <3>3
  <2> QED BY <1>7, <2>1, <2>2, <2>3, <2>4 DEF NextOK
<1> QED BY <1>1, <1>13, <1>16, <1>17

\* Without a range there is no extreme yet: nothing is kept of the candle.
LEMMA PassedOver ==
  ASSUME NEW hs \in Histories, NEW bar \in Closed, NEW z, ZigOK(z, hs), bar.atr = None,
         \A i \in 1 .. Len(hs) : hs[i].atr = None
  PROVE  ZigOK(Turn(z, Len(hs) + 1, bar), Append(hs, bar))
<1>1. PICK more \in Histories : more = Append(hs, bar) BY HistoryGrows
<1>2. Turn(z, Len(hs) + 1, bar) = z BY DEF Turn
<1>3. z.high = None /\ z.low = None /\ z.candidate = None /\ z.pivots = <<>> /\ z \in Swings
  BY DEF ZigOK
<1>4. PivotsOK(z.pivots, more) BY <1>3 DEF PivotsOK
<1> QED BY <1>1, <1>2, <1>3, <1>4 DEF ZigOK

LEMMA FirstReadyKeeps ==
  ASSUME NEW hs \in Histories, NEW bar \in Closed, NEW z, ZigOK(z, hs), bar.atr # None, z.high = None
  PROVE  ZigOK(FirstReady(z, Len(hs) + 1, bar), Append(hs, bar))
<1>1. PICK more \in Histories : more = Append(hs, bar) BY HistoryGrows
<1>2. Len(hs) \in Nat /\ Len(more) = Len(hs) + 1 /\ more[Len(hs) + 1] = bar BY <1>1, HistoryGrows
<1>3. z.candidate = None /\ z.pivots = <<>> /\ z \in Swings BY DEF ZigOK
<1>4. PICK high : high = Candidate("HIGH", Len(hs) + 1, bar) OBVIOUS
<1>5. PICK low : low = Candidate("LOW", Len(hs) + 1, bar) OBVIOUS
<1>6. /\ high \in Extremes /\ high.kind = "HIGH" /\ high.index = Len(hs) + 1
      /\ low \in Extremes /\ low.kind = "LOW" /\ low.index = Len(hs) + 1
  BY <1>2, <1>4, <1>5, CandidateIs DEF Sides
<1>7. high # None /\ low # None BY <1>6, SeriesAssumption DEF Extremes, Sides
<1>8. PICK y : y = FirstReady(z, Len(hs) + 1, bar) OBVIOUS
<1>9. y = [high |-> high, low |-> low, candidate |-> z.candidate, pivots |-> z.pivots]
  BY <1>3, <1>4, <1>5, <1>8, Zenon DEF FirstReady, Swings
<1>10. y \in Swings /\ y.high = high /\ y.low = low /\ y.candidate = None /\ y.pivots = <<>>
  <2>1. high \in Extremes \cup {None} /\ low \in Extremes \cup {None} /\ z.pivots \in Seq(KnownPivots)
        /\ z.candidate \in Extremes \cup {None}
    BY <1>3, <1>6 DEF Swings
  <2>2. y \in Swings BY <1>9, <2>1 DEF Swings
  <2> QED BY <1>3, <1>9, <2>2
<1>11. PivotsOK(y.pivots, more) BY <1>10 DEF PivotsOK
<1>12. high.index \in 1 .. Len(more) /\ low.index \in 1 .. Len(more) /\ more[Len(more)].atr # None
       /\ Len(more) \in 1 .. Len(more)
  BY <1>2, <1>6
<1> QED BY <1>1, <1>6, <1>7, <1>8, <1>10, <1>11, <1>12 DEF ZigOK

\* Before the first pivot both extremes are followed; the one a candle reverses becomes it.
LEMMA UndirectedKeeps ==
  ASSUME NEW hs \in Histories, NEW bar \in Closed, NEW z, ZigOK(z, hs), bar.atr # None,
         z.high # None, z.candidate = None
  PROVE  ZigOK(Undirected(z, Len(hs) + 1, bar), Append(hs, bar))
<1>1. PICK more \in Histories : more = Append(hs, bar) BY HistoryGrows
<1>2. Len(hs) \in Nat /\ Len(more) = Len(hs) + 1 /\ more[Len(hs) + 1] = bar BY <1>1, HistoryGrows
<1>3. /\ z.pivots = <<>> /\ z \in Swings /\ z.low # None /\ z.high.kind = "HIGH" /\ z.low.kind = "LOW"
      /\ z.high.index \in 1 .. Len(hs) /\ z.low.index \in 1 .. Len(hs)
  BY DEF ZigOK
<1>4. z.high \in Extremes /\ z.low \in Extremes BY <1>3 DEF Swings
<1> DEFINE newHigh == Beyond("HIGH", bar, z.high.price)
           newLow == Beyond("LOW", bar, z.low.price)
           i == Len(hs) + 1
<1>5. PICK high : high = IF newHigh THEN Candidate("HIGH", i, bar) ELSE z.high OBVIOUS
<1>6. PICK low : low = IF newLow THEN Candidate("LOW", i, bar) ELSE z.low OBVIOUS
<1>7. /\ high \in Extremes /\ high.kind = "HIGH" /\ (high.index = Len(hs) + 1 \/ high = z.high)
      /\ low \in Extremes /\ low.kind = "LOW" /\ (low.index = Len(hs) + 1 \/ low = z.low)
  BY <1>2, <1>3, <1>4, <1>5, <1>6, CandidateIs DEF Sides
<1>8. high # None /\ low # None BY <1>7, SeriesAssumption DEF Extremes, Sides
<1>9. high.index \in 1 .. Len(more) /\ low.index \in 1 .. Len(more) BY <1>2, <1>3, <1>7
<1>10. PICK y : y = [z EXCEPT !.high = high, !.low = low] OBVIOUS
<1>11. y = [high |-> high, low |-> low, candidate |-> z.candidate, pivots |-> z.pivots]
  BY <1>3, <1>10, Zenon DEF Swings
<1>12. y \in Swings /\ y.high = high /\ y.low = low /\ y.candidate = None /\ y.pivots = <<>>
  <2>1. high \in Extremes \cup {None} /\ low \in Extremes \cup {None} /\ z.pivots \in Seq(KnownPivots)
        /\ z.candidate \in Extremes \cup {None}
    BY <1>3, <1>7 DEF Swings
  <2>2. y \in Swings BY <1>11, <2>1 DEF Swings
  <2> QED BY <1>3, <1>11, <2>2
<1>13. PivotsOK(y.pivots, more) /\ PivotsOK(y.pivots, hs) BY <1>12 DEF PivotsOK
<1>14. more[Len(more)].atr # None /\ Len(more) \in 1 .. Len(more) BY <1>2
<1>15. ZigOK(y, more) BY <1>1, <1>7, <1>8, <1>9, <1>12, <1>13, <1>14 DEF ZigOK
<1>16. ASSUME NEW c \in {high, low}, c \in {z.high, z.low}, Reverses(c, bar)
       PROVE  ZigOK(Confirmed(y, c, i, bar), more)
  <2>1. PICK w : w = Confirmed(y, c, i, bar) OBVIOUS
  <2>2. c \in Extremes /\ c.index \in 1 .. Len(hs) BY <1>3, <1>4, <1>16
  <2>3. Len(y.pivots) = 0 BY <1>12
  <2>4. /\ w \in Swings /\ w.high = y.high /\ w.low = y.low /\ w.candidate # None
        /\ PivotsOK(w.pivots, more) /\ NextOK(w.candidate, w.pivots, more)
    BY <1>1, <1>12, <1>13, <1>16, <2>1, <2>2, <2>3, ConfirmedJoins
  <2> QED BY <1>1, <1>7, <1>8, <1>9, <1>12, <1>14, <2>1, <2>4 DEF ZigOK
<1> DEFINE rises == Reverses(low, bar)
           falls == Reverses(high, bar)
<1>17. Undirected(z, i, bar) = CASE rises /\ ~falls /\ ~newLow -> Confirmed(y, low, i, bar)
                                 [] falls /\ ~rises /\ ~newHigh -> Confirmed(y, high, i, bar)
                                 [] OTHER -> y
  BY <1>5, <1>6, <1>10 DEF Undirected
<1>18. CASE rises /\ ~falls /\ ~newLow
  <2>1. Undirected(z, i, bar) = Confirmed(y, low, i, bar) BY <1>17, <1>18
  <2>2. low = z.low BY <1>6, <1>18
  <2> QED BY <1>1, <1>16, <1>18, <2>1, <2>2
<1>19. CASE falls /\ ~rises /\ ~newHigh
  <2>1. Undirected(z, i, bar) = Confirmed(y, high, i, bar) BY <1>17, <1>19
  <2>2. high = z.high BY <1>5, <1>19
  <2> QED BY <1>1, <1>16, <1>19, <2>1, <2>2
<1>20. CASE ~(rises /\ ~falls /\ ~newLow) /\ ~(falls /\ ~rises /\ ~newHigh)
  BY <1>1, <1>15, <1>17, <1>20
<1> QED BY <1>18, <1>19, <1>20

\* A candidate that goes farther on a candle is still beyond the last pivot, and still
\* passed by none of the candles since.
LEMMA FartherKeeps ==
  ASSUME NEW hs \in Histories, NEW bar \in Closed, NEW z, ZigOK(z, hs), bar.atr # None,
         z.candidate # None, Beyond(z.candidate.kind, bar, z.candidate.price)
  PROVE  ZigOK([z EXCEPT !.candidate = Candidate(z.candidate.kind, Len(hs) + 1, bar)], Append(hs, bar))
<1>1. PICK more \in Histories : more = Append(hs, bar) BY HistoryGrows
<1>2. /\ Len(hs) \in Nat /\ Len(more) = Len(hs) + 1 /\ more[Len(hs) + 1] = bar
      /\ \A i \in 1 .. Len(hs) : more[i] = hs[i] /\ hs[i] \in Closed
  BY <1>1, HistoryGrows
<1>3. z \in Swings /\ z.high # None /\ PivotsOK(z.pivots, hs) /\ NextOK(z.candidate, z.pivots, hs) BY DEF ZigOK
<1>4. PICK c \in Extremes : c = z.candidate BY <1>3 DEF Swings
<1>5. c.kind \in Sides /\ c.price \in Nat BY DEF Extremes
<1>6. PICK ps \in Seq(KnownPivots) : ps = z.pivots BY <1>3 DEF Swings
<1>7. PivotsOK(ps, more) BY <1>1, <1>3, <1>6, PivotsStay
<1>8. PICK next : next = Candidate(c.kind, Len(hs) + 1, bar) OBVIOUS
<1>9. next \in Extremes /\ next.kind = c.kind /\ next.index = Len(hs) + 1 /\ next.price = Reached(c.kind, bar)
  BY <1>2, <1>5, <1>8, CandidateIs
<1>10. PICK y : y = [z EXCEPT !.candidate = next] OBVIOUS
<1>11. y \in Swings /\ y.high = z.high /\ y.low = z.low /\ y.candidate = next /\ y.pivots = ps /\ next # None
  <2>1. y = [high |-> z.high, low |-> z.low, candidate |-> next, pivots |-> ps]
    BY <1>3, <1>6, <1>10, Zenon DEF Swings
  <2>2. z.high \in Extremes \cup {None} /\ z.low \in Extremes \cup {None} /\ next \in Extremes \cup {None}
    BY <1>3, <1>9 DEF Swings
  <2>3. next # None BY <1>9, SeriesAssumption DEF Extremes, Sides
  <2>4. y \in Swings BY <2>1, <2>2 DEF Swings
  <2> QED BY <2>1, <2>3, <2>4
<1>12. NextOK(c, ps, hs) /\ Len(ps) \in Nat /\ Len(ps) >= 1 /\ ps[Len(ps)] \in KnownPivots
  <2>1. NextOK(c, ps, hs) BY <1>3, <1>4, <1>6
  <2>2. Len(ps) \in Nat /\ Len(ps) >= 1 BY <2>1 DEF NextOK
  <2> QED BY <2>1, <2>2
<1>13. NextOK(next, ps, more)
  <2>1. Past(next.kind, next.price, ps[Len(ps)])
    BY <1>4, <1>5, <1>9, <1>12, FartherStillPast DEF NextOK
  <2>2. ps[Len(ps)].confirmed \in Nat /\ ps[Len(ps)].index \in Nat BY <1>12 DEF KnownPivots
  <2>3. next.index \in ps[Len(ps)].confirmed .. Len(more) /\ next.kind # ps[Len(ps)].kind
    <3>1. c.index \in ps[Len(ps)].confirmed .. Len(hs) /\ c.kind # ps[Len(ps)].kind BY <1>12 DEF NextOK
    <3> QED BY <1>2, <1>9, <2>2, <3>1
  <2>4. \A x \in next.index + 1 .. Len(more) : FALSE BY <1>2, <1>9
  <2>5. ASSUME Len(ps) >= 2, NEW x \in ps[Len(ps)].index + 1 .. Len(more) PROVE ~Beyond(next.kind, more[x], next.price)
    <3>1. CASE x = Len(hs) + 1 BY <1>2, <1>5, <1>9, <3>1, BarNumbers
    <3>2. CASE x # Len(hs) + 1
      <4>1. x \in ps[Len(ps)].index + 1 .. Len(hs) /\ x \in 1 .. Len(hs) BY <1>2, <2>2, <2>5, <3>2
      <4>2. ~Beyond(c.kind, hs[x], c.price) BY <1>12, <2>5, <4>1 DEF NextOK
      <4> QED BY <1>2, <1>4, <1>5, <1>9, <4>1, <4>2, FartherStillPast
    <3> QED BY <3>1, <3>2
  <2> QED BY <1>12, <2>1, <2>3, <2>4, <2>5 DEF NextOK
<1>14. /\ y.high # None /\ y.low # None /\ y.high.kind = "HIGH" /\ y.low.kind = "LOW"
       /\ y.high.index \in 1 .. Len(more) /\ y.low.index \in 1 .. Len(more)
       /\ Len(more) \in 1 .. Len(more) /\ more[Len(more)].atr # None
  <2>1. /\ z.low # None /\ z.high.kind = "HIGH" /\ z.low.kind = "LOW"
        /\ z.high.index \in 1 .. Len(hs) /\ z.low.index \in 1 .. Len(hs)
    BY <1>3 DEF ZigOK
  <2> QED BY <1>2, <1>3, <1>11, <2>1
<1> QED BY <1>1, <1>4, <1>7, <1>8, <1>10, <1>11, <1>13, <1>14 DEF ZigOK

\* After the first pivot: farther, reversed, or neither.
LEMMA DirectedKeeps ==
  ASSUME NEW hs \in Histories, NEW bar \in Closed, NEW z, ZigOK(z, hs), bar.atr # None, z.candidate # None
  PROVE  ZigOK(Directed(z, Len(hs) + 1, bar), Append(hs, bar))
<1>1. PICK more \in Histories : more = Append(hs, bar) BY HistoryGrows
<1>2. /\ Len(hs) \in Nat /\ Len(more) = Len(hs) + 1 /\ more[Len(hs) + 1] = bar
      /\ \A i \in 1 .. Len(hs) : more[i] = hs[i] /\ hs[i] \in Closed
  BY <1>1, HistoryGrows
<1>3. z \in Swings /\ z.high # None /\ PivotsOK(z.pivots, hs) /\ NextOK(z.candidate, z.pivots, hs) BY DEF ZigOK
<1>4. PICK c \in Extremes : c = z.candidate BY <1>3 DEF Swings
<1>5. PICK ps \in Seq(KnownPivots) : ps = z.pivots BY <1>3 DEF Swings
<1>6. NextOK(c, ps, hs) /\ Len(ps) \in Nat /\ Len(ps) >= 1 /\ ps[Len(ps)] \in KnownPivots
  <2>1. NextOK(c, ps, hs) BY <1>3, <1>4, <1>5
  <2>2. Len(ps) \in Nat /\ Len(ps) >= 1 BY <2>1 DEF NextOK
  <2> QED BY <2>1, <2>2
<1>7. ps[Len(ps)].confirmed \in Nat /\ ps[Len(ps)].index \in Nat /\ ps[Len(ps)].confirmed >= 1
  <2>1. Len(ps) \in 1 .. Len(ps) BY <1>6
  <2>2. ps[Len(ps)].confirmed \in 1 .. Len(hs) BY <1>3, <1>5, <2>1 DEF PivotsOK
  <2> QED BY <1>6, <2>2 DEF KnownPivots
<1>8. /\ z.high # None /\ z.low # None /\ z.high.kind = "HIGH" /\ z.low.kind = "LOW"
      /\ z.high.index \in 1 .. Len(hs) /\ z.low.index \in 1 .. Len(hs)
  BY <1>3 DEF ZigOK
<1>9. /\ z.high.index \in 1 .. Len(more) /\ z.low.index \in 1 .. Len(more)
      /\ Len(more) \in 1 .. Len(more) /\ more[Len(more)].atr # None
  BY <1>2, <1>8
<1>10. CASE Beyond(c.kind, bar, c.price)
  <2>1. Directed(z, Len(hs) + 1, bar) = [z EXCEPT !.candidate = Candidate(c.kind, Len(hs) + 1, bar)]
    BY <1>4, <1>10 DEF Directed
  <2> QED BY <1>4, <1>10, <2>1, FartherKeeps
<1>11. CASE ~Beyond(c.kind, bar, c.price) /\ Reverses(c, bar)
  <2>1. PICK w : w = Confirmed(z, c, Len(hs) + 1, bar) OBVIOUS
  <2>2. Directed(z, Len(hs) + 1, bar) = w BY <1>4, <1>11, <2>1 DEF Directed
  <2>3. c.index \in 1 .. Len(hs)
    <3>1. c.index \in ps[Len(ps)].confirmed .. Len(hs) BY <1>6 DEF NextOK
    <3> QED BY <1>2, <1>7, <3>1
  <2>4. /\ w \in Swings /\ w.high = z.high /\ w.low = z.low /\ w.candidate # None
        /\ PivotsOK(w.pivots, more) /\ NextOK(w.candidate, w.pivots, more)
    BY <1>1, <1>3, <1>5, <1>6, <1>11, <2>1, <2>3, ConfirmedJoins
  <2> QED BY <1>1, <1>8, <1>9, <2>2, <2>4 DEF ZigOK
<1>12. CASE ~Beyond(c.kind, bar, c.price) /\ ~Reverses(c, bar)
  <2>1. Directed(z, Len(hs) + 1, bar) = z BY <1>4, <1>12 DEF Directed
  <2>2. PivotsOK(ps, more) BY <1>1, <1>3, <1>5, PivotsStay
  <2>3. NextOK(c, ps, more)
    <3>1. c.index \in ps[Len(ps)].confirmed .. Len(more) /\ c.kind # ps[Len(ps)].kind
          /\ Past(c.kind, c.price, ps[Len(ps)]) /\ c.index \in Nat
      <4>1. c.index \in ps[Len(ps)].confirmed .. Len(hs) BY <1>6 DEF NextOK
      <4>2. c.kind # ps[Len(ps)].kind /\ Past(c.kind, c.price, ps[Len(ps)]) BY <1>6 DEF NextOK
      <4> QED BY <1>2, <1>7, <4>1, <4>2
    <3>2. ASSUME NEW x \in c.index + 1 .. Len(more) PROVE ~Beyond(c.kind, more[x], c.price) /\ ~Reverses(c, more[x])
      <4>1. CASE x = Len(hs) + 1 BY <1>2, <1>12, <4>1
      <4>2. CASE x # Len(hs) + 1
        <5>1. x \in c.index + 1 .. Len(hs) /\ x \in 1 .. Len(hs) BY <1>2, <3>1, <4>2
        <5>2. ~Beyond(c.kind, hs[x], c.price) /\ ~Reverses(c, hs[x]) BY <1>6, <5>1 DEF NextOK
        <5> QED BY <1>2, <5>1, <5>2
      <4> QED BY <4>1, <4>2
    <3>3. ASSUME Len(ps) >= 2, NEW x \in ps[Len(ps)].index + 1 .. Len(more) PROVE ~Beyond(c.kind, more[x], c.price)
      <4>1. CASE x = Len(hs) + 1 BY <1>2, <1>12, <4>1
      <4>2. CASE x # Len(hs) + 1
        <5>1. x \in ps[Len(ps)].index + 1 .. Len(hs) /\ x \in 1 .. Len(hs) BY <1>2, <1>7, <3>3, <4>2
        <5>2. ~Beyond(c.kind, hs[x], c.price) BY <1>6, <3>3, <5>1 DEF NextOK
        <5> QED BY <1>2, <5>1, <5>2
      <4> QED BY <4>1, <4>2
    <3> QED BY <1>6, <3>1, <3>2, <3>3 DEF NextOK
  <2> QED BY <1>1, <1>3, <1>4, <1>5, <1>8, <1>9, <2>1, <2>2, <2>3 DEF ZigOK
<1> QED BY <1>10, <1>11, <1>12

ZigInv == Len(bars) <= Len(candlesAt) /\ ZigOK(zig, bars)

LEMMA CandleClosesKeeps == ASSUME ZigInv, NEW bar, CandleCloses(bar) PROVE ZigInv'
<1>1. bars \in Histories /\ ZigOK(zig, bars) BY DEF ZigInv, ZigOK
<1>2. bar \in Closed
  <2>1. Len(bars) \in Nat /\ Len(bars) < Len(candlesAt) BY <1>1 DEF Histories, CandleCloses
  <2>2. Len(bars) + 1 \in DOMAIN candlesAt BY <2>1, SeriesAssumption
  <2>3. candlesAt[Len(bars) + 1] \subseteq Closed BY <2>2, SeriesAssumption DEF Closed
  <2> QED BY <2>3 DEF CandleCloses
<1>3. PICK hs \in Histories : hs = bars BY <1>1
<1>4. PICK z : z = zig OBVIOUS
<1>5. bar.atr = None => \A i \in 1 .. Len(hs) : hs[i].atr = None
  BY <1>3 DEF CandleCloses, Histories
<1>6. bars' = Append(hs, bar) /\ zig' = Turn(z, Len(hs) + 1, bar) BY <1>3, <1>4 DEF CandleCloses
<1>7. ZigOK(z, hs) BY <1>1, <1>3, <1>4
<1>8. ZigOK(Turn(z, Len(hs) + 1, bar), Append(hs, bar))
  <2>1. CASE bar.atr = None BY <1>2, <1>5, <1>7, <2>1, PassedOver
  <2>2. CASE bar.atr # None /\ z.high = None
    <3>1. Turn(z, Len(hs) + 1, bar) = FirstReady(z, Len(hs) + 1, bar) BY <2>2 DEF Turn
    <3> QED BY <1>2, <1>7, <2>2, <3>1, FirstReadyKeeps
  <2>3. CASE bar.atr # None /\ z.high # None /\ z.candidate = None
    <3>1. Turn(z, Len(hs) + 1, bar) = Undirected(z, Len(hs) + 1, bar) BY <2>3 DEF Turn
    <3> QED BY <1>2, <1>7, <2>3, <3>1, UndirectedKeeps
  <2>4. CASE bar.atr # None /\ z.high # None /\ z.candidate # None
    <3>1. Turn(z, Len(hs) + 1, bar) = Directed(z, Len(hs) + 1, bar) BY <2>4 DEF Turn
    <3> QED BY <1>2, <1>7, <2>4, <3>1, DirectedKeeps
  <2> QED BY <2>1, <2>2, <2>3, <2>4
<1>9. Len(bars') <= Len(candlesAt)
  <2>1. Len(bars') = Len(hs) + 1 /\ Len(hs) \in Nat BY <1>2, <1>6, HistoryGrows
  <2> QED BY <1>3, <2>1, SeriesAssumption DEF CandleCloses
<1> QED BY <1>6, <1>8, <1>9 DEF ZigInv

\* Of any series of candles the swings alternate, are known only after their candle, and
\* from the second leg on are the extremes of their side.
THEOREM SwingsAlwaysHold == ZigSpec => []SwingsHold
<1>1. ZigInit => ZigInv
  <2> SUFFICES ASSUME ZigInit PROVE ZigInv OBVIOUS
  <2>1. bars = <<>> /\ zig = NoSwing /\ <<>> \in Histories BY DEF ZigInit, Histories
  <2>2. NoSwing \in Swings
    <3>1. <<>> \in Seq(KnownPivots) OBVIOUS
    <3> QED BY <3>1 DEF NoSwing, Swings
  <2>3. NoSwing.high = None /\ NoSwing.low = None /\ NoSwing.candidate = None /\ NoSwing.pivots = <<>>
    BY DEF NoSwing
  <2>4. PivotsOK(NoSwing.pivots, <<>>) BY <2>3 DEF PivotsOK
  <2> QED BY <2>1, <2>2, <2>3, <2>4, SeriesAssumption DEF ZigInv, ZigOK
<1>2. ZigInv /\ [ZigNext]_zigVars => ZigInv'
  <2>1. ASSUME ZigInv, UNCHANGED zigVars PROVE ZigInv' BY <2>1 DEF ZigInv, zigVars
  <2> QED BY <2>1, CandleClosesKeeps DEF ZigNext
<1>3. ZigInv => SwingsHold
  <2> SUFFICES ASSUME ZigInv PROVE SwingsHold OBVIOUS
  <2>1. bars \in Seq(Candle) /\ Len(bars) \in Nat /\ DOMAIN bars = 1 .. Len(bars) BY DEF ZigInv, ZigOK, Histories
  <2>2. zig.pivots \in Seq(KnownPivots) /\ DOMAIN zig.pivots = 1 .. Len(zig.pivots) /\ Len(zig.pivots) \in Nat
    BY DEF ZigInv, ZigOK, Swings
  <2>3. PivotsOK(zig.pivots, bars) BY DEF ZigInv, ZigOK
  <2>4. ZigTypeOK BY <2>1, <2>2, <2>3 DEF ZigTypeOK, Pivots, PivotsOK, ZigInv, ZigOK
  <2>5. SwingsAlternate
    <3>1. \A i \in 1 .. Len(zig.pivots) : i > 1 =>
            IF zig.pivots[i].kind = "LOW"
            THEN zig.pivots[i].price <= zig.pivots[i - 1].price - Multiple * zig.pivots[i - 1].atr
            ELSE zig.pivots[i].price >= zig.pivots[i - 1].price + Multiple * zig.pivots[i - 1].atr
      BY <2>3 DEF PivotsOK, Past
    <3>2. \A i \in 1 .. Len(zig.pivots) :
            /\ zig.pivots[i].index < zig.pivots[i].confirmed
            /\ i > 1 => /\ zig.pivots[i].kind # zig.pivots[i - 1].kind
                        /\ zig.pivots[i].index >= zig.pivots[i - 1].confirmed
      BY <2>3 DEF PivotsOK
    <3> QED BY <2>2, <3>1, <3>2 DEF SwingsAlternate, Pivots
  <2>6. PivotIsTheExtreme BY <2>2, <2>3 DEF PivotIsTheExtreme, Pivots, PivotsOK
  <2> QED BY <2>4, <2>5, <2>6 DEF SwingsHold
<1> QED BY <1>1, <1>2, <1>3, PTL DEF ZigSpec

---------------------------------------------------------------------------
(* Larger timeframes.                                                       *)

\* Closed source candles, one after the other from a first start.
Grains == [open : Nat, high : Nat, low : Nat, close : Nat, volume : {1}, start : Nat, end : Nat, closed : {TRUE}]
Rolled == [open : Nat, high : Nat, low : Nat, close : Nat, volume : Nat, start : Nat, end : Nat, closed : {TRUE}]
Runs(first) == {src \in Seq(Grains) : \A i \in 1 .. Len(src) : src[i].start = first + i - 1 /\ src[i].end = first + i}

\* The buckets cut time in aligned stretches.
LEMMA BucketsCutTime ==
  ASSUME NEW tf \in Nat \ {0}, NEW t \in Nat
  PROVE  /\ Bucket(t, tf) \in Nat /\ Bucket(t, tf) <= t /\ t < Bucket(t, tf) + tf
         /\ \A u \in Nat : Bucket(u, tf) = Bucket(t, tf) <=> Bucket(t, tf) <= u /\ u < Bucket(t, tf) + tf
         /\ Bucket(Bucket(t, tf) + tf, tf) = Bucket(t, tf) + tf
<1>1. ASSUME NEW u \in Nat
      PROVE  u \div tf \in Nat /\ (u \div tf) * tf \in Nat /\ (u \div tf) * tf <= u /\ u < (u \div tf) * tf + tf
  OBVIOUS
<1>2. ASSUME NEW q \in Nat, NEW r \in Nat, q < r PROVE q * tf + tf <= r * tf
  <2>1. q + 1 <= r BY <1>2
  <2>2. PICK d \in Nat : r = q + 1 + d
    <3>1. r - (q + 1) \in Nat /\ r = q + 1 + (r - (q + 1)) BY <2>1
    <3> QED BY <3>1
  <2>3. r * tf = q * tf + tf + d * tf /\ d * tf \in Nat BY <2>2
  <2> QED BY <2>3
<1>3. ASSUME NEW q \in Nat, NEW u \in Nat, q * tf <= u, u < q * tf + tf PROVE u \div tf = q
  <2>1. u \div tf \in Nat /\ (u \div tf) * tf <= u /\ u < (u \div tf) * tf + tf BY <1>1
  <2> DEFINE r == u \div tf
  <2>2. r \in Nat /\ r * tf <= u /\ u < r * tf + tf /\ r * tf \in Nat /\ q * tf \in Nat BY <2>1
  <2> HIDE DEF r
  <2>3. ~(q < r) BY <1>2, <1>3, <2>2
  <2>4. ~(r < q) BY <1>2, <1>3, <2>2
  <2>5. r = q BY <2>2, <2>3, <2>4
  <2> QED BY <2>5 DEF r
<1> DEFINE q == t \div tf
<1>4. q \in Nat /\ q * tf \in Nat /\ q * tf <= t /\ t < q * tf + tf BY <1>1
<1>5. Bucket(t, tf) = q * tf BY DEF Bucket
<1> HIDE DEF q
<1>6. ASSUME NEW u \in Nat PROVE Bucket(u, tf) = q * tf <=> q * tf <= u /\ u < q * tf + tf
  <2>1. CASE q * tf <= u /\ u < q * tf + tf BY <1>3, <1>4, <2>1 DEF Bucket
  <2>2. CASE Bucket(u, tf) = q * tf
    <3>1. (u \div tf) * tf <= u /\ u < (u \div tf) * tf + tf BY <1>1
    <3>2. (u \div tf) * tf = q * tf BY <2>2 DEF Bucket
    <3> QED BY <2>2, <3>1, <3>2
  <2> QED BY <2>1, <2>2
<1>7. Bucket(q * tf + tf, tf) = q * tf + tf
  <2>1. (q + 1) \in Nat /\ (q + 1) * tf = q * tf + tf BY <1>4
  <2>2. (q * tf + tf) \div tf = q + 1
    <3>1. (q + 1) * tf <= q * tf + tf /\ q * tf + tf < (q + 1) * tf + tf BY <1>4, <2>1
    <3>2. q * tf + tf \in Nat BY <1>4
    <3> QED BY <1>3, <2>1, <3>1, <3>2
  <2> QED BY <2>1, <2>2 DEF Bucket
<1> QED BY <1>4, <1>5, <1>6, <1>7

\* The volume of candles of one unit each is their number.
VolumeStep(bucket, sum, T) ==
  IF T = {} THEN 0 ELSE sum[T \ {Max(T)}] + bucket[Max(T)].volume

\* FoldLeft over a bucket adds up the volumes, one candle at a time from the last.
LEMMA VolumeIsFold ==
  ASSUME NEW bucket
  PROVE  FoldLeft(LAMBDA total, c : total + c.volume, 0, bucket)
           = (CHOOSE sum : sum = [T \in SUBSET (DOMAIN bucket) |-> VolumeStep(bucket, sum, T)])[DOMAIN bucket]
BY Zenon DEF FoldLeft, MapThenFoldSet, VolumeStep

\* The volume of a bucket of source candles of volume 1 is their number.
LEMMA VolumeIsNumber ==
  ASSUME NEW bucket \in Seq(Grains)
  PROVE  FoldLeft(LAMBDA total, c : total + c.volume, 0, bucket) = Len(bucket)
<1> DEFINE D == DOMAIN bucket
           Recursion(sum) == sum = [T \in SUBSET D |-> VolumeStep(bucket, sum, T)]
           fold == CHOOSE sum : Recursion(sum)
<1>1. D = 1 .. Len(bucket) /\ Len(bucket) \in Nat OBVIOUS
<1>2. \A T \in SUBSET D : IsFiniteSet(T) /\ Cardinality(T) \in Nat
  <2>1. IsFiniteSet(D) BY <1>1, FS_Interval
  <2> QED BY <2>1, FS_Subset, FS_CardinalityType
<1>3. ASSUME NEW T \in SUBSET D, T # {} PROVE Max(T) \in T /\ bucket[Max(T)].volume = 1
  <2>1. T \subseteq Int /\ \A n \in T : 1 <= n /\ n <= Len(bucket) BY <1>1
  <2>2. Max(T) \in T BY <1>1, <1>3, <2>1, BoundedExtremes
  <2>3. bucket[Max(T)] \in Grains BY <1>1, <2>2
  <2> QED BY <2>2, <2>3 DEF Grains
<1>4. Recursion([T \in SUBSET D |-> Cardinality(T)])
  <2> DEFINE count == [T \in SUBSET D |-> Cardinality(T)]
  <2>1. ASSUME NEW T \in SUBSET D PROVE VolumeStep(bucket, count, T) = Cardinality(T)
    <3>1. CASE T = {} BY <3>1, FS_EmptySet DEF VolumeStep
    <3>2. CASE T # {}
      <4> DEFINE R == T \ {Max(T)}
      <4>1. Max(T) \in T /\ bucket[Max(T)].volume = 1 BY <1>3, <3>2
      <4>2. R \in SUBSET D OBVIOUS
      <4>3. Cardinality(R) = Cardinality(T) - 1 /\ Cardinality(T) \in Nat BY <1>2, <4>1, FS_RemoveElement
      <4>4. count[R] = Cardinality(R) BY <4>2
      <4>5. VolumeStep(bucket, count, T) = count[R] + bucket[Max(T)].volume BY <3>2, Zenon DEF VolumeStep
      <4> QED BY <4>1, <4>3, <4>4, <4>5
    <3> QED BY <3>1, <3>2
  <2> QED BY <2>1
<1> HIDE DEF D
<1>5. Recursion(fold) BY <1>4, Zenon
<1> HIDE DEF fold
<1>6. \A T \in SUBSET D : fold[T] = VolumeStep(bucket, fold, T) BY <1>5
<1>7. fold[D] = Cardinality(D)
  <2> DEFINE Bad == {k \in Nat : \E T \in SUBSET D : Cardinality(T) = k /\ fold[T] # k}
  <2>1. SUFFICES ASSUME fold[D] # Cardinality(D) PROVE FALSE OBVIOUS
  <2>2. Cardinality(D) \in Bad BY <1>2, <2>1
  <2>3. PICK k \in Bad : \A j \in Bad : k <= j BY <2>2, SmallestMember
  <2>4. PICK T \in SUBSET D : Cardinality(T) = k /\ fold[T] # k OBVIOUS
  <2>5. T # {} BY <1>6, <2>4, FS_EmptySet DEF VolumeStep
  <2> DEFINE R == T \ {Max(T)}
  <2>6. Max(T) \in T /\ fold[T] = fold[R] + 1
    <3>1. Max(T) \in T /\ bucket[Max(T)].volume = 1 BY <1>3, <2>5
    <3>2. fold[T] = fold[R] + bucket[Max(T)].volume BY <1>6, <2>5, Zenon DEF VolumeStep
    <3> QED BY <3>1, <3>2
  <2>7. R \in SUBSET D /\ Cardinality(R) = k - 1 /\ Cardinality(R) \in Nat /\ k \in Nat
    BY <1>2, <2>4, <2>6, FS_RemoveElement
  <2>8. fold[R] # Cardinality(R) BY <2>4, <2>6, <2>7
  <2>9. Cardinality(R) \in Bad BY <2>7, <2>8
  <2>10. k <= Cardinality(R) BY <2>3, <2>9
  <2> QED BY <2>7, <2>10
<1>8. Cardinality(D) = Len(bucket)
  <2>1. \A n \in Nat : Cardinality(1 .. n) = n BY FS_Interval
  <2> HIDE DEF D
  <2> QED BY <1>1, <2>1
<1> QED BY <1>7, <1>8, VolumeIsFold, Zenon DEF fold, D

\* Finitely many numbers have a bound.
LEMMA ValuesBounded ==
  ASSUME NEW n \in Nat, NEW f, \A i \in 1 .. n : f[i] \in Nat
  PROVE  \E most \in Nat : \A i \in 1 .. n : f[i] <= most
<1> DEFINE Bounded(k) == \E most \in Nat : \A i \in 1 .. k : f[i] <= most
           Bad == {k \in 0 .. n : ~Bounded(k)}
<1>1. Bounded(0)
  <2>1. \A i \in 1 .. 0 : f[i] <= 0 OBVIOUS
  <2> QED BY <2>1
<1>2. SUFFICES ASSUME ~Bounded(n) PROVE FALSE OBVIOUS
<1>3. n \in Bad BY <1>2
<1>4. Bad \subseteq Nat OBVIOUS
<1> HIDE DEF Bounded
<1>5. PICK k \in Bad : \A j \in Bad : k <= j
  <2> HIDE DEF Bad
  <2> QED BY <1>3, <1>4, SmallestMember
<1>6. k \in 1 .. n BY <1>1, <1>5
<1>7. k - 1 \in 0 .. n /\ k - 1 \notin Bad BY <1>5, <1>6
<1>8. PICK most \in Nat : \A i \in 1 .. k - 1 : f[i] <= most BY <1>7 DEF Bounded
<1>9. f[k] \in Nat BY <1>6
<1>10. Bounded(k)
  <2>1. CASE f[k] <= most
    <3>1. \A i \in 1 .. k : f[i] <= most
      <4> SUFFICES ASSUME NEW i \in 1 .. k PROVE f[i] <= most OBVIOUS
      <4>1. CASE i = k BY <2>1, <4>1
      <4>2. CASE i # k
        <5>1. i \in 1 .. k - 1 BY <1>6, <4>2
        <5> QED BY <1>8, <5>1
      <4> QED BY <4>1, <4>2
    <3> QED BY <3>1 DEF Bounded
  <2>2. CASE most < f[k]
    <3>1. \A i \in 1 .. k : f[i] <= f[k]
      <4> SUFFICES ASSUME NEW i \in 1 .. k PROVE f[i] <= f[k] OBVIOUS
      <4>1. CASE i = k BY <1>9, <4>1
      <4>2. CASE i # k
        <5>1. i \in 1 .. k - 1 /\ i \in 1 .. n BY <1>6, <4>2
        <5>2. f[i] \in Nat BY <5>1
        <5> QED BY <1>8, <1>9, <2>2, <5>1, <5>2
      <4> QED BY <4>1, <4>2
    <3> QED BY <1>9, <3>1 DEF Bounded
  <2> QED BY <1>9, <2>1, <2>2
<1> QED BY <1>5, <1>10

\* The least and the largest of a series of numbers are among them.
LEMMA ExtremeValues ==
  ASSUME NEW n \in Nat \ {0}, NEW f, \A i \in 1 .. n : f[i] \in Nat
  PROVE  LET T == {f[i] : i \in 1 .. n} IN
         /\ Min(T) \in T /\ Max(T) \in T
         /\ \A i \in 1 .. n : Min(T) <= f[i] /\ f[i] <= Max(T)
<1> DEFINE T == {f[i] : i \in 1 .. n}
<1>1. PICK most \in Nat : \A i \in 1 .. n : f[i] <= most BY ValuesBounded
<1>2. T \subseteq Int /\ T # {} /\ \A v \in T : 0 <= v /\ v <= most
  <2>1. 1 \in 1 .. n OBVIOUS
  <2> QED BY <1>1, <2>1
<1>3. \A i \in 1 .. n : f[i] \in T OBVIOUS
<1> HIDE DEF T
<1>4. Min(T) \in T /\ Max(T) \in T /\ \A v \in T : Min(T) <= v /\ v <= Max(T)
  <2>1. 0 \in Int /\ most \in Int OBVIOUS
  <2> QED BY <1>2, <2>1, BoundedExtremes
<1> QED BY <1>3, <1>4 DEF T

\* A candle that stands for a bucket.
Carries(made, bucket, start, tf) ==
  /\ made \in Rolled /\ made.start = start /\ made.end = start + tf /\ made.volume = Len(bucket)
  /\ made.open = bucket[1].open /\ made.close = bucket[Len(bucket)].close
  /\ \A i \in 1 .. Len(bucket) : made.low <= bucket[i].low /\ bucket[i].high <= made.high
  /\ \E i \in 1 .. Len(bucket) : made.low = bucket[i].low
  /\ \E i \in 1 .. Len(bucket) : made.high = bucket[i].high

\* A candle of a larger timeframe carries what its bucket carries.
LEMMA AggregateCarries ==
  ASSUME NEW bucket \in Seq(Grains), bucket # <<>>, NEW start \in Nat, NEW tf \in Nat \ {0}
  PROVE  Carries(Aggregate(bucket, start, tf), bucket, start, tf)
<1> DEFINE made == Aggregate(bucket, start, tf)
           n == Len(bucket)
           highs == {bucket[i].high : i \in DOMAIN bucket}
           lows == {bucket[i].low : i \in DOMAIN bucket}
<1>1. n \in Nat \ {0} /\ DOMAIN bucket = 1 .. n OBVIOUS
<1>2. \A i \in 1 .. n :
        bucket[i].open \in Nat /\ bucket[i].high \in Nat /\ bucket[i].low \in Nat /\ bucket[i].close \in Nat
  <2>1. \A i \in 1 .. n : bucket[i] \in Grains BY <1>1
  <2> QED BY <2>1 DEF Grains
<1>3. Max(highs) \in Nat /\ (\E i \in 1 .. n : Max(highs) = bucket[i].high) /\ \A i \in 1 .. n : bucket[i].high <= Max(highs)
  <2> DEFINE f == [i \in 1 .. n |-> bucket[i].high]
             T == {f[i] : i \in 1 .. n}
  <2>1. \A i \in 1 .. n : f[i] \in Nat BY <1>2
  <2>2. \A i \in 1 .. n : f[i] = bucket[i].high OBVIOUS
  <2>3. T = highs BY <1>1, <2>2
  <2> HIDE DEF f
  <2>4. Max(T) \in T /\ \A i \in 1 .. n : f[i] <= Max(T) BY <1>1, <2>1, ExtremeValues
  <2>5. PICK i \in 1 .. n : Max(T) = f[i] BY <2>4
  <2> QED BY <2>1, <2>2, <2>3, <2>4, <2>5
<1>4. Min(lows) \in Nat /\ (\E i \in 1 .. n : Min(lows) = bucket[i].low) /\ \A i \in 1 .. n : Min(lows) <= bucket[i].low
  <2> DEFINE f == [i \in 1 .. n |-> bucket[i].low]
             T == {f[i] : i \in 1 .. n}
  <2>1. \A i \in 1 .. n : f[i] \in Nat BY <1>2
  <2>2. \A i \in 1 .. n : f[i] = bucket[i].low OBVIOUS
  <2>3. T = lows BY <1>1, <2>2
  <2> HIDE DEF f
  <2>4. Min(T) \in T /\ \A i \in 1 .. n : Min(T) <= f[i] BY <1>1, <2>1, ExtremeValues
  <2>5. PICK i \in 1 .. n : Min(T) = f[i] BY <2>4
  <2> QED BY <2>1, <2>2, <2>3, <2>4, <2>5
<1>5. made = [open |-> Head(bucket).open, high |-> Max(highs), low |-> Min(lows), close |-> Last(bucket).close,
              volume |-> n, start |-> start, end |-> start + tf, closed |-> TRUE]
  BY VolumeIsNumber, Zenon DEF Aggregate
<1>6. Head(bucket) = bucket[1] /\ Last(bucket) = bucket[n] /\ 1 \in 1 .. n /\ n \in 1 .. n BY <1>1 DEF Last
<1> HIDE DEF highs, lows, made, n
<1>7. made.high = Max(highs) /\ made.low = Min(lows) /\ made.volume = n /\ made.start = start /\ made.end = start + tf
      /\ made.open = bucket[1].open /\ made.close = bucket[n].close
  BY <1>5, <1>6
<1>8. made \in Rolled BY <1>1, <1>2, <1>3, <1>4, <1>5, <1>6 DEF Rolled
<1>9. /\ \A i \in 1 .. n : made.low <= bucket[i].low /\ bucket[i].high <= made.high
      /\ \E i \in 1 .. n : made.low = bucket[i].low
      /\ \E i \in 1 .. n : made.high = bucket[i].high
  BY <1>3, <1>4, <1>7
<1>10. Carries(made, bucket, start, tf) BY <1>7, <1>8, <1>9, Zenon DEF Carries, n
<1> QED BY <1>10 DEF made

\* Of a source begun at first: where the bucket under way at now starts (with its timeframe
\* or with the source, whichever came later), n source candles from a start, and the
\* starts of the whole buckets until now.
Opens(first, now, tf) == IF first <= Bucket(now, tf) THEN Bucket(now, tf) ELSE first
Stretch(src, first, start, n) == [j \in 1 .. n |-> src[start - first + j]]
Spanned(first, now, tf) == {start \in Nat : Bucket(start, tf) = start /\ first <= start /\ start + tf <= now}

\* What the cursor holds of a source: its open bucket, and the candles it has made.
Underway(part, src, first, tf) ==
  LET now == first + Len(src) IN
  part = Stretch(src, first, Opens(first, now, tf), now - Opens(first, now, tf))
Made(rolled, src, first, tf) ==
  /\ rolled \in Seq(Rolled)
  /\ {rolled[i].start : i \in DOMAIN rolled} = Spanned(first, first + Len(src), tf)
  /\ \A i \in 1 .. Len(rolled) :
       rolled[i] = Aggregate(Stretch(src, first, rolled[i].start, tf), rolled[i].start, tf)
  /\ \A i, j \in 1 .. Len(rolled) : i < j => rolled[i].start < rolled[j].start

\* A piece of n source candles, from a start on.
PieceOf(piece, src, first, start, n) ==
  /\ piece \in Seq(Grains) /\ Len(piece) = n
  /\ \A j \in 1 .. n : piece[j] = src[start - first + j] /\ start - first + j \in 1 .. Len(src)
                       /\ piece[j].start = start + j - 1 /\ piece[j].end = start + j

\* A stretch within the source holds the source's candles, from its start on.
LEMMA StretchIs ==
  ASSUME NEW first \in Nat, NEW src \in Runs(first), NEW start \in Nat, NEW n \in Nat,
         first <= start, start + n <= first + Len(src)
  PROVE  PieceOf(Stretch(src, first, start, n), src, first, start, n)
<1>1. src \in Seq(Grains) /\ Len(src) \in Nat
      /\ \A i \in 1 .. Len(src) : src[i] \in Grains /\ src[i].start = first + i - 1 /\ src[i].end = first + i
  BY DEF Runs
<1>2. \A j \in 1 .. n : start - first + j \in 1 .. Len(src) BY <1>1
<1> DEFINE part == Stretch(src, first, start, n)
<1>3. part = [j \in 1 .. n |-> src[start - first + j]] BY DEF Stretch
<1> HIDE DEF part
<1>4. part \in Seq(Grains) /\ Len(part) = n /\ \A j \in 1 .. n : part[j] = src[start - first + j]
  <2>1. \A j \in 1 .. n : src[start - first + j] \in Grains BY <1>1, <1>2
  <2>2. part \in [1 .. n -> Grains] BY <1>3, <2>1
  <2>3. part \in Seq(Grains) /\ Len(part) = n BY <2>2
  <2> QED BY <1>3, <2>3
<1>5. ASSUME NEW j \in 1 .. n PROVE part[j].start = start + j - 1 /\ part[j].end = start + j
  <2>1. start - first + j \in 1 .. Len(src) BY <1>2
  <2>2. src[start - first + j].start = first + (start - first + j) - 1 /\ src[start - first + j].end = first + (start - first + j)
    BY <1>1, <2>1
  <2>3. first + (start - first + j) - 1 = start + j - 1 /\ first + (start - first + j) = start + j OBVIOUS
  <2>4. part[j] = src[start - first + j] BY <1>4
  <2> QED BY <2>2, <2>3, <2>4
<1>6. PieceOf(part, src, first, start, n) BY <1>2, <1>4, <1>5 DEF PieceOf
<1> QED BY <1>6 DEF part

\* What the bucket under way holds.
LEMMA UnderwayIs ==
  ASSUME NEW tf \in Nat \ {0}, NEW first \in Nat, NEW src \in Runs(first), NEW part, Underway(part, src, first, tf)
  PROVE  LET now == first + Len(src)
             from == Opens(first, now, tf)
         IN  /\ now \in Nat /\ from \in Nat /\ first <= from /\ from <= now /\ Bucket(now, tf) <= from
             /\ part \in Seq(Grains) /\ Len(part) = now - from /\ Len(part) < tf
             /\ \A j \in 1 .. Len(part) : part[j].start = from + j - 1 /\ part[j] = src[from - first + j]
<1> DEFINE now == first + Len(src)
           from == Opens(first, now, tf)
<1>1. Len(src) \in Nat /\ now \in Nat BY DEF Runs
<1>2. Bucket(now, tf) \in Nat /\ Bucket(now, tf) <= now /\ now < Bucket(now, tf) + tf BY <1>1, BucketsCutTime
<1>3. from \in Nat /\ first <= from /\ from <= now /\ Bucket(now, tf) <= from BY <1>1, <1>2 DEF Opens
<1>4. part = Stretch(src, first, from, now - from) /\ now - from \in Nat BY <1>3, <1>1 DEF Underway
<1> HIDE DEF now, from
<1>5. from + (now - from) <= first + Len(src) BY <1>1, <1>3 DEF now
<1>6. part \in Seq(Grains) /\ Len(part) = now - from
      /\ \A j \in 1 .. now - from : part[j].start = from + j - 1 /\ part[j] = src[from - first + j]
  <2> DEFINE n == now - from
  <2>1. n \in Nat /\ from + n <= first + Len(src) /\ part = Stretch(src, first, from, n) BY <1>4, <1>5
  <2> HIDE DEF n
  <2>2. PieceOf(part, src, first, from, n)
    <3>1. first <= from /\ from \in Nat /\ n \in Nat /\ from + n <= first + Len(src) BY <1>3, <2>1
    <3>2. PieceOf(Stretch(src, first, from, n), src, first, from, n) BY <3>1, StretchIs
    <3> QED BY <2>1, <3>2, Zenon
  <2>3. /\ part \in Seq(Grains) /\ Len(part) = n
        /\ \A j \in 1 .. n : part[j].start = from + j - 1 /\ part[j] = src[from - first + j]
    BY <2>2 DEF PieceOf
  <2> QED BY <2>3 DEF n
<1>7. Len(part) < tf /\ \A j \in 1 .. Len(part) : part[j].start = from + j - 1 /\ part[j] = src[from - first + j]
  <2>1. now - from < tf BY <1>1, <1>2, <1>3
  <2> QED BY <1>6, <2>1
<1>8. now \in Nat /\ from \in Nat /\ first <= from /\ from <= now /\ Bucket(now, tf) <= from
      /\ part \in Seq(Grains) /\ Len(part) = now - from
  BY <1>1, <1>3, <1>6
<1> QED BY <1>7, <1>8, Zenon DEF now, from

\* A candle joins the bucket under way, which it is the one of.
LEMMA CandleJoins ==
  ASSUME NEW tf \in Nat \ {0}, NEW first \in Nat, NEW src \in Runs(first), NEW part, Underway(part, src, first, tf),
         NEW c \in Grains, c.start = first + Len(src), c.end = c.start + 1
  PROVE  /\ Append(src, c) \in Runs(first)
         /\ part # <<>> => Bucket(Head(part).start, tf) = Bucket(c.start, tf)
         /\ part = <<>> => Append(part, c) = <<c>>
         /\ Append(part, c) = Stretch(Append(src, c), first, Opens(first, c.start, tf), c.end - Opens(first, c.start, tf))
         /\ c.end = Bucket(c.start, tf) + tf =>
              (Whole(Append(part, c), Bucket(c.start, tf), tf) <=> first <= Bucket(c.start, tf))
         /\ Underway(IF c.end = Bucket(c.start, tf) + tf THEN <<>> ELSE Append(part, c), Append(src, c), first, tf)
<1> DEFINE now == c.start
           B == Bucket(now, tf)
           from == Opens(first, now, tf)
           q == Append(part, c)
           next == Append(src, c)
<1>1. Len(src) \in Nat /\ src \in Seq(Grains) /\ now \in Nat /\ now = first + Len(src) /\ c.end = now + 1
      /\ \A i \in 1 .. Len(src) : src[i].start = first + i - 1 /\ src[i].end = first + i
  BY DEF Runs
<1>2. B \in Nat /\ B <= now /\ now < B + tf /\ Bucket(B + tf, tf) = B + tf
      /\ \A u \in Nat : Bucket(u, tf) = B <=> B <= u /\ u < B + tf
  BY <1>1, BucketsCutTime
<1>3. /\ from \in Nat /\ first <= from /\ from <= now /\ B <= from
      /\ part \in Seq(Grains) /\ Len(part) = now - from
      /\ \A j \in 1 .. Len(part) : part[j].start = from + j - 1 /\ part[j] = src[from - first + j]
  BY <1>1, UnderwayIs
<1>13. from = B <=> first <= B BY <1>1, <1>2 DEF Opens
<1> HIDE DEF now, B, from
<1>17. Len(src) \in Nat /\ now \in Nat /\ from \in Nat /\ now = first + Len(src) /\ first <= from /\ from <= now BY <1>1, <1>3
<1>14. Len(part) \in Nat /\ part \in Seq(Grains) /\ Len(part) = now - from BY <1>3
<1>15. \A j \in 1 .. Len(part) : part[j].start = from + j - 1 BY <1>3
<1>4. next \in Seq(Grains) /\ Len(next) = Len(src) + 1 /\ next[Len(src) + 1] = c
      /\ \A i \in 1 .. Len(src) : next[i] = src[i]
  BY <1>1
<1>5. next \in Runs(first)
  <2> SUFFICES ASSUME NEW i \in 1 .. Len(next) PROVE next[i].start = first + i - 1 /\ next[i].end = first + i
    BY <1>4 DEF Runs
  <2>1. CASE i = Len(src) + 1 BY <1>1, <1>4, <2>1 DEF now
  <2>2. CASE i # Len(src) + 1
    <3>1. i \in 1 .. Len(src) BY <1>1, <1>4, <2>2
    <3> QED BY <1>1, <1>4, <3>1
  <2> QED BY <2>1, <2>2
<1>6. ASSUME part # <<>> PROVE Bucket(Head(part).start, tf) = B
  <2>1. Head(part) = part[1] /\ Len(part) >= 1 BY <1>6, <1>14
  <2>2. 1 \in 1 .. Len(part) BY <1>14, <2>1
  <2>3. Head(part).start = from + 1 - 1 BY <1>15, <2>1, <2>2
  <2>4. from < now BY <1>1, <1>3, <1>14, <2>1
  <2>5. Head(part).start \in Nat /\ B <= Head(part).start /\ Head(part).start < B + tf
    BY <1>1, <1>2, <1>3, <2>3, <2>4
  <2> QED BY <1>2, <2>5
<1>7. q \in Seq(Grains) /\ Len(q) = Len(part) + 1 /\ q[Len(part) + 1] = c
      /\ \A j \in 1 .. Len(part) : q[j] = part[j]
  BY <1>14
<1>16. Len(q) = now - from + 1 /\ q[Len(q)] = c /\ Len(q) \in Nat BY <1>14, <1>7
<1>8. q = Stretch(next, first, from, c.end - from)
  <2>1. c.end - from = Len(q) /\ Len(q) \in Nat BY <1>1, <1>3, <1>16
  <2>2. \A j \in 1 .. Len(q) : q[j] = next[from - first + j]
    <3> SUFFICES ASSUME NEW j \in 1 .. Len(q) PROVE q[j] = next[from - first + j] OBVIOUS
    <3>1. CASE j = Len(q)
      <4>1. from - first + j = Len(src) + 1 BY <1>1, <1>3, <1>16, <3>1
      <4> QED BY <1>4, <1>16, <3>1, <4>1
    <3>2. CASE j # Len(q)
      <4>1. j \in 1 .. Len(part) /\ from - first + j \in 1 .. Len(src) BY <1>14, <1>16, <1>17, <3>2, SMTT(40)
      <4> QED BY <1>3, <1>4, <1>7, <4>1
    <3> QED BY <3>1, <3>2
  <2>3. q = [j \in 1 .. Len(q) |-> q[j]]
    <3> HIDE DEF q
    <3> QED BY <1>7
  <2> QED BY <2>1, <2>2, <2>3 DEF Stretch
<1>9. q # <<>> /\ Head(q) = q[1] /\ Last(q) = c /\ Head(q).start = from
  <2>1. Len(q) \in Nat \ {0} BY <1>1, <1>3, <1>16
  <2>2. Head(q) = q[1] /\ Last(q) = c /\ q # <<>>
    <3> HIDE DEF q
    <3> QED BY <1>7, <1>16, <2>1 DEF Last
  <2>3. q[1].start = from
    <3>1. CASE Len(part) = 0
      <4>1. q[1] = c /\ from = now BY <1>1, <1>3, <1>7, <1>14, <3>1
      <4> QED BY <4>1 DEF now
    <3>2. CASE Len(part) # 0
      <4>1. 1 \in 1 .. Len(part) BY <1>14, <3>2
      <4>2. q[1] = part[1] /\ part[1].start = from + 1 - 1 BY <1>7, <1>15, <4>1
      <4> QED BY <1>3, <4>2
    <3> QED BY <3>1, <3>2
  <2> QED BY <2>1, <2>2, <2>3
<1>10. ASSUME c.end = B + tf PROVE Whole(q, B, tf) <=> first <= B
  <2>1. Whole(q, B, tf) <=> Len(q) = tf /\ from = B /\ c.end = B + tf BY <1>9 DEF Whole
  <2>2. c.end = now + 1 /\ B \in Nat BY <1>1, <1>2
  <2> QED BY <1>10, <1>13, <1>16, <1>17, <2>1, <2>2
<1>11. Underway(IF c.end = B + tf THEN <<>> ELSE q, next, first, tf)
  <2>1. first + Len(next) = c.end /\ c.end \in Nat BY <1>1, <1>4
  <2>2. CASE c.end = B + tf
    <3>1. Bucket(c.end, tf) = c.end BY <1>2, <2>2
    <3>2. Opens(first, c.end, tf) = c.end BY <1>1, <1>3, <3>1 DEF Opens
    <3>3. <<>> = Stretch(next, first, c.end, c.end - c.end)
      <4>1. 1 .. (c.end - c.end) = {} BY <2>1
      <4> QED BY <4>1 DEF Stretch
    <3> QED BY <2>1, <2>2, <3>2, <3>3 DEF Underway
  <2>3. CASE c.end # B + tf
    <3>1. Bucket(c.end, tf) = B
      <4>1. B \in Nat /\ B <= now /\ now < B + tf BY <1>2
      <4>2. c.end = now + 1 /\ now \in Nat BY <1>1
      <4>3. B <= c.end /\ c.end < B + tf BY <2>3, <4>1, <4>2
      <4>4. \A u \in Nat : Bucket(u, tf) = B <=> B <= u /\ u < B + tf BY <1>2
      <4> QED BY <2>1, <4>3, <4>4
    <3>2. Opens(first, c.end, tf) = from BY <3>1 DEF Opens, from, B
    <3> QED BY <1>8, <2>1, <2>3, <3>2 DEF Underway
  <2> QED BY <2>2, <2>3
<1>12. part = <<>> => q = <<c>> OBVIOUS
<1> QED BY <1>5, <1>6, <1>8, <1>10, <1>11, <1>12 DEF B, now, from

\* A candle completes at most one stretch.
LEMMA SpansGrow ==
  ASSUME NEW tf \in Nat \ {0}, NEW first \in Nat, NEW now \in Nat, first <= now
  PROVE  Spanned(first, now + 1, tf) =
           Spanned(first, now, tf) \cup
             (IF now + 1 = Bucket(now, tf) + tf /\ first <= Bucket(now, tf) THEN {Bucket(now, tf)} ELSE {})
<1> DEFINE B == Bucket(now, tf)
<1>1. B \in Nat /\ B <= now /\ now < B + tf /\ \A u \in Nat : Bucket(u, tf) = B <=> B <= u /\ u < B + tf
  BY BucketsCutTime
<1>2. Bucket(B, tf) = B BY <1>1
<1>3. ASSUME NEW start \in Nat, Bucket(start, tf) = start, start + tf = now + 1 PROVE start = B
  <2> DEFINE b == Bucket(start, tf)
  <2>3. \A u \in Nat : Bucket(u, tf) = b <=> b <= u /\ u < b + tf BY BucketsCutTime
  <2>4. b = start BY <1>3
  <2> HIDE DEF b
  <2>1. \A u \in Nat : Bucket(u, tf) = start <=> start <= u /\ u < start + tf BY <2>3, <2>4
  <2>2. start <= now /\ now < start + tf BY <1>3
  <2> QED BY <2>1, <2>2
<1> HIDE DEF B
<1>4. ASSUME NEW start \in Spanned(first, now + 1, tf)
      PROVE  start \in Spanned(first, now, tf) \/ (start = B /\ now + 1 = B + tf /\ first <= B)
  <2>1. start \in Nat /\ Bucket(start, tf) = start /\ first <= start /\ start + tf <= now + 1 BY <1>4 DEF Spanned
  <2>2. CASE start + tf = now + 1 BY <1>3, <2>1, <2>2
  <2>3. CASE start + tf # now + 1
    <3>1. start + tf <= now BY <2>1, <2>3
    <3> QED BY <2>1, <3>1 DEF Spanned
  <2> QED BY <2>2, <2>3
<1>5. ASSUME NEW start \in Spanned(first, now, tf) PROVE start \in Spanned(first, now + 1, tf)
  <2>1. start \in Nat /\ Bucket(start, tf) = start /\ first <= start /\ start + tf <= now BY <1>5 DEF Spanned
  <2>2. start + tf <= now + 1 BY <2>1
  <2> QED BY <2>1, <2>2 DEF Spanned
<1>6. now + 1 = B + tf /\ first <= B => B \in Spanned(first, now + 1, tf) BY <1>1, <1>2 DEF Spanned
<1> QED BY <1>4, <1>5, <1>6 DEF B

\* The candles made of a source stay, and a candle that completes a bucket adds its own.
LEMMA MadeGrows ==
  ASSUME NEW tf \in Nat \ {0}, NEW first \in Nat, NEW src \in Runs(first),
         NEW part, Underway(part, src, first, tf), NEW rolled, Made(rolled, src, first, tf),
         NEW c \in Grains, c.start = first + Len(src), c.end = c.start + 1
  PROVE  Made(IF Emits(Append(part, c), c, tf)
              THEN Append(rolled, Aggregate(Append(part, c), Bucket(c.start, tf), tf)) ELSE rolled,
              Append(src, c), first, tf)
<1> DEFINE now == c.start
           B == Bucket(now, tf)
           q == Append(part, c)
           next == Append(src, c)
           new == Aggregate(q, B, tf)
           n == Len(rolled)
<1>1. Len(src) \in Nat /\ now \in Nat /\ now = first + Len(src) /\ c.end = now + 1 /\ first <= now BY DEF Runs
<1>2. B \in Nat /\ B <= now /\ now < B + tf BY <1>1, BucketsCutTime
<1>3. /\ next \in Runs(first) /\ first + Len(next) = now + 1
      /\ \A i \in 1 .. Len(src) : next[i] = src[i]
  <2>1. Len(next) = Len(src) + 1 /\ \A i \in 1 .. Len(src) : next[i] = src[i] BY DEF Runs
  <2> QED BY <1>1, <2>1, CandleJoins
<1>4. Emits(q, c, tf) <=> c.end = B + tf /\ first <= B BY CandleJoins DEF Emits
<1>5. /\ rolled \in Seq(Rolled) /\ n \in Nat /\ DOMAIN rolled = 1 .. n
      /\ {rolled[i].start : i \in 1 .. n} = Spanned(first, now, tf)
      /\ \A i, j \in 1 .. n : i < j => rolled[i].start < rolled[j].start
      /\ \A i \in 1 .. n : rolled[i] = Aggregate(Stretch(src, first, rolled[i].start, tf), rolled[i].start, tf)
  BY <1>1 DEF Made
<1>6. ASSUME NEW i \in 1 .. n
      PROVE  /\ rolled[i].start \in Nat /\ rolled[i].start + tf <= now
             /\ Stretch(next, first, rolled[i].start, tf) = Stretch(src, first, rolled[i].start, tf)
  <2>1. rolled[i].start \in Spanned(first, now, tf) BY <1>5
  <2> DEFINE s == rolled[i].start
  <2>2. s \in Nat /\ first <= s /\ s + tf <= now BY <2>1 DEF Spanned
  <2> HIDE DEF s
  <2>3. \A j \in 1 .. tf : s - first + j \in 1 .. Len(src) BY <1>1, <2>2
  <2>4. \A j \in 1 .. tf : next[s - first + j] = src[s - first + j] BY <1>3, <2>3
  <2> HIDE DEF next
  <2>5. Stretch(next, first, s, tf) = Stretch(src, first, s, tf) BY <2>4 DEF Stretch
  <2> QED BY <2>2, <2>5 DEF s
<1> HIDE DEF next, B, now
<1>7. CASE ~Emits(q, c, tf)
  <2>1. Spanned(first, now + 1, tf) = Spanned(first, now, tf)
    <3>1. Spanned(first, now + 1, tf) = Spanned(first, now, tf) \cup (IF now + 1 = B + tf /\ first <= B THEN {B} ELSE {})
      BY <1>1, SpansGrow DEF B
    <3>2. ~(now + 1 = B + tf /\ first <= B) BY <1>1, <1>4, <1>7
    <3> QED BY <3>1, <3>2
  <2>2. \A i \in 1 .. n : rolled[i] = Aggregate(Stretch(next, first, rolled[i].start, tf), rolled[i].start, tf)
    BY <1>5, <1>6
  <2>3. Made(rolled, next, first, tf) BY <1>3, <1>5, <2>1, <2>2 DEF Made
  <2> QED BY <1>7, <2>3 DEF next
<1>8. CASE Emits(q, c, tf)
  <2>1. c.end = B + tf /\ first <= B BY <1>4, <1>8
  <2>2. Spanned(first, now + 1, tf) = Spanned(first, now, tf) \cup {B} BY <1>1, <2>1, SpansGrow DEF B
  <2>3. q = Stretch(next, first, B, tf)
    <3>1. q = Stretch(next, first, Opens(first, now, tf), c.end - Opens(first, now, tf)) BY CandleJoins DEF next, now
    <3>2. Opens(first, now, tf) = B BY <2>1 DEF Opens, B
    <3>3. c.end - B = tf BY <1>2, <2>1
    <3> QED BY <3>1, <3>2, <3>3
  <2>4. q \in Seq(Grains) /\ Len(q) = tf
    <3>1. B + tf <= first + Len(next) BY <1>1, <1>3, <2>1
    <3>2. PieceOf(Stretch(next, first, B, tf), next, first, B, tf) BY <1>2, <1>3, <2>1, <3>1, StretchIs
    <3> QED BY <2>3, <3>2 DEF PieceOf
  <2>5. new \in Rolled /\ new.start = B
    <3>1. q # <<>> BY <2>4
    <3>2. Carries(Aggregate(q, B, tf), q, B, tf) BY <1>2, <2>4, <3>1, AggregateCarries
    <3> QED BY <3>2 DEF Carries
  <2> DEFINE all == Append(rolled, new)
  <2> HIDE DEF new, q
  <2>6. /\ all \in Seq(Rolled) /\ Len(all) = n + 1 /\ DOMAIN all = 1 .. n + 1
        /\ all[n + 1] = new /\ \A i \in 1 .. n : all[i] = rolled[i]
    BY <1>5, <2>5
  <2> HIDE DEF all
  <2>7. \A i \in 1 .. n + 1 : i = n + 1 \/ i \in 1 .. n BY <1>5
  <2>8. {all[i].start : i \in DOMAIN all} = Spanned(first, now + 1, tf)
    <3>1. {all[i].start : i \in 1 .. n + 1} = {rolled[i].start : i \in 1 .. n} \cup {B}
      <4>1. n + 1 \in 1 .. n + 1 /\ \A i \in 1 .. n : i \in 1 .. n + 1 BY <1>5
      <4> QED BY <2>5, <2>6, <2>7, <4>1
    <3> QED BY <1>5, <2>2, <2>6, <3>1
  <2>9. \A i \in 1 .. n + 1 : all[i] = Aggregate(Stretch(next, first, all[i].start, tf), all[i].start, tf)
    <3>1. \A i \in 1 .. n : rolled[i] = Aggregate(Stretch(next, first, rolled[i].start, tf), rolled[i].start, tf)
      BY <1>5, <1>6
    <3>2. new = Aggregate(Stretch(next, first, new.start, tf), new.start, tf) BY <2>3, <2>5 DEF new
    <3> QED BY <2>6, <2>7, <3>1, <3>2
  <2>10. ASSUME NEW i \in 1 .. n + 1, NEW j \in 1 .. n + 1, i < j PROVE all[i].start < all[j].start
    <3>1. i \in 1 .. n BY <1>5, <2>10
    <3>2. CASE j = n + 1
      <4>1. all[i].start \in Nat /\ all[i].start + tf <= now /\ all[j].start = B BY <1>6, <2>5, <2>6, <3>1, <3>2
      <4> QED BY <1>1, <1>2, <2>1, <4>1
    <3>3. CASE j \in 1 .. n BY <1>5, <2>6, <2>10, <3>1, <3>3
    <3> QED BY <2>7, <3>2, <3>3
  <2>11. Made(all, next, first, tf) BY <1>3, <2>6, <2>8, <2>9, <2>10 DEF Made
  <2> QED BY <1>8, <2>11 DEF all, new, q, next, B, now
<1> QED BY <1>7, <1>8

\* A candle made of a stretch stands for it.
LEMMA StretchCovered ==
  ASSUME NEW tf \in Nat \ {0}, NEW first \in Nat, source \in Runs(first),
         NEW start \in Spanned(first, first + Len(source), tf)
  PROVE  Covers(Aggregate(Stretch(source, first, start, tf), start, tf), start, tf)
<1> DEFINE bucket == Stretch(source, first, start, tf)
           made == Aggregate(bucket, start, tf)
           from == start - first + 1
           to == start - first + tf
           within == {i \in DOMAIN source : start <= source[i].start /\ source[i].end <= start + tf}
<1>1. source \in Seq(Grains) /\ Len(source) \in Nat /\ DOMAIN source = 1 .. Len(source)
      /\ \A i \in 1 .. Len(source) : source[i].start = first + i - 1 /\ source[i].end = first + i
  BY DEF Runs
<1>2. start \in Nat /\ first <= start /\ start + tf <= first + Len(source) BY DEF Spanned
<1>3. from \in Nat /\ to \in Nat /\ from <= to /\ 1 <= from /\ to <= Len(source) /\ to - from + 1 = tf BY <1>1, <1>2
<1>4. /\ bucket \in Seq(Grains) /\ Len(bucket) = tf
      /\ \A j \in 1 .. tf : bucket[j] = source[start - first + j]
  <2>1. PieceOf(bucket, source, first, start, tf)
    <3>1. tf \in Nat OBVIOUS
    <3> QED BY <1>2, <3>1, StretchIs
  <2> HIDE DEF bucket
  <2> QED BY <2>1 DEF PieceOf
<1>5. bucket # <<>> BY <1>4
<1>6. within = from .. to
  <2>1. ASSUME NEW i \in 1 .. Len(source)
        PROVE  start <= source[i].start /\ source[i].end <= start + tf <=> i \in from .. to
    BY <1>1, <1>2
  <2>2. \A i \in from .. to : i \in 1 .. Len(source) BY <1>3
  <2> HIDE DEF from, to
  <2> QED BY <1>1, <2>1, <2>2
<1>7. Cardinality(within) = tf
  <2>1. from \in Int /\ to \in Int /\ from <= to BY <1>3
  <2> HIDE DEF from, to, within
  <2>2. Cardinality(from .. to) = IF from > to THEN 0 ELSE to - from + 1 BY <2>1, FS_Interval
  <2>3. ~(from > to) BY <2>1
  <2> QED BY <1>3, <1>6, <2>2, <2>3
<1>8. Min(within) = from /\ Max(within) = to
  <2> DEFINE T == from .. to
  <2>1. T \subseteq Int /\ T # {} /\ from \in T /\ to \in T /\ \A i \in T : from <= i /\ i <= to BY <1>3
  <2>2. from \in Int /\ to \in Int BY <1>3
  <2> HIDE DEF T, from, to
  <2>3. Min(T) \in T /\ Max(T) \in T /\ \A i \in T : Min(T) <= i /\ i <= Max(T) BY <2>1, <2>2, BoundedExtremes
  <2>5. Min(T) \in Int /\ Max(T) \in Int BY <2>1, <2>3
  <2>6. Min(T) <= from /\ from <= Min(T) /\ Max(T) <= to /\ to <= Max(T) BY <2>1, <2>3
  <2>4. Min(T) = from /\ Max(T) = to BY <2>2, <2>5, <2>6
  <2> QED BY <1>6, <2>4 DEF T
<1> HIDE DEF bucket
<1>9. /\ made.start = start /\ made.end = start + tf /\ made.volume = tf
      /\ made.open = bucket[1].open /\ made.close = bucket[tf].close
      /\ \A j \in 1 .. tf : made.low <= bucket[j].low /\ bucket[j].high <= made.high
      /\ \E j \in 1 .. tf : made.low = bucket[j].low
      /\ \E j \in 1 .. tf : made.high = bucket[j].high
  <2>1. Carries(made, bucket, start, tf) BY <1>2, <1>4, <1>5, AggregateCarries
  <2> HIDE DEF made
  <2> QED BY <1>4, <2>1 DEF Carries
<1>10. \A j \in 1 .. tf : start - first + j \in from .. to BY <1>2
<1>11. \A i \in from .. to : i - from + 1 \in 1 .. tf /\ start - first + (i - from + 1) = i BY <1>2
<1>12. bucket[1] = source[from] /\ bucket[tf] = source[to]
  <2>1. 1 \in 1 .. tf /\ tf \in 1 .. tf OBVIOUS
  <2> QED BY <1>4, <2>1
<1> HIDE DEF made, from, to
<1>13. \A i \in within : made.low <= source[i].low /\ source[i].high <= made.high
  BY <1>4, <1>6, <1>9, <1>11
<1>14. \E i \in within : made.low = source[i].low BY <1>4, <1>6, <1>9, <1>10
<1>15. \E i \in within : made.high = source[i].high BY <1>4, <1>6, <1>9, <1>10
<1> HIDE DEF within
<1> QED BY <1>7, <1>8, <1>9, <1>12, <1>13, <1>14, <1>15 DEF Covers, within, made, bucket

\* Where a run of n numbers lies within the source, and that it is inside it.
LEMMA StretchPlaced ==
  ASSUME NEW first \in Int, NEW n \in Int, NEW start \in Int, NEW tf \in Int, NEW lo \in Int, NEW hi \in Int,
         1 <= lo, hi <= n
  PROVE  /\ (hi - lo + 1 = tf /\ first + lo - 1 = start /\ first + hi = start + tf)
               <=> (lo = start - first + 1 /\ hi = start - first + tf)
         /\ lo = start - first + 1 /\ hi = start - first + tf => first <= start /\ start + tf <= first + n
OBVIOUS

\* The candles of a bucket are whole when the source covers it, and are its stretch.
LEMMA GroupedIs ==
  ASSUME NEW tf \in Nat \ {0}, NEW first \in Nat, NEW src \in Runs(first),
         NEW i0 \in 1 .. Len(src), NEW start \in Nat, start = Bucket(src[i0].start, tf)
  PROVE  /\ Whole(Grouped(src, start, tf), start, tf) <=> start \in Spanned(first, first + Len(src), tf)
         /\ start \in Spanned(first, first + Len(src), tf) => Grouped(src, start, tf) = Stretch(src, first, start, tf)
<1> DEFINE n == Len(src)
           at == {i \in DOMAIN src : Bucket(src[i].start, tf) = start}
           lo == Min(at)
           hi == Max(at)
           g == SubSeq(src, lo, hi)
<1>1. src \in Seq(Grains) /\ n \in Nat /\ DOMAIN src = 1 .. n
      /\ \A i \in 1 .. n : src[i].start = first + i - 1 /\ src[i].end = first + i
  <2>1. src \in Seq(Grains) /\ \A i \in 1 .. n : src[i].start = first + i - 1 /\ src[i].end = first + i BY DEF Runs
  <2>2. n \in Nat /\ DOMAIN src = 1 .. n BY <2>1
  <2> QED BY <2>1, <2>2
<1>2. \A i \in 1 .. n : src[i].start \in Nat BY <1>1
<1>3. start \in Nat /\ \A u \in Nat : Bucket(u, tf) = start <=> start <= u /\ u < start + tf
  BY <1>2, BucketsCutTime
<1>4. \A i \in 1 .. n : i \in at <=> start <= first + i - 1 /\ first + i - 1 < start + tf BY <1>1, <1>2, <1>3
<1>5. i0 \in at /\ at \subseteq Int /\ \A i \in at : 1 <= i /\ i <= n BY <1>1
<1> HIDE DEF at
<1>6. lo \in at /\ hi \in at /\ \A i \in at : lo <= i /\ i <= hi
  <2>1. 1 \in Int /\ n \in Int BY <1>1
  <2> HIDE DEF n
  <2> QED BY <1>5, <2>1, BoundedExtremes
<1>13. n \in Nat /\ start \in Nat BY <1>1, <1>3
<1> HIDE DEF n, lo, hi
<1>7. lo \in 1 .. n /\ hi \in 1 .. n /\ lo <= hi
      /\ start <= first + lo - 1 /\ first + lo - 1 < start + tf /\ start <= first + hi - 1 /\ first + hi - 1 < start + tf
  <2>1. lo \in 1 .. n /\ hi \in 1 .. n /\ lo <= hi
    <3>1. 1 <= lo /\ lo <= n /\ 1 <= hi /\ hi <= n /\ lo <= hi /\ lo \in Int /\ hi \in Int BY <1>5, <1>6
    <3> QED BY <1>13, <3>1
  <2> QED BY <1>4, <1>6, <2>1
<1>14. lo \in Int /\ hi \in Int /\ 1 <= lo /\ hi <= n /\ tf \in Int /\ first \in Int /\ n \in Int /\ start \in Int BY <1>7, <1>13
<1>15. start <= first + lo - 1 /\ first + lo - 1 < start + tf /\ start <= first + hi - 1 /\ first + hi - 1 < start + tf
  BY <1>7
<1>8. /\ g \in Seq(Grains) /\ Len(g) = hi - lo + 1 /\ Head(g).start = first + lo - 1 /\ Last(g).end = first + hi
      /\ \A j \in 1 .. hi - lo + 1 : g[j] = src[lo + j - 1]
  <2>1. /\ g \in Seq(Grains) /\ Len(g) = hi - lo + 1 /\ \A j \in 1 .. hi - lo + 1 : g[j] = src[lo + j - 1]
    <3>1. \A i \in lo .. hi : src[i] \in Grains
      <4>1. \A i \in lo .. hi : i \in 1 .. n BY <1>7, <1>13
      <4> QED BY <1>1, <4>1 DEF n
    <3>2. /\ g \in Seq(Grains) /\ Len(g) = IF lo <= hi THEN hi - lo + 1 ELSE 0
          /\ \A j \in 1 .. hi - lo + 1 : g[j] = src[lo + j - 1]
      BY <1>14, <3>1, SubSeqProperties
    <3> QED BY <1>7, <3>2
  <2> HIDE DEF g
  <2>2. Len(g) \in Nat \ {0} /\ 1 \in 1 .. hi - lo + 1 /\ hi - lo + 1 \in 1 .. hi - lo + 1 BY <1>7, <2>1
  <2>3. g[1] = src[lo] /\ g[Len(g)] = src[hi] BY <1>7, <2>1, <2>2
  <2>4. Head(g) = g[1] /\ Last(g) = g[Len(g)] BY <2>1, <2>2 DEF Last
  <2> QED BY <1>1, <1>7, <2>1, <2>3, <2>4
<1> HIDE DEF g
<1>9. Whole(g, start, tf) <=> lo = start - first + 1 /\ hi = start - first + tf
  <2>1. Whole(g, start, tf) <=> hi - lo + 1 = tf /\ first + lo - 1 = start /\ first + hi = start + tf BY <1>8 DEF Whole
  <2>2. (hi - lo + 1 = tf /\ first + lo - 1 = start /\ first + hi = start + tf)
          <=> (lo = start - first + 1 /\ hi = start - first + tf)
    BY <1>14, StretchPlaced, SMTT(30)
  <2> QED BY <2>1, <2>2
<1>10. lo = start - first + 1 /\ hi = start - first + tf => start \in Spanned(first, first + n, tf)
  <2>1. Bucket(start, tf) = start BY <1>3
  <2> SUFFICES ASSUME lo = start - first + 1, hi = start - first + tf PROVE start \in Spanned(first, first + n, tf) OBVIOUS
  <2>2. first <= start /\ start + tf <= first + n BY <1>14, StretchPlaced
  <2> QED BY <1>13, <2>1, <2>2 DEF Spanned
<1>11. ASSUME start \in Spanned(first, first + n, tf)
       PROVE  lo = start - first + 1 /\ hi = start - first + tf /\ g = Stretch(src, first, start, tf)
  <2>1. first <= start /\ start + tf <= first + n BY <1>11 DEF Spanned
  <2>2. start - first + 1 \in at /\ start - first + tf \in at
    <3>1. start - first + 1 \in 1 .. n /\ start - first + tf \in 1 .. n BY <1>13, <2>1
    <3>2. /\ start <= first + (start - first + 1) - 1 /\ first + (start - first + 1) - 1 < start + tf
          /\ start <= first + (start - first + tf) - 1 /\ first + (start - first + tf) - 1 < start + tf
      BY <1>13
    <3> QED BY <1>4, <3>1, <3>2
  <2>3. lo = start - first + 1 /\ hi = start - first + tf
    <3>1. lo <= start - first + 1 /\ start - first + tf <= hi BY <1>6, <2>2
    <3> QED BY <1>14, <1>15, <3>1, SMTT(30)
  <2>4. g = [j \in 1 .. tf |-> src[start - first + j]]
    <3>3. hi - lo + 1 = tf /\ \A j \in 1 .. tf : lo + j - 1 = start - first + j BY <1>13, <2>3
    <3>1. Len(g) = tf /\ \A j \in 1 .. tf : g[j] = src[start - first + j] BY <1>8, <3>3
    <3>2. g = [j \in 1 .. tf |-> g[j]] BY <1>8, <3>1
    <3> QED BY <3>1, <3>2
  <2> QED BY <2>3, <2>4 DEF Stretch
<1>12. Grouped(src, start, tf) = g BY DEF Grouped, g, at, lo, hi
<1> QED BY <1>9, <1>10, <1>11, <1>12 DEF n

\* Ranks of an increasing series: as many are smaller than an element as come before it.
LEMMA RankIs ==
  ASSUME NEW n \in Nat, NEW f, \A i \in 1 .. n : f[i] \in Nat,
         \A i, j \in 1 .. n : i < j => f[i] < f[j]
  PROVE  LET values == {f[i] : i \in 1 .. n} IN
         /\ Cardinality(values) = n
         /\ \A i \in 1 .. n : Cardinality({v \in values : v < f[i]}) = i - 1
<1> DEFINE values == {f[i] : i \in 1 .. n}
           first(m) == {f[i] : i \in 1 .. m}
<1>1. \A i, j \in 1 .. n : f[i] < f[j] <=> i < j
  <2> SUFFICES ASSUME NEW i \in 1 .. n, NEW j \in 1 .. n PROVE f[i] < f[j] <=> i < j OBVIOUS
  <2>1. f[i] \in Nat /\ f[j] \in Nat OBVIOUS
  <2>2. i < j => f[i] < f[j] OBVIOUS
  <2>3. j < i => f[j] < f[i] OBVIOUS
  <2>4. i = j => f[i] = f[j] OBVIOUS
  <2> QED BY <2>1, <2>2, <2>3, <2>4
<1>2. ASSUME NEW m \in 0 .. n PROVE Cardinality(first(m)) = m
  <2> DEFINE g == [i \in 1 .. m |-> f[i]]
  <2>1. IsFiniteSet(1 .. m) /\ Cardinality(1 .. m) = m
    <3>1. \A k \in Nat : IsFiniteSet(1 .. k) /\ Cardinality(1 .. k) = IF 1 > k THEN 0 ELSE k - 1 + 1 BY FS_Interval
    <3> QED BY <3>1
  <2>2. \A i, j \in 1 .. m : f[i] = f[j] => i = j
    <3> SUFFICES ASSUME NEW i \in 1 .. m, NEW j \in 1 .. m, f[i] = f[j] PROVE i = j OBVIOUS
    <3>1. i \in 1 .. n /\ j \in 1 .. n OBVIOUS
    <3>2. f[i] \in Nat /\ f[j] \in Nat BY <3>1
    <3>3. ~(i < j) /\ ~(j < i) BY <1>1, <3>1, <3>2
    <3> QED BY <3>3
  <2>3. g \in Bijection(1 .. m, first(m))
    <3>1. g \in [1 .. m -> first(m)] OBVIOUS
    <3>2. \A i, j \in 1 .. m : g[i] = g[j] => i = j BY <2>2
    <3>3. \A v \in first(m) : \E i \in 1 .. m : g[i] = v OBVIOUS
    <3> HIDE DEF g, first
    <3>4. g \in Injection(1 .. m, first(m)) BY <3>1, <3>2 DEF Injection, IsInjective
    <3>5. g \in Surjection(1 .. m, first(m)) BY <3>1, <3>3 DEF Surjection
    <3> QED BY <3>4, <3>5 DEF Bijection
  <2>4. ExistsBijection(1 .. m, first(m)) BY <2>3 DEF ExistsBijection
  <2> QED BY <2>1, <2>4, FS_Bijection
<1>3. ASSUME NEW i \in 1 .. n PROVE {v \in values : v < f[i]} = first(i - 1)
  <2>1. \A j \in 1 .. n : f[j] < f[i] <=> j \in 1 .. i - 1 BY <1>1
  <2>2. \A j \in 1 .. i - 1 : j \in 1 .. n OBVIOUS
  <2> QED BY <2>1, <2>2
<1>4. \A i \in 1 .. n : i - 1 \in 0 .. n OBVIOUS
<1> HIDE DEF first
<1>5. Cardinality(values) = n
  <2>1. values = first(n) BY DEF first
  <2> QED BY <1>2, <2>1
<1> HIDE DEF values
<1>6. \A i \in 1 .. n : Cardinality({v \in values : v < f[i]}) = i - 1 BY <1>2, <1>3, <1>4
<1> QED BY <1>5, <1>6 DEF values

\* What is resampled in one go is what was made candle by candle.
LEMMA ResampleIs ==
  ASSUME NEW tf \in Nat \ {0}, NEW first \in Nat, NEW src \in Runs(first), src # <<>>,
         NEW rolled, Made(rolled, src, first, tf), NEW candles, NEW asOf, Visible(candles, asOf) = src
  PROVE  Resample(candles, tf, asOf) = rolled
<1> DEFINE n == Len(rolled)
           starts == {Bucket(src[i].start, tf) : i \in DOMAIN src}
           whole == {start \in starts : Whole(Grouped(src, start, tf), start, tf)}
           rank(s) == Cardinality({w \in whole : w < s})
           pick(i) == CHOOSE s \in whole : rank(s) = i - 1
           f == [i \in 1 .. n |-> rolled[i].start]
<1>1. /\ rolled \in Seq(Rolled) /\ n \in Nat /\ DOMAIN rolled = 1 .. n
      /\ {rolled[i].start : i \in 1 .. n} = Spanned(first, first + Len(src), tf)
      /\ \A i, j \in 1 .. n : i < j => rolled[i].start < rolled[j].start
      /\ \A i \in 1 .. n : rolled[i] = Aggregate(Stretch(src, first, rolled[i].start, tf), rolled[i].start, tf)
  BY DEF Made
<1>2. src \in Seq(Grains) /\ Len(src) \in Nat /\ DOMAIN src = 1 .. Len(src)
      /\ \A i \in 1 .. Len(src) : src[i].start = first + i - 1 /\ src[i].start \in Nat
  BY DEF Runs
<1>3. whole = Spanned(first, first + Len(src), tf)
  <2>1. ASSUME NEW start \in starts PROVE start \in whole <=> start \in Spanned(first, first + Len(src), tf)
    <3>1. PICK i \in 1 .. Len(src) : start = Bucket(src[i].start, tf) BY <1>2
    <3>2. start \in Nat BY <1>2, <3>1, BucketsCutTime
    <3> QED BY <3>1, <3>2, GroupedIs
  <2>2. ASSUME NEW start \in Spanned(first, first + Len(src), tf) PROVE start \in starts
    <3>1. start \in Nat /\ Bucket(start, tf) = start /\ first <= start /\ start + tf <= first + Len(src) BY DEF Spanned
    <3>2. start - first + 1 \in 1 .. Len(src) BY <1>2, <3>1
    <3>3. src[start - first + 1].start = start BY <1>2, <3>1, <3>2
    <3> QED BY <1>2, <3>1, <3>2, <3>3
  <2> HIDE DEF starts
  <2>3. whole \subseteq starts OBVIOUS
  <2> HIDE DEF whole
  <2> QED BY <2>1, <2>2, <2>3
<1>4. ASSUME NEW start \in whole PROVE Grouped(src, start, tf) = Stretch(src, first, start, tf)
  <2>1. start \in starts /\ start \in Spanned(first, first + Len(src), tf) BY <1>3, <1>4
  <2>2. PICK i \in 1 .. Len(src) : start = Bucket(src[i].start, tf) BY <1>2, <2>1
  <2>3. start \in Nat BY <2>1 DEF Spanned
  <2> QED BY <2>1, <2>2, <2>3, GroupedIs
<1> HIDE DEF whole, starts
<1>5. \A i \in 1 .. n : f[i] = rolled[i].start /\ f[i] \in whole /\ f[i] \in Nat
  <2>1. \A i \in 1 .. n : rolled[i].start \in Spanned(first, first + Len(src), tf) BY <1>1
  <2> QED BY <1>3, <2>1 DEF Spanned
<1>6. whole = {f[i] : i \in 1 .. n}
  <2>1. {f[i] : i \in 1 .. n} = {rolled[i].start : i \in 1 .. n} BY <1>5
  <2> QED BY <1>1, <1>3, <2>1
<1>7. \A i, j \in 1 .. n : i < j => f[i] < f[j] BY <1>1, <1>5
<1> HIDE DEF f
<1>8. Cardinality(whole) = n /\ \A i \in 1 .. n : rank(f[i]) = i - 1
  <2>1. \A i \in 1 .. n : f[i] \in Nat BY <1>5
  <2>2. n \in Nat BY <1>1
  <2> HIDE DEF n
  <2>3. LET values == {f[i] : i \in 1 .. n} IN
        /\ Cardinality(values) = n
        /\ \A i \in 1 .. n : Cardinality({v \in values : v < f[i]}) = i - 1
    BY <1>7, <2>1, <2>2, RankIs
  <2> QED BY <1>6, <2>3
<1> HIDE DEF rank
<1>9. ASSUME NEW i \in 1 .. n PROVE pick(i) = f[i]
  <2>1. \A s \in whole : rank(s) = i - 1 => s = f[i]
    <3> SUFFICES ASSUME NEW s \in whole, rank(s) = i - 1 PROVE s = f[i] OBVIOUS
    <3>1. PICK j \in 1 .. n : s = f[j] BY <1>6
    <3>2. j - 1 = i - 1 BY <1>8, <3>1
    <3>3. j = i BY <3>2
    <3> QED BY <3>1, <3>3
  <2>2. f[i] \in whole /\ rank(f[i]) = i - 1 BY <1>5, <1>8
  <2> QED BY <2>1, <2>2
<1>10. Resample(candles, tf, asOf) = [i \in 1 .. Cardinality(whole) |-> Aggregate(Grouped(src, pick(i), tf), pick(i), tf)]
  BY DEF Resample, whole, starts, rank
<1> HIDE DEF pick
<1>11. ASSUME NEW i \in 1 .. n PROVE Aggregate(Grouped(src, pick(i), tf), pick(i), tf) = rolled[i]
  <2>1. pick(i) = rolled[i].start /\ pick(i) \in whole BY <1>5, <1>9
  <2>2. Grouped(src, pick(i), tf) = Stretch(src, first, rolled[i].start, tf) BY <1>4, <2>1
  <2>3. Aggregate(Grouped(src, pick(i), tf), pick(i), tf) = Aggregate(Stretch(src, first, rolled[i].start, tf), rolled[i].start, tf)
    BY <2>1, <2>2
  <2> QED BY <1>1, <2>3
<1>12. [i \in 1 .. n |-> Aggregate(Grouped(src, pick(i), tf), pick(i), tf)] = [i \in 1 .. n |-> rolled[i]] BY <1>11
<1>13. rolled = [i \in 1 .. n |-> rolled[i]] BY <1>1
<1> QED BY <1>8, <1>10, <1>12, <1>13

\* What has closed of a source is all of it, whatever candle is still to come.
LEMMA VisibleIs ==
  ASSUME NEW first \in Nat, NEW src \in Runs(first), src # <<>>
  PROVE  LET asOf == Last(src).end IN
         /\ asOf = first + Len(src) /\ Visible(src, asOf) = src
         /\ \A c : c.end \in Int /\ c.end > asOf => Visible(Append(src, c), asOf) = src
<1> DEFINE n == Len(src)
           asOf == Last(src).end
<1>1. src \in Seq(Grains) /\ n \in Nat \ {0} /\ DOMAIN src = 1 .. n
      /\ \A i \in 1 .. n : src[i].end = first + i
  BY DEF Runs
<1>2. asOf = first + n
  <2>1. Last(src) = src[n] /\ n \in 1 .. n BY <1>1 DEF Last
  <2> QED BY <1>1, <2>1
<1>3. \A i \in 1 .. n : ~(src[i].end > asOf) BY <1>1, <1>2
<1>4. Visible(src, asOf) = src
  <2> HIDE DEF asOf, n
  <2>1. {i \in DOMAIN src : src[i].end > asOf} = {} BY <1>1, <1>3
  <2> QED BY <2>1 DEF Visible
<1>5. ASSUME NEW c, c.end \in Int, c.end > asOf PROVE Visible(Append(src, c), asOf) = src
  <2> DEFINE next == Append(src, c)
             later == {i \in DOMAIN next : next[i].end > asOf}
  <2>1. DOMAIN next = 1 .. n + 1 /\ next[n + 1] = c /\ \A i \in 1 .. n : next[i] = src[i] BY <1>1
  <2> HIDE DEF next, asOf, n
  <2>2. \A i \in 1 .. n + 1 : i = n + 1 \/ i \in 1 .. n BY <1>1
  <2>3. n + 1 \in 1 .. n + 1 /\ n + 1 \in Int BY <1>1
  <2>4. later = {n + 1} BY <1>3, <1>5, <2>1, <2>2, <2>3
  <2> HIDE DEF later
  <2>5. Min(later) = n + 1
    <3>1. later \subseteq Int /\ later # {} /\ \A i \in later : n + 1 <= i /\ i <= n + 1 BY <2>3, <2>4
    <3>2. Min(later) \in later BY <2>3, <3>1, BoundedExtremes
    <3> QED BY <2>4, <3>2
  <2>6. SubSeq(next, 1, Min(later) - 1) = src
    <3>1. Min(later) - 1 = n BY <1>1, <2>5
    <3>2. SubSeq(next, 1, n) \in Seq(Grains) /\ Len(SubSeq(next, 1, n)) = n
          /\ \A i \in 1 .. n : SubSeq(next, 1, n)[i] = src[i]
      <4>1. \A i \in 1 .. n : next[i] \in Grains BY <1>1, <2>1
      <4>2. /\ SubSeq(next, 1, n) \in Seq(Grains)
            /\ Len(SubSeq(next, 1, n)) = IF 1 <= n THEN n - 1 + 1 ELSE 0
            /\ \A i \in 1 .. n - 1 + 1 : SubSeq(next, 1, n)[i] = next[1 + i - 1]
        BY <1>1, <4>1, SubSeqProperties
      <4>3. n - 1 + 1 = n /\ 1 <= n /\ \A i \in 1 .. n : 1 + i - 1 = i BY <1>1
      <4> QED BY <2>1, <4>2, <4>3
    <3> DEFINE cut == SubSeq(next, 1, n)
    <3> HIDE DEF cut
    <3>3. cut \in Seq(Grains) /\ Len(cut) = Len(src) /\ \A i \in 1 .. Len(src) : cut[i] = src[i] BY <3>2 DEF cut, n
    <3>4. cut = src
      <4>1. src \in Seq(Grains) BY <1>1
      <4> QED BY <3>3, <4>1
    <3> QED BY <3>1, <3>4 DEF cut
  <2>7. later # {} BY <2>4
  <2>8. Visible(next, asOf) = IF later = {} THEN next ELSE SubSeq(next, 1, Min(later) - 1) BY Zenon DEF Visible, later
  <2>9. Visible(next, asOf) = src
    <3>1. Visible(next, asOf) = SubSeq(next, 1, Min(later) - 1) BY <2>7, <2>8, Zenon
    <3> QED BY <2>6, <3>1, Zenon
  <2> QED BY <2>9 DEF next
<1> QED BY <1>2, <1>4, <1>5 DEF n, asOf

\* The inductive invariant: the source is a run of closed candles, and each timeframe's
\* open bucket and candles are those of the source.
MtfInv ==
  /\ source \in Seq(Grains) /\ emitted \subseteq Timeframes \cup {0}
  /\ pending = [tf \in Timeframes |-> pending[tf]] /\ series = [tf \in Timeframes |-> series[tf]]
  /\ \A first \in Nat :
       (source # <<>> => first = source[1].start) =>
         /\ source \in Runs(first)
         /\ \A tf \in Timeframes : Underway(pending[tf], source, first, tf) /\ Made(series[tf], source, first, tf)

\* It holds before the first push.
LEMMA MtfStart == MtfInit => MtfInv
<1> SUFFICES ASSUME MtfInit PROVE MtfInv OBVIOUS
<1>1. source = <<>> /\ emitted = {} /\ pending = [tf \in Timeframes |-> <<>>] /\ series = [tf \in Timeframes |-> <<>>]
  BY DEF MtfInit
<1>2. ASSUME NEW first \in Nat PROVE <<>> \in Runs(first) BY DEF Runs
<1>3. ASSUME NEW first \in Nat, NEW tf \in Timeframes
      PROVE  Underway(<<>>, <<>>, first, tf) /\ Made(<<>>, <<>>, first, tf)
  <2>1. tf \in Nat \ {0} BY TimeframesAssumption
  <2>2. Bucket(first, tf) \in Nat /\ Bucket(first, tf) <= first BY <2>1, BucketsCutTime
  <2>3. Opens(first, first, tf) = first BY <2>2 DEF Opens
  <2>4. Stretch(<<>>, first, first, 0) = <<>>
    <3>1. 1 .. 0 = {} OBVIOUS
    <3> QED BY <3>1 DEF Stretch
  <2>5. Spanned(first, first, tf) = {} BY <2>1 DEF Spanned
  <2>6. first + Len(<<>>) = first /\ first - first = 0 OBVIOUS
  <2>7. Underway(<<>>, <<>>, first, tf) BY <2>3, <2>4, <2>6 DEF Underway
  <2>8. <<>> \in Seq(Rolled) /\ Len(<<>>) = 0 /\ DOMAIN <<>> = {} /\ 1 .. 0 = {} OBVIOUS
  <2>9. {<<>>[i].start : i \in {}} = {} OBVIOUS
  <2>10. Made(<<>>, <<>>, first, tf) BY <2>5, <2>6, <2>8, <2>9 DEF Made
  <2> QED BY <2>7, <2>10
<1>4. \A tf \in Timeframes : pending[tf] = <<>> /\ series[tf] = <<>> BY <1>1
<1>5. source \in Seq(Grains) BY <1>1
<1>6. \A first \in Nat : source \in Runs(first) BY <1>1, <1>2
<1>7. \A first \in Nat, tf \in Timeframes : Underway(pending[tf], source, first, tf) /\ Made(series[tf], source, first, tf)
  BY <1>1, <1>3, <1>4
<1> QED BY <1>1, <1>5, <1>6, <1>7 DEF MtfInv

\* A push joins a candle to the source or is refused.
LEMMA PushKeeps ==
  ASSUME MtfInv, NEW c \in Grains, Follows(c), c.end = c.start + 1, Push(c)
  PROVE  MtfInv'
<1>1. PICK first \in Nat :
        /\ source # <<>> => first = source[1].start
        /\ source = <<>> => first = c.start
  <2>1. CASE source = <<>>
    <3>1. c.start \in Nat BY DEF Grains
    <3> QED BY <2>1, <3>1
  <2>2. CASE source # <<>>
    <3>1. source[1] \in Grains BY <2>2 DEF MtfInv
    <3>2. source[1].start \in Nat BY <3>1 DEF Grains
    <3> QED BY <2>2, <3>2
  <2> QED BY <2>1, <2>2
<1>2. /\ source \in Runs(first) /\ source \in Seq(Grains)
      /\ \A tf \in Timeframes : Underway(pending[tf], source, first, tf) /\ Made(series[tf], source, first, tf)
  BY <1>1 DEF MtfInv
<1>3. c.start = first + Len(source)
  <2>1. CASE source = <<>> BY <1>1, <2>1
  <2>2. CASE source # <<>> BY <1>2, <2>2, VisibleIs DEF Follows
  <2> QED BY <2>1, <2>2
<1>4. WellFormed(c)
  <2>1. c.closed
    <3>1. c.closed \in {TRUE} BY DEF Grains
    <3> QED BY <3>1, Zenon
  <2>2. c.end - c.start = 1
    <3>1. c.start \in Nat BY DEF Grains
    <3> QED BY <3>1
  <2> QED BY <2>1, <2>2 DEF WellFormed
<1> DEFINE now == {tf \in Timeframes : Emits(OpenBucket(tf, c), c, tf)}
           next == Append(source, c)
<1>5. /\ source' = next /\ emitted' = now
      /\ series' = [tf \in Timeframes |->
           IF tf \in now THEN Append(series[tf], Aggregate(OpenBucket(tf, c), Bucket(c.start, tf), tf)) ELSE series[tf]]
      /\ pending' = [tf \in Timeframes |->
           IF c.end = Bucket(c.start, tf) + tf THEN <<>> ELSE OpenBucket(tf, c)]
  BY <1>4 DEF Push
<1>6. ASSUME NEW tf \in Timeframes
      PROVE  /\ next \in Runs(first)
             /\ Underway(pending'[tf], next, first, tf) /\ Made(series'[tf], next, first, tf)
  <2> DEFINE part == pending[tf]
             rolled == series[tf]
             q == Append(part, c)
  <2>1. tf \in Nat \ {0} BY TimeframesAssumption
  <2>2. Underway(part, source, first, tf) /\ Made(rolled, source, first, tf) BY <1>2
  <2> HIDE DEF part, rolled
  <2>3. /\ next \in Runs(first)
        /\ part # <<>> => Bucket(Head(part).start, tf) = Bucket(c.start, tf)
        /\ part = <<>> => q = <<c>>
        /\ Underway(IF c.end = Bucket(c.start, tf) + tf THEN <<>> ELSE q, next, first, tf)
    BY <1>2, <1>3, <2>1, <2>2, CandleJoins
  <2>4. Made(IF Emits(q, c, tf) THEN Append(rolled, Aggregate(q, Bucket(c.start, tf), tf)) ELSE rolled, next, first, tf)
    BY <1>2, <1>3, <2>1, <2>2, MadeGrows
  <2>5. OpenBucket(tf, c) = q BY <2>3 DEF OpenBucket, part
  <2> HIDE DEF q
  <2>6. pending'[tf] = IF c.end = Bucket(c.start, tf) + tf THEN <<>> ELSE q BY <1>5, <2>5
  <2>7. series'[tf] = IF Emits(q, c, tf) THEN Append(rolled, Aggregate(q, Bucket(c.start, tf), tf)) ELSE rolled
    BY <1>5, <2>5 DEF rolled
  <2> QED BY <2>3, <2>4, <2>6, <2>7
<1>7. next \in Seq(Grains) /\ next # <<>> /\ next[1].start = first /\ next \in Runs(first)
  <2>1. next \in Seq(Grains) /\ next # <<>> BY <1>2
  <2>2. next[1].start = first
    <3>1. CASE source = <<>>
      <4>1. next[1] = c BY <3>1
      <4> QED BY <1>1, <3>1, <4>1
    <3>2. CASE source # <<>>
      <4>1. next[1] = source[1] BY <1>2, <3>2
      <4> QED BY <1>1, <3>2, <4>1
    <3> QED BY <3>1, <3>2
  <2>3. next \in Runs(first)
    <3>1. Len(next) = Len(source) + 1 /\ Len(source) \in Nat /\ next[Len(source) + 1] = c
          /\ \A i \in 1 .. Len(source) : next[i] = source[i]
      BY <1>2
    <3>2. \A i \in 1 .. Len(source) : source[i].start = first + i - 1 /\ source[i].end = first + i BY <1>2 DEF Runs
    <3> SUFFICES ASSUME NEW i \in 1 .. Len(next) PROVE next[i].start = first + i - 1 /\ next[i].end = first + i
      BY <2>1 DEF Runs
    <3>3. CASE i = Len(source) + 1 BY <1>3, <3>1, <3>3
    <3>4. CASE i # Len(source) + 1
      <4>1. i \in 1 .. Len(source) BY <3>1, <3>4
      <4> QED BY <3>1, <3>2, <4>1
    <3> QED BY <3>3, <3>4
  <2> QED BY <2>1, <2>2, <2>3
<1>8. pending' = [tf \in Timeframes |-> pending'[tf]] /\ series' = [tf \in Timeframes |-> series'[tf]]
      /\ emitted' \subseteq Timeframes \cup {0}
  BY <1>5
<1>9. source' = next BY <1>5
<1> HIDE DEF next, now
<1>10. source' \in Seq(Grains) BY <1>7, <1>9
<1>11. ASSUME NEW other \in Nat, source' # <<>> => other = source'[1].start
       PROVE  /\ source' \in Runs(other)
              /\ \A tf \in Timeframes : Underway(pending'[tf], source', other, tf) /\ Made(series'[tf], source', other, tf)
  <2>1. other = first BY <1>7, <1>9, <1>11
  <2> QED BY <1>6, <1>7, <1>9, <2>1
<1> QED BY <1>8, <1>10, <1>11 DEF MtfInv

\* Whatever candle is pushed, the invariant is kept.
LEMMA MtfKeeps == ASSUME MtfInv, [MtfNext]_mtfVars PROVE MtfInv'
<1>1. CASE UNCHANGED mtfVars BY <1>1 DEF MtfInv, mtfVars
<1>2. CASE MtfNext
  <2>0. PICK starts \in SUBSET Nat : \E c \in Offered(starts) : Push(c)
    <3> DEFINE S == IF source = <<>> THEN Starts ELSE {Last(source).start, Last(source).end, Last(source).end + 1}
    <3>1. S \subseteq Nat
      <4>1. CASE source = <<>> BY <4>1, TimeframesAssumption
      <4>2. CASE source # <<>>
        <5>1. Last(source) \in Grains BY <4>2 DEF MtfInv, Last
        <5> QED BY <4>2, <5>1 DEF Grains
      <4> QED BY <4>1, <4>2
    <3>2. \E c \in Offered(S) : Push(c) BY <1>2 DEF MtfNext
    <3> HIDE DEF S
    <3> QED BY <3>1, <3>2
  <2>1. PICK c \in Offered(starts) : Push(c) BY <2>0
  <2>2. CASE WellFormed(c) /\ Follows(c)
    <3>1. PICK shape \in Shapes, start \in starts, lasts \in {1, 2}, closed \in BOOLEAN :
            c = SourceCandle(shape, start, lasts, closed)
      BY <2>1 DEF Offered
    <3>2. start \in Nat /\ shape \in [open : Nat, high : Nat, low : Nat, close : Nat] BY <2>1, TimeframesAssumption
    <3>3. c = [open |-> shape.open, high |-> shape.high, low |-> shape.low, close |-> shape.close,
               volume |-> 1, start |-> start, end |-> start + lasts, closed |-> closed]
      BY <3>1 DEF SourceCandle
    <3>4. closed = TRUE /\ lasts = 1
      <4>1. c.closed /\ c.end - c.start = 1 BY <2>2 DEF WellFormed
      <4>2. c.closed = closed /\ c.end = start + lasts /\ c.start = start BY <3>3
      <4> QED BY <3>2, <4>1, <4>2
    <3>5. c \in Grains /\ c.end = c.start + 1 BY <3>2, <3>3, <3>4 DEF Grains
    <3> QED BY <2>1, <2>2, <3>5, PushKeeps
  <2>3. CASE ~(WellFormed(c) /\ Follows(c))
    <3>1. emitted' = {0} /\ UNCHANGED <<source, pending, series>> BY <2>1, <2>3 DEF Push
    <3> QED BY <3>1 DEF MtfInv
  <2> QED BY <2>2, <2>3
<1> QED BY <1>1, <1>2

\* The stretches of a timeframe are those the source spans.
LEMMA StretchesAre ==
  ASSUME NEW tf \in Nat \ {0}, NEW first \in Nat, source \in Runs(first), source # <<>>
  PROVE  Stretches(tf) = Spanned(first, first + Len(source), tf)
<1> DEFINE n == Len(source)
<1>1. source \in Seq(Grains) /\ n \in Nat \ {0} /\ DOMAIN source = 1 .. n
      /\ \A i \in 1 .. n : source[i].start = first + i - 1 /\ source[i].start \in Nat
  <2>1. source \in Seq(Grains) /\ \A i \in 1 .. n : source[i].start = first + i - 1 BY DEF Runs
  <2>2. n \in Nat \ {0} /\ DOMAIN source = 1 .. n BY <2>1
  <2> HIDE DEF n
  <2>3. \A i \in 1 .. n : first + i - 1 \in Nat BY <2>2
  <2> QED BY <2>1, <2>2, <2>3
<1>2. AsOf = first + n BY VisibleIs DEF AsOf
<1>3. Head(source).start = first
  <2>1. Head(source) = source[1] /\ 1 \in 1 .. n BY <1>1
  <2> QED BY <1>1, <2>1
<1> HIDE DEF n
<1>4. ASSUME NEW start \in Stretches(tf) PROVE start \in Spanned(first, first + n, tf)
  <2>1. start \in {Bucket(source[i].start, tf) : i \in DOMAIN source} /\ first <= start /\ start + tf <= first + n
    BY <1>2, <1>3, <1>4 DEF Stretches
  <2>2. PICK i \in 1 .. n : start = Bucket(source[i].start, tf) BY <1>1, <2>1
  <2>3. source[i].start \in Nat BY <1>1
  <2>4. start \in Nat /\ start <= source[i].start
        /\ \A u \in Nat : Bucket(u, tf) = start <=> start <= u /\ u < start + tf
    BY <2>2, <2>3, BucketsCutTime
  <2>5. Bucket(start, tf) = start BY <2>4
  <2> QED BY <2>1, <2>4, <2>5 DEF Spanned
<1>5. ASSUME NEW start \in Spanned(first, first + n, tf) PROVE start \in Stretches(tf)
  <2>1. start \in Nat /\ Bucket(start, tf) = start /\ first <= start /\ start + tf <= first + n BY DEF Spanned
  <2>2. start - first + 1 \in 1 .. n BY <1>1, <2>1
  <2>3. source[start - first + 1].start = start BY <1>1, <2>1, <2>2
  <2>4. start \in {Bucket(source[i].start, tf) : i \in DOMAIN source} BY <1>1, <2>1, <2>2, <2>3
  <2> QED BY <1>2, <1>3, <2>1, <2>4 DEF Stretches
<1> QED BY <1>4, <1>5 DEF n

\* What the cursor knows of a source that has begun.
LEMMA MtfKnows ==
  ASSUME MtfInv, source # <<>>
  PROVE  \E first \in Nat :
           /\ source \in Runs(first)
           /\ \A tf \in Timeframes : tf \in Nat \ {0} /\ Underway(pending[tf], source, first, tf)
                                     /\ Made(series[tf], source, first, tf)
<1>1. source[1] \in Grains BY DEF MtfInv
<1>2. source[1].start \in Nat BY <1>1 DEF Grains
<1> QED BY <1>2, TimeframesAssumption DEF MtfInv

\* _validate_source accepts such a source.
LEMMA RunsAreValid ==
  ASSUME NEW first \in Nat, NEW src \in Runs(first) PROVE ValidSource(src)
<1>1. src \in Seq(Grains) /\ Len(src) \in Nat /\ DOMAIN src = 1 .. Len(src)
      /\ \A i \in 1 .. Len(src) : src[i].start = first + i - 1 /\ src[i].end = first + i
  BY DEF Runs
<1>2. ASSUME NEW i \in 1 .. Len(src) PROVE WellFormed(src[i])
  <2>1. src[i].closed
    <3>1. src[i] \in Grains BY <1>1
    <3>2. src[i].closed \in {TRUE} BY <3>1 DEF Grains
    <3> QED BY <3>2, Zenon
  <2>2. src[i].end - src[i].start = 1
    <3>1. src[i].start = first + i - 1 /\ src[i].end = first + i BY <1>1
    <3> QED BY <3>1
  <2> QED BY <2>1, <2>2 DEF WellFormed
<1>3. Contiguous(src)
  <2> SUFFICES ASSUME NEW i \in 1 .. Len(src) - 1 PROVE src[i + 1].start = src[i].start + 1 BY DEF Contiguous
  <2>1. i \in 1 .. Len(src) /\ i + 1 \in 1 .. Len(src) BY <1>1
  <2>2. src[i + 1].start = first + (i + 1) - 1 /\ src[i].start = first + i - 1 BY <1>1, <2>1
  <2> QED BY <2>2
<1> QED BY <1>1, <1>2, <1>3 DEF ValidSource

\* The invariant gives the type invariant.
LEMMA MtfTyped == ASSUME MtfInv PROVE MtfTypeOK
<1>1. \E first \in Nat : source # <<>> => first = source[1].start
  <2>1. CASE source = <<>> BY <2>1
  <2>2. CASE source # <<>>
    <3>1. source[1] \in Grains BY <2>2 DEF MtfInv
    <3> QED BY <3>1 DEF Grains
  <2> QED BY <2>1, <2>2
<1>2. PICK first \in Nat :
        /\ source \in Runs(first)
        /\ \A tf \in Timeframes : Underway(pending[tf], source, first, tf)
  BY <1>1 DEF MtfInv
<1>3. ValidSource(source) BY <1>2, RunsAreValid
<1>4. ASSUME NEW tf \in Timeframes PROVE Len(pending[tf]) < tf
  <2>1. tf \in Nat \ {0} BY TimeframesAssumption
  <2>2. Underway(pending[tf], source, first, tf) BY <1>2
  <2> DEFINE part == pending[tf]
  <2> HIDE DEF part
  <2>3. Len(part) < tf BY <1>2, <2>1, <2>2, UnderwayIs DEF part
  <2> QED BY <2>3 DEF part
<1> QED BY <1>3, <1>4 DEF MtfTypeOK, MtfInv

\* The invariant gives whole buckets, each once, in order of time.
LEMMA MtfWhole == ASSUME MtfInv PROVE BucketsWhole
<1> SUFFICES ASSUME source # <<>>, NEW tf \in Timeframes
             PROVE  /\ {series[tf][i].start : i \in DOMAIN series[tf]} = Stretches(tf)
                    /\ \A i \in DOMAIN series[tf] :
                         /\ Covers(series[tf][i], series[tf][i].start, tf)
                         /\ i > 1 => series[tf][i - 1].start < series[tf][i].start
  BY DEF BucketsWhole
<1>1. PICK first \in Nat : source \in Runs(first) /\ tf \in Nat \ {0} /\ Made(series[tf], source, first, tf) BY MtfKnows
<1> DEFINE rolled == series[tf]
<1>2. /\ rolled \in Seq(Rolled)
      /\ {rolled[i].start : i \in DOMAIN rolled} = Spanned(first, first + Len(source), tf)
      /\ \A i \in 1 .. Len(rolled) :
           rolled[i] = Aggregate(Stretch(source, first, rolled[i].start, tf), rolled[i].start, tf)
      /\ \A i, j \in 1 .. Len(rolled) : i < j => rolled[i].start < rolled[j].start
  BY <1>1 DEF Made
<1> HIDE DEF rolled
<1>3. DOMAIN rolled = 1 .. Len(rolled) /\ Len(rolled) \in Nat BY <1>2
<1>4. {rolled[i].start : i \in DOMAIN rolled} = Stretches(tf)
  <2>1. Stretches(tf) = Spanned(first, first + Len(source), tf) BY <1>1, StretchesAre
  <2> QED BY <1>2, <2>1
<1>5. ASSUME NEW i \in 1 .. Len(rolled) PROVE Covers(rolled[i], rolled[i].start, tf)
  <2>1. rolled[i].start \in Spanned(first, first + Len(source), tf) BY <1>2, <1>3
  <2> DEFINE start == rolled[i].start
  <2>2. rolled[i] = Aggregate(Stretch(source, first, start, tf), start, tf) BY <1>2
  <2> HIDE DEF start
  <2>3. start \in Spanned(first, first + Len(source), tf) BY <2>1 DEF start
  <2>4. Covers(Aggregate(Stretch(source, first, start, tf), start, tf), start, tf) BY <1>1, <2>3, StretchCovered
  <2>5. Covers(rolled[i], start, tf) BY <2>2, <2>4
  <2> QED BY <2>5 DEF start
<1>6. ASSUME NEW i \in 1 .. Len(rolled), i > 1 PROVE rolled[i - 1].start < rolled[i].start
  <2>1. i - 1 \in 1 .. Len(rolled) /\ i - 1 < i BY <1>3, <1>6
  <2> QED BY <1>2, <2>1
<1> QED BY <1>3, <1>4, <1>5, <1>6 DEF rolled

\* What is sliced of a source whose visible part is the one the cursor has seen.
LEMMA SliceIs ==
  ASSUME MtfInv, source # <<>>, NEW candles, NEW asOf, Visible(candles, asOf) = source
  PROVE  Slice(candles, asOf) = [refused |-> FALSE, series |-> series]
<1>1. PICK first \in Nat :
        /\ source \in Runs(first)
        /\ \A tf \in Timeframes : tf \in Nat \ {0} /\ Made(series[tf], source, first, tf)
  BY MtfKnows
<1>2. ValidSource(Visible(candles, asOf)) = TRUE
  <2>1. ValidSource(source) BY <1>1, RunsAreValid
  <2> QED BY <2>1 DEF ValidSource
<1>3. ASSUME NEW tf \in Timeframes PROVE Resample(candles, tf, asOf) = series[tf]
  <2>1. Made(series[tf], source, first, tf) /\ tf \in Nat \ {0} BY <1>1
  <2> QED BY <1>1, <2>1, ResampleIs
<1>4. [tf \in Timeframes |-> Resample(candles, tf, asOf)] = series
  <2>1. series = [tf \in Timeframes |-> series[tf]] BY DEF MtfInv
  <2> QED BY <1>3, <2>1
<1> DEFINE valid == ValidSource(Visible(candles, asOf))
<1>5. Slice(candles, asOf) = [refused |-> ~valid,
        series |-> [tf \in Timeframes |-> IF valid THEN Resample(candles, tf, asOf) ELSE <<>>]]
  BY DEF Slice
<1>6. valid = TRUE BY <1>2
<1> HIDE DEF valid
<1> QED BY <1>4, <1>5, <1>6

\* The invariant gives that both ways agree, whatever is still to come.
LEMMA MtfNoLookAhead == ASSUME MtfInv PROVE NoLookAhead
<1> SUFFICES ASSUME source # <<>>
             PROVE  LET known == [refused |-> FALSE, series |-> series]
                    IN  /\ Slice(source, AsOf) = known
                        /\ \A c \in Offered({AsOf, AsOf + 1}) : Slice(Append(source, c), AsOf) = known
  BY DEF NoLookAhead
<1>1. PICK first \in Nat : source \in Runs(first) BY MtfKnows
<1>2. /\ AsOf = first + Len(source) /\ Visible(source, AsOf) = source
      /\ \A c : c.end \in Int /\ c.end > AsOf => Visible(Append(source, c), AsOf) = source
  BY <1>1, VisibleIs DEF AsOf
<1>3. AsOf \in Nat
  <2>1. Len(source) \in Nat BY <1>1 DEF Runs
  <2> QED BY <1>2, <2>1
<1>4. Slice(source, AsOf) = [refused |-> FALSE, series |-> series] BY <1>2, SliceIs
<1>5. ASSUME NEW c \in Offered({AsOf, AsOf + 1}) PROVE Slice(Append(source, c), AsOf) = [refused |-> FALSE, series |-> series]
  <2>1. PICK shape \in Shapes, start \in {AsOf, AsOf + 1}, lasts \in {1, 2}, closed \in BOOLEAN :
          c = SourceCandle(shape, start, lasts, closed)
    BY DEF Offered
  <2>2. c.end = start + lasts BY <2>1 DEF SourceCandle
  <2>3. c.end \in Int /\ c.end > AsOf BY <1>3, <2>1, <2>2
  <2>4. Visible(Append(source, c), AsOf) = source BY <1>2, <2>3
  <2> QED BY <2>4, SliceIs
<1> QED BY <1>4, <1>5

---------------------------------------------------------------------------
(* A history kept in step with the exchange.  A history is empty or a       *)
(* stretch of bars; one that has not gone astray is settled: all but its    *)
(* last were observed when they had closed.                                 *)

Observation == [until : Nat, revision : {0, 1}]
Rows == UNION {[D -> Observation] : D \in SUBSET (0 .. EndOfSync)}

Continues(rows, first, last) ==
  /\ first <= last /\ 2 * last < EndOfSync
  /\ rows \in [first .. last -> Observation]
  /\ \A b \in first .. last : rows[b].until \in 1 .. Closes(b)

IsHistory(rows) == rows = <<>> \/ \E first, last \in Nat : Continues(rows, first, last)

Settled(rows) == \A b, c \in DOMAIN rows : b < c => Final(b, rows[b])

Holds(h, rows) == IsHistory(rows) /\ (h \in astray \/ Settled(rows))

AllKept ==
  /\ Holds("archive", archive) /\ Holds("consolidated", synced.consolidated)
  /\ Holds("minimal", synced.minimal) /\ Holds("run", sync.rows)

SyncShape ==
  /\ hour \in 0 .. EndOfSync
  /\ revised \in Listed(hour) \cup {None}
  /\ synced \in [consolidated : Rows, minimal : Rows, plan : Rows \cup {None}]
  /\ sync \in [step : {"rest", "clock", "fetch", "build", "write", "minimal", "plan", "done"},
               rows : Rows, clock : Int, since : Nat, fetched : Rows, exact : BOOLEAN]
  /\ sync.step # "rest" => sync.rows # <<>>
  /\ astray \subseteq {"consolidated", "minimal", "run"}

\* What was fetched had closed, but for the last candle of a run whose clock is ahead,
\* and for any of one whose clock is more than a bar ahead.
FetchedClosed ==
  /\ sync.step = "clock" => sync.fetched = <<>>
  /\ ("run" \in astray \/ sync.clock <= hour + 2) /\ (sync.exact => sync.clock <= hour)
  /\ \A b \in DOMAIN sync.fetched :
       /\ 2 * b < EndOfSync /\ b <= LastClosed
       /\ sync.fetched[b].until \in 1 .. Closes(b)
       /\ sync.exact \/ ("run" \notin astray /\ b < LastClosed) => Final(b, sync.fetched[b])

\* Pages end with the last closed candle, and so does what is made of them.
ReachesLast ==
  /\ sync.step = "fetch" /\ sync.since > LastClosed /\ sync.fetched # <<>> => LastClosed \in DOMAIN sync.fetched
  /\ sync.step = "build" /\ sync.exact /\ sync.fetched # <<>> => LastClosed \in DOMAIN sync.fetched
  /\ sync.step \in {"write", "minimal", "plan", "done"} /\ sync.exact /\ sync.fetched # <<>> =>
       /\ LastClosed \in DOMAIN sync.rows
       /\ \A b \in DOMAIN sync.rows : b <= LastClosed /\ ("run" \in astray \/ Final(b, sync.rows[b]))

FilesAgree ==
  /\ sync.step \in {"minimal", "plan", "done"} => synced.consolidated = sync.rows
  /\ sync.step \in {"plan", "done"} => synced.minimal = sync.rows

SyncInv ==
  /\ SyncShape /\ AllKept
  /\ FetchedClosed /\ ReachesLast /\ FilesAgree

\* An empty history is one of no bars.
LEMMA NoRows == <<>> \in Rows /\ DOMAIN <<>> = {} /\ IsHistory(<<>>) /\ Settled(<<>>)
<1>1. <<>> \in [{} -> Observation] /\ {} \in SUBSET (0 .. EndOfSync)
  OBVIOUS
<1>2. [{} -> Observation] \subseteq Rows
  BY <1>1 DEF Rows
<1> QED
  BY <1>1, <1>2 DEF IsHistory, Settled

LEMMA RowsAre ==
  ASSUME NEW rows
  PROVE  rows \in Rows <=> /\ DOMAIN rows \subseteq 0 .. EndOfSync
                           /\ rows \in [DOMAIN rows -> Observation]
BY DEF Rows

\* Without a bar there is no row.
LEMMA SomeBar == ASSUME NEW rows \in Rows, rows # <<>> PROVE DOMAIN rows # {}
<1> SUFFICES ASSUME DOMAIN rows = {} PROVE FALSE
  OBVIOUS
<1>1. rows = [b \in {} |-> rows[b]]
  BY RowsAre
<1>2. [b \in {} |-> rows[b]] = <<>>
  OBVIOUS
<1> QED
  BY <1>1, <1>2

\* The ends of a stretch of bars.
LEMMA EndsOf ==
  ASSUME NEW first \in Nat, NEW last \in Nat, first <= last
  PROVE  Min(first .. last) = first /\ Max(first .. last) = last
<1>1. Min(first .. last) = first
  <2>1. \A x \in first .. last : (\A y \in first .. last : x <= y) <=> x = first
    OBVIOUS
  <2> QED
    BY <2>1 DEF Min
<1>2. Max(first .. last) = last
  <2>1. \A x \in first .. last : (\A y \in first .. last : x >= y) <=> x = last
    OBVIOUS
  <2> QED
    BY <2>1 DEF Max
<1> QED
  BY <1>1, <1>2

\* A stretch is a history, and what is asked of one holds of it.
LEMMA ContinuesIs ==
  ASSUME NEW rows, NEW first \in Nat, NEW last \in Nat, Continues(rows, first, last)
  PROVE  /\ rows \in Rows /\ rows # <<>> /\ IsHistory(rows)
         /\ DOMAIN rows = first .. last /\ Min(DOMAIN rows) = first /\ LastBar(rows) = last
         /\ Valid(rows)
<1>1. /\ first <= last /\ 2 * last < EndOfSync /\ rows \in [first .. last -> Observation]
      /\ DOMAIN rows = first .. last
  BY DEF Continues
<1>2. rows \in Rows
  BY <1>1, SyncAssumption, RowsAre
<1>3. Min(DOMAIN rows) = first /\ LastBar(rows) = last
  BY <1>1, EndsOf DEF LastBar
<1>4. rows # <<>>
  <2>1. first \in DOMAIN rows
    BY <1>1
  <2> QED
    BY <2>1, NoRows
<1> QED
  BY <1>1, <1>2, <1>3, <1>4 DEF IsHistory, Valid, LastBar

\* Conversely.
LEMMA ValidContinues ==
  ASSUME NEW rows \in Rows, Valid(rows),
         \A b \in DOMAIN rows : 2 * b < EndOfSync /\ rows[b].until \in 1 .. Closes(b)
  PROVE  IsHistory(rows)
<1> DEFINE first == Min(DOMAIN rows)
           last == Max(DOMAIN rows)
<1>1. /\ rows # <<>> /\ DOMAIN rows = first .. last /\ DOMAIN rows \subseteq 0 .. EndOfSync
      /\ rows \in [DOMAIN rows -> Observation]
  BY RowsAre DEF Valid
<1>2. DOMAIN rows # {} /\ DOMAIN rows \subseteq Nat /\ \A b \in DOMAIN rows : b <= EndOfSync
  BY <1>1, SomeBar, SyncAssumption
<1>3. last \in DOMAIN rows /\ \A b \in DOMAIN rows : b <= last
  BY <1>2, LargestMember, SyncAssumption
<1>4. first \in DOMAIN rows /\ \A b \in DOMAIN rows : first <= b
  BY <1>2, SmallestMember DEF Min
<1> HIDE DEF first, last
<1>5. first \in Nat /\ last \in Nat /\ first <= last
  BY <1>2, <1>3, <1>4
<1>6. Continues(rows, first, last)
  BY <1>1, <1>3, <1>5 DEF Continues
<1> QED
  BY <1>5, <1>6 DEF IsHistory

\* What was flushed of a history is the beginning of it, as settled as it was.
LEMMA TornIsHistory ==
  ASSUME NEW rows, IsHistory(rows), rows # <<>>, NEW n \in Nat
  PROVE  /\ Until(rows, n) \in Rows /\ IsHistory(Until(rows, n))
         /\ Settled(rows) => Settled(Until(rows, n))
<1>1. PICK first \in Nat, last \in Nat : Continues(rows, first, last)
  BY DEF IsHistory
<1>2. /\ first <= last /\ 2 * last < EndOfSync /\ rows \in [first .. last -> Observation]
      /\ DOMAIN rows = first .. last
      /\ \A b \in first .. last : rows[b].until \in 1 .. Closes(b)
  BY <1>1 DEF Continues
<1> DEFINE most == IF n <= last - first THEN first + n - 1 ELSE last
           torn == Until(rows, n)
<1>3. \A x \in first .. last : Cardinality({y \in first .. last : y <= x}) = x - first + 1
  <2> TAKE x \in first .. last
  <2>1. {y \in first .. last : y <= x} = first .. x
    OBVIOUS
  <2>2. Cardinality(first .. x) = x - first + 1
    BY FS_Interval
  <2> QED
    BY <2>1, <2>2
<1>4. {x \in DOMAIN rows : Cardinality({y \in DOMAIN rows : y <= x}) <= n} = first .. most
  BY <1>2, <1>3
<1>5. torn = [b \in first .. most |-> rows[b]]
  BY <1>4 DEF Until
<1>6. most \in Int /\ most <= last
  BY <1>2
<1> HIDE DEF most, torn
<1>7. CASE most < first
  <2>1. first .. most = {}
    BY <1>6, <1>7
  <2>2. torn = <<>>
    BY <1>5, <2>1
  <2> QED
    BY <2>2, NoRows DEF torn
<1>8. CASE first <= most
  <2>1. most \in Nat
    BY <1>6, <1>8
  <2>2. Continues(torn, first, most)
    <3>1. first .. most \subseteq first .. last
      BY <1>6
    <3>2. torn \in [first .. most -> Observation] /\ \A b \in first .. most : torn[b] = rows[b]
      BY <1>2, <1>5, <3>1
    <3>3. 2 * most < EndOfSync
      BY <1>2, <1>6, <2>1, SyncAssumption
    <3>4. \A b \in first .. most : torn[b].until \in 1 .. Closes(b)
      BY <1>2, <3>1, <3>2
    <3> QED
      BY <1>8, <3>2, <3>3, <3>4 DEF Continues
  <2>3. Settled(rows) => Settled(torn)
    <3>1. /\ DOMAIN torn \subseteq DOMAIN rows
          /\ \A b \in DOMAIN torn : torn[b] = rows[b]
      BY <1>2, <1>5, <1>6
    <3> QED
      BY <3>1 DEF Settled
  <2> QED
    BY <2>1, <2>2, <2>3, ContinuesIs DEF torn
<1> QED
  BY <1>6, <1>7, <1>8

\* A history that is repaired and extended is one, and ends where the candles do that
\* were fetched; it is settled if it was and all but the last of them had closed.
LEMMA CombinedIsHistory ==
  ASSUME NEW rows, IsHistory(rows), rows # <<>>, NEW fetched \in Rows, NEW top \in Int,
         \A b \in DOMAIN fetched : /\ 2 * b < EndOfSync /\ b <= top
                                   /\ fetched[b].until \in 1 .. Closes(b),
         ~Refused(rows, fetched), Valid(Combined(rows, fetched))
  PROVE  LET combined == Combined(rows, fetched)
         IN  /\ combined \in Rows /\ IsHistory(combined)
             /\ fetched # <<>> =>
                  /\ DOMAIN fetched \subseteq DOMAIN combined
                  /\ \A b \in DOMAIN combined :
                       /\ b <= top
                       /\ \/ b \in DOMAIN fetched /\ combined[b] = fetched[b]
                          \/ Settled(rows) => Final(b, combined[b])
             /\ Settled(rows) /\ (\A b \in DOMAIN fetched : b < top => Final(b, fetched[b])) =>
                  Settled(combined)
<1> DEFINE combined == Combined(rows, fetched)
<1>1. PICK first \in Nat, last \in Nat : Continues(rows, first, last)
  BY DEF IsHistory
<1>2. rows \in Rows /\ DOMAIN rows = first .. last /\ LastBar(rows) = last
  BY <1>1, ContinuesIs
<1>3. /\ first <= last /\ 2 * last < EndOfSync /\ rows \in [first .. last -> Observation]
      /\ \A b \in first .. last : rows[b].until \in 1 .. Closes(b)
      /\ Settled(rows) => \A b \in first .. last : b < last => Final(b, rows[b])
  <2>1. /\ first <= last /\ 2 * last < EndOfSync /\ rows \in [first .. last -> Observation]
        /\ \A b \in first .. last : rows[b].until \in 1 .. Closes(b)
    BY <1>1 DEF Continues
  <2>2. last \in DOMAIN rows
    BY <1>2, <2>1
  <2> QED
    BY <1>2, <2>1, <2>2 DEF Settled
<1>4. CASE fetched = <<>>
  BY <1>2, <1>4 DEF Combined
<1>5. CASE fetched # <<>>
  <2>1. /\ Compared(rows) \subseteq DOMAIN fetched
        /\ combined = Appended(Repaired(rows, fetched), fetched)
    BY <1>5 DEF Refused, LacksOverlap, Combined
  <2>2. last \in Compared(rows) /\ last \in DOMAIN fetched /\ last <= top
    <3>1. last \in Compared(rows)
      BY <1>2, <1>3, SyncAssumption DEF Compared
    <3> QED
      BY <2>1, <3>1
  <2>3. /\ DOMAIN combined = DOMAIN rows \cup DOMAIN fetched
        /\ combined \in [DOMAIN combined -> Observation]
        /\ \A b \in DOMAIN combined :
             \/ b \in DOMAIN fetched /\ combined[b] = fetched[b]
             \/ b \in DOMAIN rows /\ b < last /\ combined[b] = rows[b]
    <3>1. /\ DOMAIN Repaired(rows, fetched) = DOMAIN rows
          /\ combined = [b \in DOMAIN rows \cup DOMAIN fetched |->
                           IF b \in DOMAIN rows THEN Repaired(rows, fetched)[b] ELSE fetched[b]]
      BY <2>1 DEF Appended, Repaired
    <3>2. \A b \in DOMAIN rows : Repaired(rows, fetched)[b] =
                                   IF b \in Differing(rows, fetched) THEN fetched[b] ELSE rows[b]
      BY DEF Repaired
    <3>3. \A b \in Differing(rows, fetched) : b \in DOMAIN fetched
      BY <2>1 DEF Differing
    <3>4. last \notin Differing(rows, fetched) => rows[last] = fetched[last]
      BY <2>2 DEF Differing
    <3>5. \A b \in DOMAIN rows : \/ b \in DOMAIN fetched /\ Repaired(rows, fetched)[b] = fetched[b]
                                 \/ b < last /\ Repaired(rows, fetched)[b] = rows[b]
      <4> TAKE b \in DOMAIN rows
      <4>1. b <= last /\ b \in Int
        BY <1>2
      <4> QED
        BY <2>2, <3>2, <3>3, <3>4, <4>1
    <3>6. /\ fetched \in [DOMAIN fetched -> Observation]
          /\ \A b \in DOMAIN rows : rows[b] \in Observation
      BY <1>2, RowsAre
    <3>7. \A b \in DOMAIN combined :
             \/ b \in DOMAIN fetched /\ combined[b] = fetched[b]
             \/ b \in DOMAIN rows /\ b < last /\ combined[b] = rows[b]
      BY <3>1, <3>5
    <3>8. \A b \in DOMAIN combined : combined[b] \in Observation
      BY <3>6, <3>7
    <3> HIDE DEF combined
    <3> QED
      BY <3>1, <3>7, <3>8
  <2> HIDE DEF combined
  <2>4. DOMAIN fetched \subseteq 0 .. EndOfSync /\ DOMAIN rows \subseteq 0 .. EndOfSync
    BY <1>2, RowsAre
  <2>5. combined \in Rows
    BY <2>3, <2>4, RowsAre
  <2>6. \A b \in DOMAIN combined :
          /\ 2 * b < EndOfSync /\ combined[b].until \in 1 .. Closes(b)
          /\ b <= top
          /\ \/ b \in DOMAIN fetched /\ combined[b] = fetched[b]
             \/ Settled(rows) => Final(b, combined[b])
    <3> SUFFICES ASSUME NEW b \in DOMAIN combined
                 PROVE  /\ 2 * b < EndOfSync /\ combined[b].until \in 1 .. Closes(b)
                        /\ b <= top
                        /\ \/ b \in DOMAIN fetched /\ combined[b] = fetched[b]
                           \/ Settled(rows) => Final(b, combined[b])
      OBVIOUS
    <3>1. CASE b \in DOMAIN fetched /\ combined[b] = fetched[b]
      BY <3>1
    <3>2. CASE b \in DOMAIN rows /\ b < last /\ combined[b] = rows[b]
      <4>1. /\ b \in first .. last /\ b \in Int /\ combined[b].until \in 1 .. Closes(b)
            /\ Settled(rows) => Final(b, combined[b])
        BY <1>2, <1>3, <3>2
      <4>2. 2 * b < EndOfSync /\ b <= top
        BY <1>3, <2>2, <3>2, <4>1, SyncAssumption
      <4> QED
        BY <4>1, <4>2
    <3> QED
      BY <2>3, <3>1, <3>2
  <2>7. Settled(rows) /\ (\A b \in DOMAIN fetched : b < top => Final(b, fetched[b])) => Settled(combined)
    <3> SUFFICES ASSUME Settled(rows), \A b \in DOMAIN fetched : b < top => Final(b, fetched[b]),
                        NEW b \in DOMAIN combined, NEW c \in DOMAIN combined, b < c
                 PROVE  Final(b, combined[b])
      BY DEF Settled
    <3>1. b \in Int /\ c \in Int /\ c <= top
      BY <2>3, <2>4, <2>6
    <3>2. b < top
      BY <3>1
    <3>3. \/ b \in DOMAIN fetched /\ combined[b] = fetched[b]
          \/ Final(b, combined[b])
      BY <2>6
    <3> QED
      BY <3>2, <3>3
  <2>8. IsHistory(combined)
    BY <2>5, <2>6, ValidContinues DEF combined
  <2> QED
    BY <1>5, <2>3, <2>5, <2>6, <2>7, <2>8 DEF combined
<1> QED
  BY <1>4, <1>5

LEMMA HistoryRows ==
  ASSUME NEW rows, IsHistory(rows)
  PROVE  rows \in Rows /\ (rows # <<>> => Valid(rows))
BY NoRows, ContinuesIs DEF IsHistory

\* What the files hold.
LEMMA StoredAre ==
  /\ DOMAIN Stored = {"archive", "consolidated", "minimal", "run"}
  /\ Stored["archive"] = archive /\ Stored["consolidated"] = synced.consolidated
  /\ Stored["minimal"] = synced.minimal /\ Stored["run"] = sync.rows
BY DEF Stored

LEMMA HoldsIs ==
  ASSUME AllKept, NEW h \in DOMAIN Stored
  PROVE  Holds(h, Stored[h])
BY StoredAre DEF AllKept

\* A run at rest, and one that has fetched nothing yet.
LEMMA RestIs ==
  /\ Resting = [step |-> "rest", rows |-> <<>>, clock |-> 0, since |-> 0, fetched |-> <<>>, exact |-> FALSE]
  /\ Resting.rows = <<>> /\ IsHistory(<<>>) /\ Settled(<<>>) /\ <<>> \in Rows /\ DOMAIN <<>> = {}
BY NoRows DEF Resting

\* The user's history is one.
LEMMA SyncStart == SyncInit => SyncInv
<1> SUFFICES ASSUME SyncInit PROVE SyncInv
  OBVIOUS
<1>1. PICK n \in FirstLengths :
        /\ hour \in {2 * n - 1, 2 * n}
        /\ archive = [b \in 0 .. n - 1 |-> [until |-> Min({hour, Closes(b)}), revision |-> 0]]
  BY DEF SyncInit
<1>2. n \in Nat \ {0} /\ 2 * n <= EndOfSync /\ EndOfSync \in Nat /\ n - 1 \in Nat
  BY SyncAssumption
<1>3. revised = None /\ sync = Resting /\ astray = {} /\ synced = [consolidated |-> <<>>, minimal |-> <<>>, plan |-> None]
  BY DEF SyncInit
<1>4. \A b \in 0 .. n - 1 : Min({hour, Closes(b)}) = IF b < n - 1 THEN Closes(b) ELSE hour
  <2> TAKE b \in 0 .. n - 1
  <2>1. hour \in Int /\ Closes(b) \in Int /\ hour <= 2 * n /\ hour >= 2 * n - 1 /\ Closes(b) = 2 * b + 2
    BY <1>1, <1>2 DEF Closes
  <2>2. \A x \in {hour, Closes(b)} :
          (\A y \in {hour, Closes(b)} : x <= y) <=> x = IF b < n - 1 THEN Closes(b) ELSE hour
    BY <1>2, <2>1
  <2>3. (IF b < n - 1 THEN Closes(b) ELSE hour) \in {hour, Closes(b)}
    OBVIOUS
  <2> QED
    BY <2>2, <2>3 DEF Min
<1>5. Continues(archive, 0, n - 1) /\ Settled(archive)
  <2>1. ASSUME NEW b \in 0 .. n - 1
        PROVE  /\ archive[b] \in Observation /\ archive[b].until \in 1 .. Closes(b)
               /\ b < n - 1 => Final(b, archive[b])
    <3> DEFINE until == IF b < n - 1 THEN Closes(b) ELSE hour
    <3>1. archive[b] = [until |-> until, revision |-> 0]
      BY <1>1, <1>4
    <3>2. until \in 1 .. Closes(b) /\ until \in Nat /\ (b < n - 1 => until = Closes(b))
      BY <1>1, <1>2 DEF Closes
    <3> HIDE DEF until
    <3>3. archive[b].until = until /\ archive[b] \in Observation
      BY <3>1, <3>2 DEF Observation
    <3> QED
      BY <3>2, <3>3 DEF Final
  <2>2. archive \in [0 .. n - 1 -> Observation]
    BY <1>1, <2>1
  <2>3. \A b, c \in 0 .. n - 1 : b < c => Final(b, archive[b])
    BY <1>2, <2>1
  <2> QED
    BY <1>1, <1>2, <2>1, <2>2, <2>3 DEF Continues, Settled
<1>6. IsHistory(archive)
  BY <1>2, <1>5, ContinuesIs
<1>7. AllKept
  BY <1>3, <1>5, <1>6, RestIs DEF AllKept, Holds
<1>8. SyncShape
  BY <1>1, <1>2, <1>3, RestIs DEF SyncShape
<1>9. FetchedClosed /\ ReachesLast /\ FilesAgree
  BY <1>1, <1>2, <1>3, RestIs DEF FetchedClosed, ReachesLast, FilesAgree
<1> QED
  BY <1>7, <1>8, <1>9 DEF SyncInv

LEMMA OpenSourceKeeps ==
  ASSUME SyncInv, NEW file \in {"archive", "consolidated"}, NEW offline \in BOOLEAN,
         OpenSource(file, offline)
  PROVE  SyncInv'
<1> DEFINE rows == Stored[file]
<1>1. Holds(file, rows) /\ rows # <<>>
  BY HoldsIs, StoredAre DEF SyncInv, OpenSource, Valid
<1>2. /\ UNCHANGED <<hour, revised, archive, synced>>
      /\ sync' = [step |-> IF offline THEN "write" ELSE "clock", rows |-> rows, clock |-> 0, since |-> 0,
                  fetched |-> <<>>, exact |-> FALSE]
      /\ astray' = Passed(file, "run")
  BY RestIs DEF OpenSource
<1> HIDE DEF rows
<1>3. /\ astray' \subseteq {"consolidated", "minimal", "run"}
      /\ \A h \in {"archive", "consolidated", "minimal"} : h \in astray' <=> h \in astray
      /\ "run" \in astray' <=> file \in astray
  BY <1>2 DEF SyncInv, SyncShape, Passed
<1>4. AllKept'
  BY <1>1, <1>2, <1>3 DEF SyncInv, AllKept, Holds
<1>5. SyncShape'
  BY <1>1, <1>2, <1>3, RestIs, HistoryRows DEF SyncInv, SyncShape, Listed, Holds
<1>6. FetchedClosed' /\ ReachesLast' /\ FilesAgree'
  BY <1>2, RestIs DEF SyncInv, SyncShape, FetchedClosed, ReachesLast, FilesAgree
<1> QED
  BY <1>4, <1>5, <1>6 DEF SyncInv

\* A clock that is more than a bar ahead leads its run astray.
LEMMA ReadClockKeeps == ASSUME SyncInv, NEW ahead \in ClockErrors, ReadClock(ahead) PROVE SyncInv'
<1> DEFINE first == Max({0, LastBar(sync.rows) - (Overlap - 1)})
           exact == ahead = 0
           reading == hour + ahead
<1>1. ahead \in Int /\ hour \in Nat
  BY SyncAssumption DEF SyncInv, SyncShape
<1>2. first \in Nat
  <2>1. LastBar(sync.rows) \in Nat
    <3>1. IsHistory(sync.rows) /\ sync.rows # <<>>
      BY DEF SyncInv, SyncShape, AllKept, Holds, ReadClock
    <3>2. PICK from \in Nat, to \in Nat : Continues(sync.rows, from, to)
      BY <3>1 DEF IsHistory
    <3> QED
      BY <3>2, ContinuesIs
  <2> DEFINE most == LastBar(sync.rows) - (Overlap - 1)
             pair == {0, most}
  <2>2. most \in Int /\ \A n \in pair : n <= LastBar(sync.rows)
    BY <2>1, SyncAssumption
  <2>3. pair \subseteq Int /\ 0 \in pair
    BY <2>2
  <2>4. Max(pair) \in pair /\ \A n \in pair : n <= Max(pair)
    BY <2>1, <2>2, <2>3, LargestInteger
  <2> QED
    BY <2>2, <2>4
<1> HIDE DEF first
<1>3. /\ UNCHANGED <<hour, revised, archive, synced>>
      /\ sync.step = "clock"
      /\ sync' = [sync EXCEPT !.step = "fetch", !.clock = reading, !.exact = exact, !.since = first]
      /\ reading \in Int /\ exact \in BOOLEAN
      /\ "run" \in astray' \/ reading <= hour + 2
      /\ exact => reading <= hour
      /\ astray' \in {astray, astray \cup {"run"}}
  BY <1>1 DEF ReadClock, first
<1> HIDE DEF exact, reading
<1>4. AllKept'
  BY <1>3 DEF SyncInv, SyncShape, AllKept, Holds
<1>5. SyncShape'
  BY <1>2, <1>3 DEF SyncInv, SyncShape, Listed
<1>6. sync.fetched = <<>> /\ DOMAIN sync.fetched = {} /\ sync'.fetched = <<>>
  BY <1>3, NoRows DEF SyncInv, SyncShape, FetchedClosed
<1>7. sync'.step = "fetch" /\ sync'.clock = reading /\ sync'.exact = exact
  BY <1>3 DEF SyncInv, SyncShape
<1>8. FetchedClosed' /\ ReachesLast' /\ FilesAgree'
  BY <1>3, <1>6, <1>7, NoRows DEF FetchedClosed, ReachesLast, FilesAgree
<1> QED
  BY <1>4, <1>5, <1>8 DEF SyncInv

\* A page ends where the exchange's candles or the answer do.
LEMMA BatchIs ==
  ASSUME SyncShape, Batch # {}
  PROVE  /\ Max(Batch) \in Batch /\ \A b \in Batch : b <= Max(Batch)
         /\ Max(Batch) \in Nat /\ 2 * Max(Batch) < hour
         /\ Batch \subseteq 0 .. EndOfSync
         /\ \A b \in Batch : b \in Nat /\ 2 * b < hour /\ b >= sync.since
         /\ \A b \in Nat : sync.since <= b /\ b <= Max(Batch) => b \in Batch
<1>1. /\ hour \in Nat /\ hour <= EndOfSync /\ sync.since \in Nat /\ EndOfSync \in Nat /\ PageSize \in Nat
  BY SyncAssumption DEF SyncShape
<1>2. \A b : b \in Batch <=> /\ b \in 0 .. EndOfSync /\ 2 * b < hour
                             /\ b >= sync.since /\ b < sync.since + PageSize
  BY DEF Batch, Listed
<1>3. Batch \subseteq Nat /\ \A b \in Batch : b <= EndOfSync
  BY <1>1, <1>2
<1>4. Max(Batch) \in Batch /\ \A b \in Batch : b <= Max(Batch)
  BY <1>1, <1>3, LargestMember
<1>5. Max(Batch) \in Nat /\ 2 * Max(Batch) < hour
  <2> DEFINE most == Max(Batch)
  <2>1. most \in Batch
    BY <1>4
  <2> HIDE DEF most
  <2>2. most \in Nat /\ 2 * most < hour
    BY <1>2, <1>3, <2>1
  <2> QED
    BY <2>2 DEF most
<1>6. \A b \in Nat : sync.since <= b /\ b <= Max(Batch) => b \in Batch
  <2> DEFINE most == Max(Batch)
  <2>1. most \in Batch
    BY <1>4
  <2> HIDE DEF most
  <2>2. \A b \in Nat : sync.since <= b /\ b <= most => b \in Batch
    BY <1>1, <1>2, <1>3, <2>1
  <2> QED
    BY <2>2 DEF most
<1>7. \A b \in Batch : b \in Nat /\ 2 * b < hour /\ b >= sync.since
  BY <1>2, <1>3
<1>8. Batch \subseteq 0 .. EndOfSync
  BY <1>2
<1> QED
  BY <1>4, <1>5, <1>6, <1>7, <1>8

LEMMA FetchPageKeeps == ASSUME SyncInv, FetchPage PROVE SyncInv'
<1> DEFINE kept == {b \in Batch : ClosedBy(b, sync.clock)}
           fetched == [b \in DOMAIN sync.fetched \cup kept |->
                         IF b \in kept THEN Observed(b, hour) ELSE sync.fetched[b]]
           after == Max(Batch) + 1
           step == IF Max(Batch) >= LastClosed THEN "build" ELSE "fetch"
<1>1. /\ UNCHANGED <<hour, revised, archive, synced>>
      /\ sync.step = "fetch" /\ sync.since <= LastClosed /\ Batch # {}
      /\ astray' = astray
      /\ sync' = [sync EXCEPT !.fetched = fetched, !.since = after, !.step = step]
  BY DEF FetchPage
<1>2. /\ hour \in Nat /\ hour <= EndOfSync /\ EndOfSync \in Nat /\ sync.clock \in Int
      /\ ("run" \in astray \/ sync.clock <= hour + 2) /\ (sync.exact => sync.clock <= hour)
      /\ LastClosed \in Int /\ 2 * LastClosed + 2 <= sync.clock /\ sync.clock <= 2 * LastClosed + 3
      /\ LastClosed = sync.clock \div 2 - 1
  BY SyncAssumption DEF SyncInv, SyncShape, FetchedClosed, LastClosed, BarAt
<1>3. /\ Max(Batch) \in Batch /\ \A b \in Batch : b <= Max(Batch)
      /\ Max(Batch) \in Nat /\ 2 * Max(Batch) < hour
      /\ Batch \subseteq 0 .. EndOfSync
      /\ \A b \in Batch : b \in Nat /\ 2 * b < hour /\ b >= sync.since
      /\ \A b \in Nat : sync.since <= b /\ b <= Max(Batch) => b \in Batch
  BY <1>1, BatchIs DEF SyncInv
<1>4. \A b \in kept : /\ b \in Batch /\ b <= LastClosed
  BY <1>2, <1>3 DEF ClosedBy, BarAt
<1>5. \A b \in kept : /\ Observed(b, hour) \in Observation
                      /\ Observed(b, hour).until \in 1 .. Closes(b)
                      /\ Closes(b) <= hour => Final(b, Observed(b, hour))
  <2> TAKE b \in kept
  <2> DEFINE until == Min({hour, Closes(b)})
  <2>1. b \in Nat /\ 2 * b < hour /\ Closes(b) = 2 * b + 2
    BY <1>3, <1>4 DEF Closes
  <2>2. until = IF Closes(b) <= hour THEN Closes(b) ELSE hour
    <3> DEFINE end == Closes(b)
               least == IF end <= hour THEN end ELSE hour
    <3>1. end \in Int
      BY <2>1
    <3> HIDE DEF end
    <3>2. \A x \in {hour, end} : (\A y \in {hour, end} : x <= y) <=> x = least
      BY <1>2, <3>1
    <3>3. least \in {hour, end}
      OBVIOUS
    <3> HIDE DEF least
    <3>4. Min({hour, end}) = least
      BY <3>2, <3>3 DEF Min
    <3> QED
      BY <3>4 DEF least, end
  <2>3. until \in 1 .. Closes(b) /\ until \in Nat
    BY <1>2, <2>1, <2>2
  <2> HIDE DEF until
  <2>4. Observed(b, hour) = [until |-> until, revision |-> IF b = revised THEN 1 ELSE 0]
    BY DEF Observed, until
  <2> QED
    BY <2>2, <2>3, <2>4 DEF Observation, Final
<1> HIDE DEF kept
<1>6. /\ DOMAIN fetched = DOMAIN sync.fetched \cup kept
      /\ \A b \in kept : fetched[b] = Observed(b, hour)
      /\ \A b \in DOMAIN sync.fetched : b \in kept \/ fetched[b] = sync.fetched[b]
      /\ fetched = [b \in DOMAIN fetched |-> fetched[b]]
  OBVIOUS
<1> HIDE DEF fetched
<1>7. fetched \in Rows
  <2>1. sync.fetched \in [DOMAIN sync.fetched -> Observation] /\ DOMAIN sync.fetched \subseteq 0 .. EndOfSync
    BY RowsAre DEF SyncInv, SyncShape
  <2>2. \A b \in DOMAIN fetched : fetched[b] \in Observation
    BY <1>5, <1>6, <2>1
  <2>3. DOMAIN fetched \subseteq 0 .. EndOfSync
    BY <1>3, <1>4, <1>6, <2>1
  <2> QED
    BY <1>6, <2>2, <2>3, RowsAre
<1>8. after \in Nat /\ step \in {"fetch", "build"}
  BY <1>3
<1>9. /\ sync'.step = step /\ sync'.fetched = fetched /\ sync'.since = after /\ sync'.rows = sync.rows
      /\ sync'.clock = sync.clock /\ sync'.exact = sync.exact /\ LastClosed' = LastClosed
  BY <1>1 DEF SyncInv, SyncShape, LastClosed
<1>10. after > LastClosed => LastClosed \in DOMAIN fetched
  <2> SUFFICES ASSUME after > LastClosed PROVE LastClosed \in kept
    BY <1>6
  <2>1. LastClosed \in Nat /\ LastClosed <= Max(Batch)
    <3>1. sync.since \in Nat
      BY DEF SyncInv, SyncShape
    <3> HIDE DEF step
    <3> QED
      BY <1>1, <1>2, <1>3, <3>1 DEF after
  <2>2. LastClosed \in Batch
    BY <1>1, <1>3, <2>1
  <2> QED
    BY <1>2, <2>2 DEF kept, ClosedBy, BarAt
<1>11. step = "build" => after > LastClosed
  BY <1>2, <1>3
<1> HIDE DEF step, after
<1>12. SyncShape'
  BY <1>1, <1>7, <1>8 DEF SyncInv, SyncShape, Listed
<1>13. AllKept'
  BY <1>1, <1>9 DEF SyncInv, AllKept, Holds
<1>14. FetchedClosed'
  <2>1. ASSUME NEW b \in DOMAIN fetched
        PROVE  /\ 2 * b < EndOfSync /\ b <= LastClosed /\ fetched[b].until \in 1 .. Closes(b)
               /\ sync.exact \/ ("run" \notin astray /\ b < LastClosed) => Final(b, fetched[b])
    <3>1. CASE b \in kept
      <4>1. b \in Nat /\ 2 * b < EndOfSync /\ b <= LastClosed
        <5>1. b \in Batch /\ b <= LastClosed
          BY <1>4, <3>1
        <5>2. b \in Nat /\ 2 * b < hour
          BY <1>3, <5>1
        <5> QED
          BY <1>2, <5>1, <5>2
      <4>2. Closes(b) = 2 * b + 2
        BY <4>1 DEF Closes
      <4>3. sync.exact \/ ("run" \notin astray /\ b < LastClosed) => Closes(b) <= hour
        <5>1. CASE sync.exact
          <6>1. sync.clock <= hour /\ 2 * b + 2 <= 2 * LastClosed + 2
            BY <1>2, <4>1, <5>1
          <6> QED
            BY <1>2, <4>1, <4>2, <6>1
        <5>2. CASE "run" \notin astray /\ b < LastClosed
          <6>1. 2 * b + 2 <= 2 * LastClosed
            BY <1>2, <4>1, <5>2
          <6> QED
            BY <1>2, <4>1, <4>2, <6>1
        <5> QED
          BY <5>1, <5>2
      <4> QED
        BY <1>5, <1>6, <3>1, <4>1, <4>3
    <3>2. CASE b \notin kept
      BY <1>6, <3>2 DEF SyncInv, FetchedClosed
    <3> QED
      BY <3>1, <3>2
  <2> QED
    BY <1>1, <1>2, <1>8, <1>9, <2>1 DEF FetchedClosed
<1>15. ReachesLast' /\ FilesAgree'
  BY <1>1, <1>8, <1>9, <1>10, <1>11 DEF ReachesLast, FilesAgree
<1> QED
  BY <1>12, <1>13, <1>14, <1>15 DEF SyncInv

\* With the exchange's own clock a page is empty only after the last closed candle.
LEMMA NoMorePagesKeeps == ASSUME SyncInv, NoMorePages PROVE SyncInv'
<1>1. /\ UNCHANGED <<hour, revised, archive, synced>>
      /\ sync.step = "fetch" /\ (sync.since > LastClosed \/ Batch = {})
      /\ astray' = astray
      /\ sync' = [sync EXCEPT !.step = "build"]
  BY DEF NoMorePages
<1>2. /\ sync'.step = "build" /\ sync'.fetched = sync.fetched /\ sync'.rows = sync.rows
      /\ sync'.clock = sync.clock /\ sync'.exact = sync.exact /\ LastClosed' = LastClosed
  BY <1>1 DEF SyncInv, SyncShape, LastClosed
<1>3. SyncShape'
  BY <1>1 DEF SyncInv, SyncShape, Listed
<1>4. AllKept'
  BY <1>1, <1>2 DEF SyncInv, AllKept, Holds
<1>5. FetchedClosed'
  BY <1>1, <1>2 DEF SyncInv, FetchedClosed
<1>6. ASSUME sync.exact, sync.since <= LastClosed PROVE Batch # {}
  <2>1. /\ hour \in Nat /\ hour <= EndOfSync /\ EndOfSync \in Nat /\ sync.since \in Nat
        /\ PageSize \in Nat \ {0} /\ sync.clock \in Int /\ sync.clock <= hour
    BY <1>6, SyncAssumption DEF SyncInv, SyncShape, FetchedClosed
  <2>2. LastClosed \in Int /\ 2 * LastClosed + 2 <= sync.clock
    BY <2>1 DEF LastClosed, BarAt
  <2>3. 2 * sync.since < hour /\ sync.since \in 0 .. EndOfSync
    BY <1>6, <2>1, <2>2
  <2>4. sync.since \in Batch
    BY <2>1, <2>3 DEF Batch, Listed
  <2> QED
    BY <2>4
<1>7. sync.exact /\ sync.fetched # <<>> => LastClosed \in DOMAIN sync.fetched
  <2>1. sync.since \in Nat /\ LastClosed \in Int
    BY DEF SyncInv, SyncShape, LastClosed, BarAt
  <2> QED
    BY <1>1, <1>6, <2>1 DEF SyncInv, ReachesLast
<1>8. ReachesLast' /\ FilesAgree'
  BY <1>1, <1>2, <1>7 DEF ReachesLast, FilesAgree
<1> QED
  BY <1>3, <1>4, <1>5, <1>8 DEF SyncInv

\* A run that ends is forgotten; what it has written stays.
LEMMA RestKeeps ==
  ASSUME SyncInv, UNCHANGED <<hour, revised, archive>>, sync' = Resting,
         astray' \subseteq {"consolidated", "minimal", "run"}, "archive" \notin astray,
         Holds("consolidated", synced.consolidated)', Holds("minimal", synced.minimal)',
         synced' \in [consolidated : Rows, minimal : Rows, plan : Rows \cup {None}]
  PROVE  SyncInv'
<1>1. AllKept'
  BY RestIs DEF SyncInv, AllKept, Holds
<1>2. SyncShape'
  BY RestIs DEF SyncInv, SyncShape, Listed
<1>3. FetchedClosed' /\ ReachesLast' /\ FilesAgree'
  BY RestIs DEF SyncInv, SyncShape, FetchedClosed, ReachesLast, FilesAgree
<1> QED
  BY <1>1, <1>2, <1>3 DEF SyncInv

LEMMA BuildKeeps == ASSUME SyncInv, Build PROVE SyncInv'
<1> DEFINE combined == Combined(sync.rows, sync.fetched)
<1>1. /\ UNCHANGED <<hour, revised, archive, synced, astray>> /\ sync.step = "build"
      /\ \/ sync' = Resting
         \/ /\ ~Refused(sync.rows, sync.fetched) /\ Valid(combined)
            /\ sync' = [sync EXCEPT !.step = "write", !.rows = combined]
  BY DEF Build
<1>2. CASE sync' = Resting
  <2>1. Holds("consolidated", synced.consolidated)' /\ Holds("minimal", synced.minimal)'
    BY <1>1 DEF SyncInv, AllKept, Holds
  <2> QED
    BY <1>1, <1>2, <2>1, RestKeeps DEF SyncInv, SyncShape
<1>3. CASE /\ ~Refused(sync.rows, sync.fetched) /\ Valid(combined)
           /\ sync' = [sync EXCEPT !.step = "write", !.rows = combined]
  <2>1. Holds("run", sync.rows) /\ sync.rows # <<>> /\ sync.fetched \in Rows /\ LastClosed \in Int
    BY <1>1 DEF SyncInv, SyncShape, AllKept, LastClosed, BarAt
  <2>2. \A b \in DOMAIN sync.fetched :
          /\ 2 * b < EndOfSync /\ b <= LastClosed /\ sync.fetched[b].until \in 1 .. Closes(b)
          /\ sync.exact \/ ("run" \notin astray /\ b < LastClosed) => Final(b, sync.fetched[b])
    BY DEF SyncInv, FetchedClosed
  <2>3. /\ combined \in Rows /\ IsHistory(combined) /\ combined # <<>>
        /\ sync.fetched # <<>> =>
             /\ DOMAIN sync.fetched \subseteq DOMAIN combined
             /\ \A b \in DOMAIN combined :
                  /\ b <= LastClosed
                  /\ \/ b \in DOMAIN sync.fetched /\ combined[b] = sync.fetched[b]
                     \/ "run" \notin astray => Final(b, combined[b])
        /\ Holds("run", combined)
    <3>1. IsHistory(sync.rows) /\ ("run" \notin astray => Settled(sync.rows))
      BY <2>1 DEF Holds
    <3>2. /\ combined \in Rows /\ IsHistory(combined)
          /\ sync.fetched # <<>> =>
               /\ DOMAIN sync.fetched \subseteq DOMAIN combined
               /\ \A b \in DOMAIN combined :
                    /\ b <= LastClosed
                    /\ \/ b \in DOMAIN sync.fetched /\ combined[b] = sync.fetched[b]
                       \/ Settled(sync.rows) => Final(b, combined[b])
          /\ Settled(sync.rows) /\ (\A b \in DOMAIN sync.fetched : b < LastClosed => Final(b, sync.fetched[b])) =>
               Settled(combined)
      BY <1>3, <2>1, <2>2, <3>1, CombinedIsHistory
    <3>3. combined # <<>>
      BY <1>3 DEF Valid
    <3> HIDE DEF combined
    <3>4. "run" \notin astray => Settled(combined)
      BY <2>2, <3>1, <3>2
    <3> QED
      BY <3>1, <3>2, <3>3, <3>4 DEF Holds
  <2> HIDE DEF combined
  <2>4. /\ sync'.step = "write" /\ sync'.fetched = sync.fetched /\ sync'.rows = combined
        /\ sync'.clock = sync.clock /\ sync'.exact = sync.exact /\ LastClosed' = LastClosed
    BY <1>3 DEF SyncInv, SyncShape, LastClosed
  <2>5. SyncShape'
    BY <1>1, <1>3, <2>3 DEF SyncInv, SyncShape, Listed
  <2>6. AllKept'
    BY <1>1, <2>3, <2>4 DEF SyncInv, AllKept, Holds
  <2>7. FetchedClosed'
    BY <1>1, <2>4 DEF SyncInv, FetchedClosed
  <2>8. sync.exact /\ sync.fetched # <<>> =>
          /\ LastClosed \in DOMAIN combined
          /\ \A b \in DOMAIN combined : b <= LastClosed /\ ("run" \in astray \/ Final(b, combined[b]))
    BY <1>1, <2>2, <2>3 DEF SyncInv, ReachesLast
  <2>9. ReachesLast' /\ FilesAgree'
    BY <1>1, <2>4, <2>8 DEF ReachesLast, FilesAgree
  <2> QED
    BY <2>5, <2>6, <2>7, <2>9 DEF SyncInv
<1> QED
  BY <1>1, <1>2, <1>3

LEMMA WritesKeep ==
  ASSUME SyncInv, WriteConsolidated \/ WriteMinimal \/ WritePlan
  PROVE  SyncInv'
<1> DEFINE next == IF sync.step = "write" THEN "minimal" ELSE IF sync.step = "minimal" THEN "plan" ELSE "done"
<1>1. /\ UNCHANGED <<hour, revised, archive>> /\ sync.step \in {"write", "minimal", "plan"}
      /\ sync' = [sync EXCEPT !.step = next]
      /\ synced' = CASE sync.step = "write" -> [synced EXCEPT !.consolidated = sync.rows]
                     [] sync.step = "minimal" -> [synced EXCEPT !.minimal = sync.rows]
                     [] OTHER -> IF Cardinality(DOMAIN sync.rows) < ShortestPlan THEN synced
                                 ELSE [synced EXCEPT !.plan = synced.minimal]
      /\ astray' = CASE sync.step = "write" -> Passed("run", "consolidated")
                     [] sync.step = "minimal" -> Passed("run", "minimal")
                     [] OTHER -> astray
  BY DEF WriteConsolidated, WriteMinimal, WritePlan
<1>2. /\ sync'.step = next /\ sync'.fetched = sync.fetched /\ sync'.rows = sync.rows
      /\ sync'.clock = sync.clock /\ sync'.exact = sync.exact /\ LastClosed' = LastClosed
  BY <1>1 DEF SyncInv, SyncShape, LastClosed
<1>3. /\ synced' \in [consolidated : Rows, minimal : Rows, plan : Rows \cup {None}]
      /\ synced'.consolidated = IF sync.step = "write" THEN sync.rows ELSE synced.consolidated
      /\ synced'.minimal = IF sync.step = "minimal" THEN sync.rows ELSE synced.minimal
  BY <1>1 DEF SyncInv, SyncShape
<1>4. /\ astray' \subseteq {"consolidated", "minimal", "run"}
      /\ "run" \in astray' <=> "run" \in astray
      /\ "consolidated" \in astray' <=> IF sync.step = "write" THEN "run" \in astray ELSE "consolidated" \in astray
      /\ "minimal" \in astray' <=> IF sync.step = "minimal" THEN "run" \in astray ELSE "minimal" \in astray
  BY <1>1 DEF SyncInv, SyncShape, Passed
<1>5. SyncShape'
  BY <1>1, <1>3, <1>4 DEF SyncInv, SyncShape, Listed
<1>6. AllKept'
  <2>1. "archive" \notin astray
    BY DEF SyncInv, SyncShape
  <2> QED
    BY <1>1, <1>2, <1>3, <1>4, <2>1 DEF SyncInv, AllKept, Holds
<1>7. FetchedClosed'
  BY <1>1, <1>2, <1>4 DEF SyncInv, FetchedClosed
<1>8. ReachesLast'
  BY <1>1, <1>2, <1>4 DEF SyncInv, ReachesLast
<1>9. FilesAgree'
  BY <1>1, <1>2, <1>3 DEF SyncInv, FilesAgree
<1> QED
  BY <1>5, <1>6, <1>7, <1>8, <1>9 DEF SyncInv

\* A file that a run leaves behind as it dies is the beginning of a history.
LEMMA DiesKeeps == ASSUME SyncInv, Dies PROVE SyncInv'
<1>1. PICK n \in 0 .. Cardinality(DOMAIN sync.rows) :
        synced' = CASE sync.step = "write" -> [synced EXCEPT !.consolidated = Until(sync.rows, n)]
                    [] sync.step = "minimal" -> [synced EXCEPT !.minimal = Until(sync.rows, n)]
                    [] OTHER -> synced
  BY DEF Dies
<1>2. /\ sync' = Resting /\ UNCHANGED <<hour, revised, archive>> /\ sync.step # "rest"
      /\ astray' = CASE sync.step = "write" -> Passed("run", "consolidated")
                     [] sync.step = "minimal" -> Passed("run", "minimal")
                     [] OTHER -> astray
  BY DEF Dies
<1> DEFINE torn == Until(sync.rows, n)
<1>3. torn \in Rows /\ Holds("run", torn)
  <2>1. Holds("run", sync.rows) /\ sync.rows # <<>>
    BY <1>2 DEF SyncInv, SyncShape, AllKept
  <2> QED
    BY <2>1, TornIsHistory DEF Holds
<1>4. /\ synced' \in [consolidated : Rows, minimal : Rows, plan : Rows \cup {None}]
      /\ synced'.consolidated = IF sync.step = "write" THEN torn ELSE synced.consolidated
      /\ synced'.minimal = IF sync.step = "minimal" THEN torn ELSE synced.minimal
  BY <1>1, <1>3 DEF SyncInv, SyncShape
<1> HIDE DEF torn
<1>5. /\ astray' \subseteq {"consolidated", "minimal", "run"} /\ "archive" \notin astray
      /\ "consolidated" \in astray' <=> IF sync.step = "write" THEN "run" \in astray ELSE "consolidated" \in astray
      /\ "minimal" \in astray' <=> IF sync.step = "minimal" THEN "run" \in astray ELSE "minimal" \in astray
  BY <1>2 DEF SyncInv, SyncShape, Passed
<1>6. Holds("consolidated", synced.consolidated)' /\ Holds("minimal", synced.minimal)'
  BY <1>3, <1>4, <1>5 DEF SyncInv, AllKept, Holds
<1> QED
  BY <1>2, <1>4, <1>5, <1>6, RestKeeps

\* The world goes on.
LEMMA WorldKeeps ==
  ASSUME SyncInv, UNCHANGED <<archive, synced, sync, astray>>,
         hour' \in 0 .. EndOfSync, hour <= hour', revised' \in Listed(hour') \cup {None}
  PROVE  SyncInv'
<1>1. SyncShape'
  BY DEF SyncInv, SyncShape
<1>2. AllKept'
  BY DEF SyncInv, AllKept, Holds
<1>3. LastClosed' = LastClosed
  BY DEF LastClosed
<1>4. FetchedClosed'
  <2>1. hour \in Nat /\ hour' \in Nat /\ sync.clock \in Int
    BY SyncAssumption DEF SyncInv, SyncShape
  <2>2. ("run" \in astray \/ sync.clock <= hour' + 2) /\ (sync.exact => sync.clock <= hour')
    BY <2>1 DEF SyncInv, FetchedClosed
  <2> QED
    BY <1>3, <2>2 DEF SyncInv, FetchedClosed
<1>5. ReachesLast' /\ FilesAgree'
  BY <1>3 DEF SyncInv, ReachesLast, FilesAgree
<1> QED
  BY <1>1, <1>2, <1>4, <1>5 DEF SyncInv

LEMMA SyncKeeps == ASSUME SyncInv, [SyncNext]_syncVars PROVE SyncInv'
<1>1. ASSUME NEW file \in {"archive", "consolidated"}, NEW offline \in BOOLEAN, OpenSource(file, offline)
      PROVE  SyncInv'
  BY <1>1, OpenSourceKeeps
<1>2. ASSUME NEW ahead \in ClockErrors, ReadClock(ahead) PROVE SyncInv'
  BY <1>2, ReadClockKeeps
<1>3. CASE FetchPage
  BY <1>3, FetchPageKeeps
<1>4. CASE NoMorePages
  BY <1>4, NoMorePagesKeeps
<1>5. CASE Build
  BY <1>5, BuildKeeps
<1>6. CASE WriteConsolidated \/ WriteMinimal \/ WritePlan
  BY <1>6, WritesKeep
<1>7. CASE Dies
  BY <1>7, DiesKeeps
<1>8. /\ hour \in 0 .. EndOfSync /\ EndOfSync \in Nat /\ revised \in Listed(hour) \cup {None}
      /\ None \notin Nat
  BY SyncAssumption DEF SyncInv, SyncShape
<1>9. CASE HourPasses
  <2>1. hour' = hour + 1 /\ hour < EndOfSync /\ UNCHANGED <<revised, archive, synced, sync, astray>>
    BY <1>9 DEF HourPasses
  <2>2. hour' \in 0 .. EndOfSync /\ hour <= hour' /\ Listed(hour) \subseteq Listed(hour')
    BY <1>8, <2>1 DEF Listed
  <2> QED
    BY <1>8, <2>1, <2>2, WorldKeeps
<1>10. ASSUME NEW b \in Listed(hour), Revise(b) PROVE SyncInv'
  <2>1. revised' = b /\ UNCHANGED <<hour, archive, synced, sync, astray>>
    BY <1>10 DEF Revise
  <2> QED
    BY <1>8, <2>1, WorldKeeps
<1>11. CASE UNCHANGED syncVars
  <2>1. UNCHANGED <<hour, revised, archive, synced, sync, astray>>
    BY <1>11 DEF syncVars
  <2> QED
    BY <1>8, <2>1, WorldKeeps
<1> QED
  BY <1>1, <1>2, <1>3, <1>4, <1>5, <1>6, <1>7, <1>9, <1>10, <1>11 DEF SyncNext

LEMMA SyncTyped == ASSUME SyncInv PROVE SyncTypeOK
<1>1. ASSUME NEW h \in DOMAIN Stored, Stored[h] # <<>>
      PROVE  /\ DOMAIN Stored[h] \subseteq Listed(EndOfSync)
             /\ \A b \in DOMAIN Stored[h] : Stored[h][b].until \in 1 .. Closes(b)
  <2> DEFINE rows == Stored[h]
  <2>1. PICK first \in Nat, last \in Nat : Continues(rows, first, last)
    BY <1>1, HoldsIs DEF SyncInv, Holds, IsHistory
  <2> HIDE DEF rows
  <2>2. DOMAIN rows = first .. last /\ 2 * last < EndOfSync
    BY <2>1, ContinuesIs DEF Continues
  <2>3. first .. last \subseteq Listed(EndOfSync)
    BY <2>2, SyncAssumption DEF Listed
  <2>4. DOMAIN rows \subseteq Listed(EndOfSync) /\ \A b \in DOMAIN rows : rows[b].until \in 1 .. Closes(b)
    BY <2>1, <2>2, <2>3 DEF Continues
  <2> QED
    BY <2>4 DEF rows
<1>2. astray \subseteq DOMAIN Stored \ {"archive"}
  BY StoredAre DEF SyncInv, SyncShape
<1> QED
  BY <1>1, <1>2 DEF SyncInv, SyncShape, SyncTypeOK

LEMMA SyncProvisional == ASSUME SyncInv PROVE OnlyLastProvisional
<1> SUFFICES ASSUME NEW h \in DOMAIN Stored, NEW rows, rows = Stored[h], rows # <<>>
             PROVE  /\ Valid(rows)
                    /\ h \notin astray => \A b \in DOMAIN rows \ {LastBar(rows)} : Final(b, rows[b])
  BY DEF OnlyLastProvisional
<1>1. Holds(h, rows)
  BY HoldsIs DEF SyncInv
<1>2. PICK first \in Nat, last \in Nat : Continues(rows, first, last)
  BY <1>1 DEF Holds, IsHistory
<1>3. Valid(rows) /\ DOMAIN rows = first .. last /\ LastBar(rows) = last /\ first <= last
  BY <1>2, ContinuesIs DEF Continues
<1>4. last \in DOMAIN rows /\ \A b \in DOMAIN rows : b # last => b < last
  BY <1>3
<1>5. h \notin astray => \A b, c \in DOMAIN rows : b < c => Final(b, rows[b])
  BY <1>1 DEF Holds, Settled
<1> QED
  BY <1>3, <1>4, <1>5

LEMMA SyncFinal == ASSUME SyncInv PROVE CompletedRunIsFinal
<1> SUFFICES ASSUME sync.step = "done", sync.exact, sync.fetched # <<>>
             PROVE  /\ synced.minimal = synced.consolidated /\ LastBar(synced.minimal) = LastClosed
                    /\ "run" \notin astray => \A b \in DOMAIN synced.minimal : Final(b, synced.minimal[b])
  BY DEF CompletedRunIsFinal
<1>1. synced.minimal = sync.rows /\ synced.consolidated = sync.rows
  BY DEF SyncInv, FilesAgree
<1>2. /\ LastClosed \in DOMAIN sync.rows
      /\ \A b \in DOMAIN sync.rows : b <= LastClosed /\ ("run" \in astray \/ Final(b, sync.rows[b]))
  BY DEF SyncInv, ReachesLast
<1>3. PICK first \in Nat, last \in Nat : Continues(sync.rows, first, last)
  BY <1>2, NoRows DEF SyncInv, AllKept, Holds, IsHistory
<1>4. first <= last /\ DOMAIN sync.rows = first .. last /\ LastBar(sync.rows) = last
  BY <1>3, ContinuesIs DEF Continues
<1>5. last = LastClosed
  <2>1. last \in DOMAIN sync.rows /\ LastClosed \in first .. last
    BY <1>2, <1>4
  <2> QED
    BY <1>2, <2>1
<1> QED
  BY <1>1, <1>2, <1>4, <1>5

-----------------------------------------------------------------------------
(* Candles, stored and resampled. *)

\* However many candles, timeframes and malformed, repeated or missing candles are
\* offered: each candle of a larger timeframe is a whole bucket of the source, none is
\* missing or late, and what resample_closed_candles makes in one go is what
\* HistoricalMultiTimeframeCursor made candle by candle, whatever is still to come.
\* A history kept by sync_binance_btc_usdc_h1_v2 has no hole, whatever clocks were read,
\* wherever runs died and whichever file the next one began with; unless a run whose
\* clock was more than a bar ahead of the exchange's had a hand in it, only its last
\* candle can have been captured before its close, and a run that read the exchange's
\* clock leaves closed candles only.
THEOREM CandlesAlwaysHold == SyncSpec /\ MtfSpec => []CandlesHold
<1>1. SyncInv => SyncTypeOK /\ OnlyLastProvisional /\ CompletedRunIsFinal
  BY SyncTyped, SyncProvisional, SyncFinal
<1>2. MtfInv /\ SyncInv => CandlesHold BY <1>1, MtfTyped, MtfWhole, MtfNoLookAhead DEF CandlesHold
<1>3. SyncSpec => []SyncInv BY SyncStart, SyncKeeps, PTL DEF SyncSpec
<1>4. MtfSpec => []MtfInv BY MtfStart, MtfKeeps, PTL DEF MtfSpec
<1> QED BY <1>2, <1>3, <1>4, PTL

=============================================================================

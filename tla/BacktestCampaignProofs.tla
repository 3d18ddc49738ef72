----------------------- MODULE BacktestCampaignProofs -----------------------
(* For any number of campaigns, roles, windows and checkpoints and any       *)
(* history limit: one campaign runs at a time, and a cancellation asked for  *)
(* in time is honoured, wherever the statements of the cancel route fall.    *)
(* And a clean LIVE_EVAL campaign is repeated from the cache.                *)
EXTENDS BacktestCampaign, ReplayCache, SetProofs, SequenceTheorems

-----------------------------------------------------------------------------
(* The inductive invariant *)

Statuses == {"NONE", "QUEUED", "RUNNING", "CANCEL_REQUESTED", "COMPLETED", "FAILED", "CANCELLED"}
Watcher == [stage : {"NONE", "WATCHING", "RENAME", "LAST", "RETURNED", "RAISED", "CANCELLED"},
            view : Statuses]
AtFiles == {"RENAME", "LAST"}
Holdings == Seq(Campaigns \cup Earlier)

CampaignTypes ==
  /\ jobs \in [Campaigns -> Job]
  /\ {active, lock, loop} \subseteq Campaigns \cup {NoOne}
  /\ known \subseteq Campaigns
  /\ order \in Seq(Campaigns) /\ Len(order) <= HistoryLimit
  /\ stored \in Seq(Campaigns) /\ Len(stored) <= HistoryLimit
  /\ canceller \in [stage : {"IDLE", "SET", "STATUS", "WRITE", "RENAME"},
                    of : Campaigns \cup {NoOne}, view : Statuses, v2 : BOOLEAN]
  /\ canceller.stage # "IDLE" => canceller.of \in Campaigns
  /\ disk \in [Campaigns -> [progress : Statuses, tmp : Statuses, summary : BOOLEAN]]
  /\ memory \in Holdings /\ Len(memory) <= SidecarLimit
  /\ watchers \in [Campaigns -> Watcher]
  /\ loop # NoOne => watchers[loop].stage \in AtFiles
  /\ early \subseteq Campaigns

\* What is under way has a status that keeps another campaign from starting, and
\* what the history names has been started.
Running(c) == Started(c) /\ ~Over(c)

UnderWay ==
  /\ \A c \in Campaigns : Running(c) => jobs[c].status \in Busy
  /\ \A c \in Campaigns : jobs[c].at = "REPLAY" => jobs[c].left >= 1
  /\ \A i \in 1 .. Len(order) : Started(order[i])

\* A campaign cancelled in time keeps its request to stop and does not pass its last
\* checkpoint; only one that is over has a result.
InTime ==
  /\ \A c \in early : jobs[c].cancel /\ ~LastCheck(c)
  /\ \A c \in Campaigns : Contains(stored, c) \/ disk[c].summary => Over(c)

CampaignInv == CampaignTypes /\ OneAtATime /\ UnderWay /\ InTime /\ CancelHonoured

-----------------------------------------------------------------------------
(* Histories *)

\* A history keeps to its limit and gains no entry but the new one.
LEMMA KeptHistory ==
  ASSUME NEW s \in Seq(Campaigns), Len(s) <= HistoryLimit, NEW c \in Campaigns
  PROVE  /\ Kept(Append(s, c)) \in Seq(Campaigns)
         /\ Len(Kept(Append(s, c))) <= HistoryLimit
         /\ \A i \in 1 .. Len(Kept(Append(s, c))) :
              Kept(Append(s, c))[i] = c \/ \E j \in 1 .. Len(s) : Kept(Append(s, c))[i] = s[j]
<1> DEFINE a == Append(s, c)
<1>1. /\ a \in Seq(Campaigns) /\ Len(a) = Len(s) + 1
      /\ \A i \in 1 .. Len(a) : a[i] = IF i <= Len(s) THEN s[i] ELSE c
  OBVIOUS
<1>2. Len(s) \in Nat /\ HistoryLimit \in Nat \ {0}
  BY CampaignAssumption
<1>3. a # <<>>
  BY <1>1, <1>2
<1>4. /\ Tail(a) \in Seq(Campaigns) /\ Len(Tail(a)) = Len(a) - 1
      /\ \A i \in 1 .. Len(Tail(a)) : Tail(a)[i] = a[i + 1]
  BY <1>1, <1>3
<1>5. CASE Len(a) > HistoryLimit
  <2>1. Kept(a) = Tail(a)
    BY <1>5 DEF Kept
  <2>2. ASSUME NEW i \in 1 .. Len(Tail(a))
        PROVE  Tail(a)[i] = c \/ \E j \in 1 .. Len(s) : Tail(a)[i] = s[j]
    <3>1. i + 1 \in 1 .. Len(a) /\ Tail(a)[i] = a[i + 1]
      BY <1>1, <1>2, <1>4
    <3> QED
      BY <1>1, <1>2, <3>1
  <2>3. Len(Tail(a)) <= HistoryLimit
    BY <1>1, <1>2, <1>4
  <2>4. Tail(a) \in Seq(Campaigns)
    BY <1>4
  <2> HIDE DEF a
  <2>5. /\ Kept(a) \in Seq(Campaigns) /\ Len(Kept(a)) <= HistoryLimit
        /\ \A i \in 1 .. Len(Kept(a)) : Kept(a)[i] = c \/ \E j \in 1 .. Len(s) : Kept(a)[i] = s[j]
    BY <2>1, <2>2, <2>3, <2>4
  <2> QED
    BY <2>5 DEF a
<1>6. CASE ~(Len(a) > HistoryLimit)
  <2>1. Kept(a) = a
    BY <1>6 DEF Kept
  <2> QED
    BY <1>1, <1>2, <1>6, <2>1
<1> QED
  BY <1>5, <1>6

\* The result of a campaign is in the history only if it was, or is the new one.
LEMMA KeptContains ==
  ASSUME NEW s \in Seq(Campaigns), Len(s) <= HistoryLimit,
         NEW c \in Campaigns, NEW d, Contains(Kept(Append(s, c)), d)
  PROVE  d = c \/ Contains(s, d)
<1> DEFINE k == Kept(Append(s, c))
<1>1. \A i \in 1 .. Len(k) : k[i] = c \/ \E j \in 1 .. Len(s) : k[i] = s[j]
  BY KeptHistory
<1>2. PICK i \in 1 .. Len(k) : k[i] = d
  BY DEF Contains
<1> QED
  BY <1>1, <1>2 DEF Contains

-----------------------------------------------------------------------------
(* The invariant holds at first *)

LEMMA CampaignInitInv == CampaignInit => CampaignInv
<1> SUFFICES ASSUME CampaignInit PROVE CampaignInv
  OBVIOUS
<1> USE CampaignAssumption
<1>1. \A c \in Campaigns : jobs[c].at = "NONE" /\ disk[c].summary = FALSE
  BY DEF CampaignInit, Fresh
<1>2. stored = <<>> /\ order = <<>> /\ early = {}
  BY DEF CampaignInit
<1>3. CampaignTypes
  <2>1. jobs \in [Campaigns -> Job]
    BY DEF CampaignInit, Fresh, Job
  <2>2. /\ disk \in [Campaigns -> [progress : Statuses, tmp : Statuses, summary : BOOLEAN]]
        /\ watchers \in [Campaigns -> Watcher]
    BY DEF CampaignInit, Statuses, Watcher
  <2>3. canceller \in [stage : {"IDLE", "SET", "STATUS", "WRITE", "RENAME"},
                       of : Campaigns \cup {NoOne}, view : Statuses, v2 : BOOLEAN]
    BY DEF CampaignInit, Statuses, Idle
  <2>4. <<>> \in Seq(Campaigns) /\ <<>> \in Holdings /\ Len(<<>>) = 0
    BY DEF Holdings
  <2> QED
    BY <1>2, <2>1, <2>2, <2>3, <2>4 DEF CampaignInit, CampaignTypes, Idle
<1>4. OneAtATime
  BY <1>1 DEF OneAtATime, Started
<1>5. UnderWay
  BY <1>1, <1>2 DEF UnderWay, Running, Started
<1>6. InTime
  <2>1. \A c : ~Contains(stored, c)
    BY <1>2 DEF Contains
  <2> QED
    BY <1>1, <1>2, <2>1 DEF InTime
<1>7. CancelHonoured
  BY <1>2 DEF CancelHonoured
<1> QED
  BY <1>3, <1>4, <1>5, <1>6, <1>7 DEF CampaignInv

-----------------------------------------------------------------------------
(* The memory of the sidecar *)

\* The sidecar keeps to its limit; the watcher that keeps the event loop stays at
\* its files, evicted or not.
LEMMA TakesKeeps ==
  ASSUME CampaignTypes, NEW x \in Campaigns \cup Earlier, Takes(x)
  PROVE  /\ memory' \in Holdings /\ Len(memory') <= SidecarLimit
         /\ watchers' \in [Campaigns -> Watcher]
         /\ \A c \in Campaigns : watchers[c].stage \in AtFiles => watchers'[c].stage \in AtFiles
<1> DEFINE held == Append(memory, x)
<1>1. /\ SidecarLimit \in Nat \ {0} /\ memory \in Holdings /\ Len(memory) <= SidecarLimit
      /\ watchers \in [Campaigns -> Watcher]
  BY CampaignAssumption DEF CampaignTypes
<1>2. held \in Holdings /\ Len(held) = Len(memory) + 1
  BY <1>1 DEF Holdings
<1>3. Trimmed(held) \in Holdings /\ Len(Trimmed(held)) <= SidecarLimit
  <2>1. CASE Len(held) > SidecarLimit
    <3>1. held # <<>>
      <4>1. Len(memory) + 1 > 0
        BY <1>1 DEF Holdings
      <4> HIDE DEF held
      <4> QED
        BY <1>2, <4>1
    <3>2. Tail(held) \in Holdings /\ Len(Tail(held)) = Len(held) - 1
      BY <1>2, <3>1 DEF Holdings
    <3>3. Len(memory) \in Nat
      BY <1>1 DEF Holdings
    <3> HIDE DEF held
    <3> QED
      BY <1>1, <1>2, <2>1, <3>2, <3>3 DEF Trimmed
  <2>2. CASE ~(Len(held) > SidecarLimit)
    <3>1. Len(held) \in Nat
      BY <1>2 DEF Holdings
    <3> HIDE DEF held
    <3> QED
      BY <1>1, <1>2, <2>2, <3>1 DEF Trimmed
  <2> QED
    BY <2>1, <2>2
<1>4. /\ watchers' = [c \in Campaigns |-> [watchers[c] EXCEPT !.stage = watchers'[c].stage]]
      /\ \A c \in Campaigns : watchers'[c].stage \in
           {watchers[c].stage, Forsaken(watchers[c].stage)}
             \cup (IF watchers[c].stage = "NONE" THEN {"WATCHING"} ELSE {})
  <2> DEFINE stage(c) == IF c \in Evicted(held) THEN Forsaken(watchers[c].stage)
                         ELSE IF c = x /\ watchers[c].stage = "NONE" THEN "WATCHING"
                         ELSE watchers[c].stage
  <2>1. watchers' = [c \in Campaigns |-> [watchers[c] EXCEPT !.stage = stage(c)]]
    BY DEF Takes
  <2>2. \A c \in Campaigns : stage(c) \in {watchers[c].stage, Forsaken(watchers[c].stage)}
             \cup (IF watchers[c].stage = "NONE" THEN {"WATCHING"} ELSE {})
    OBVIOUS
  <2>3. \A c \in Campaigns : watchers[c] \in Watcher
    BY <1>1
  <2> HIDE DEF stage
  <2>4. \A c \in Campaigns : watchers'[c].stage = stage(c)
    BY <2>1, <2>3 DEF Watcher
  <2> QED
    BY <2>1, <2>2, <2>4
<1>5. \A c \in Campaigns :
        /\ watchers'[c] \in Watcher
        /\ watchers[c].stage \in AtFiles => watchers'[c].stage \in AtFiles
  <2> TAKE c \in Campaigns
  <2>1. watchers[c] \in Watcher /\ watchers'[c] = [watchers[c] EXCEPT !.stage = watchers'[c].stage]
    BY <1>1, <1>4
  <2> QED
    BY <1>4, <2>1 DEF Watcher, Forsaken, AtFiles
<1> QED
  BY <1>3, <1>4, <1>5 DEF Takes

-----------------------------------------------------------------------------
(* Starting a campaign *)

LEMMA StartKeeps ==
  ASSUME CampaignInv, NEW c \in Campaigns, NEW v2 \in BOOLEAN, StartCampaign(c, v2)
  PROVE  CampaignInv'
<1> USE CampaignAssumption
<1>1. /\ ~Started(c) /\ loop = NoOne
      /\ jobs' = [jobs EXCEPT ![c].at = "QUEUED", ![c].status = "QUEUED", ![c].news = TRUE]
      /\ order' = Kept(Append(order, c)) /\ active' = c
      /\ known' \subseteq known \cup {c}
      /\ disk' = [disk EXCEPT ![c].progress = IF v2 THEN "QUEUED" ELSE @]
      /\ Takes(c) \/ UNCHANGED <<memory, watchers>>
      /\ UNCHANGED <<lock, stored, canceller, loop, early>>
  BY DEF StartCampaign, threadVars
<1>2. CampaignTypes
  BY DEF CampaignInv
<1>3. jobs[c] \in Job /\ jobs \in [Campaigns -> Job]
  BY <1>2 DEF CampaignTypes
<1>4. /\ jobs'[c] \in Job /\ jobs'[c].at = "QUEUED" /\ jobs'[c].status = "QUEUED"
      /\ jobs'[c].cancel = jobs[c].cancel
      /\ \A d \in Campaigns \ {c} : jobs'[d] = jobs[d]
      /\ jobs' \in [Campaigns -> Job]
  BY <1>1, <1>3 DEF Job
<1>5. \A d \in Campaigns : ~Running(d)
  <2>1. ASSUME NEW d \in Campaigns, Running(d) PROVE FALSE
    <3>1. active = d /\ d \in known /\ jobs[d].status \in Busy
      BY <2>1 DEF CampaignInv, OneAtATime, UnderWay, Running
    <3>2. d # NoOne
      BY DEF Campaigns
    <3> QED
      BY <3>1, <3>2 DEF StartCampaign
  <2> QED
    BY <2>1
<1>6. /\ order' \in Seq(Campaigns) /\ Len(order') <= HistoryLimit
      /\ \A i \in 1 .. Len(order') : order'[i] = c \/ \E j \in 1 .. Len(order) : order'[i] = order[j]
  <2>1. order \in Seq(Campaigns) /\ Len(order) <= HistoryLimit /\ order' = Kept(Append(order, c))
    BY <1>1, <1>2 DEF CampaignTypes
  <2> QED
    BY <2>1, KeptHistory, ZenonT(40)
<1>7. CampaignTypes'
  <2>1. disk' \in [Campaigns -> [progress : Statuses, tmp : Statuses, summary : BOOLEAN]]
    <3>1. disk \in [Campaigns -> [progress : Statuses, tmp : Statuses, summary : BOOLEAN]]
      BY <1>2 DEF CampaignTypes
    <3>2. PICK p \in Statuses : disk' = [disk EXCEPT ![c].progress = p]
      BY <1>1, <3>1 DEF Statuses
    <3> QED
      BY <3>1, <3>2
  <2>2. watchers' \in [Campaigns -> Watcher] /\ memory' \in Holdings /\ Len(memory') <= SidecarLimit
    <3>1. CASE Takes(c)
      BY <1>2, <3>1, TakesKeeps
    <3>2. CASE UNCHANGED <<memory, watchers>>
      BY <1>2, <3>2 DEF CampaignTypes
    <3> QED
      BY <1>1, <3>1, <3>2
  <2>3. known' \subseteq Campaigns
    BY <1>1, <1>2 DEF CampaignTypes
  <2> QED
    BY <1>1, <1>2, <1>4, <1>6, <2>1, <2>2, <2>3 DEF CampaignTypes
<1>8. c \in known'
  <2>1. ASSUME Len(order) = HistoryLimit PROVE Head(order) # c
    <3>1. Len(order) \in Nat /\ Len(order) >= 1 /\ Head(order) = order[1]
      BY <1>2, <2>1 DEF CampaignTypes
    <3>2. Started(order[1])
      BY <3>1 DEF CampaignInv, UnderWay
    <3> QED
      BY <1>1, <3>1, <3>2
  <2> QED
    BY <2>1 DEF StartCampaign
<1>9. OneAtATime'
  BY <1>1, <1>4, <1>5, <1>8 DEF OneAtATime, Running, Started, Over
<1>10. UnderWay'
  <2>1. \A d \in Campaigns : Running(d)' => jobs'[d].status \in Busy
    BY <1>4, <1>5 DEF Running, Started, Over, Busy
  <2>2. \A d \in Campaigns : jobs'[d].at = "REPLAY" => jobs'[d].left >= 1
    BY <1>4 DEF CampaignInv, UnderWay
  <2>3. \A i \in 1 .. Len(order') : jobs'[order'[i]].at # "NONE"
    <3> TAKE i \in 1 .. Len(order')
    <3>1. CASE order'[i] = c
      BY <1>4, <3>1
    <3>2. CASE \E j \in 1 .. Len(order) : order'[i] = order[j]
      <4>1. Started(order'[i])
        BY <3>2 DEF CampaignInv, UnderWay
      <4>2. order'[i] \in Campaigns
        BY <1>6
      <4> QED
        BY <1>4, <4>1, <4>2 DEF Started
    <3> QED
      BY <1>6, <3>1, <3>2
  <2> QED
    BY <2>1, <2>2, <2>3 DEF UnderWay, Started
<1>11. \A d \in Campaigns : disk'[d].summary = disk[d].summary
  BY <1>1, <1>2 DEF CampaignTypes
<1>12. InTime'
  <2>1. \A d \in early : jobs'[d].cancel /\ ~LastCheck(d)'
    BY <1>2, <1>4 DEF CampaignInv, InTime, LastCheck, CampaignTypes
  <2>2. ~Contains(stored, c) /\ ~disk[c].summary
    BY <1>1 DEF CampaignInv, InTime, Started, Over
  <2>3. \A d \in Campaigns : Contains(stored, d) \/ disk'[d].summary => Over(d)'
    BY <1>4, <1>11, <2>2 DEF CampaignInv, InTime, Over
  <2> QED
    BY <1>1, <2>1, <2>3 DEF InTime
<1>13. CancelHonoured'
  BY <1>1, <1>2, <1>11 DEF CampaignInv, CancelHonoured, CampaignTypes
<1> QED
  BY <1>7, <1>9, <1>10, <1>12, <1>13 DEF CampaignInv

-----------------------------------------------------------------------------
(* The task of a campaign *)

\* What a step of a task leaves alone.
TaskFrame == UNCHANGED <<order, known, threadVars, sidecarVars, early>>

Active == {"PARSE", "REPLAY", "MEASURE", "EXPORT", "CATALOG", "REPORT"}

\* A step that keeps the campaign under way, with the request to stop as it was and
\* no way to the last checkpoint once it is made.
LEMMA MoveKeeps ==
  ASSUME CampaignInv, NEW c \in Campaigns, NEW job \in Job, Running(c),
         job.at \in Active, job.cancel = jobs[c].cancel,
         job.status \in Busy,
         job.at = "REPLAY" => job.left >= 1,
         job.at = "REPORT" /\ job.role = Roles => ~job.cancel,
         jobs' = [jobs EXCEPT ![c] = [job EXCEPT !.news = TRUE]],
         lock' = c, active' = active, stored' = stored, TaskFrame
  PROVE  CampaignInv'
<1> USE CampaignAssumption
<1>1. UNCHANGED <<order, known, canceller, disk, memory, watchers, loop, early, stored, active>>
  BY DEF TaskFrame, threadVars, sidecarVars
<1>2. CampaignTypes
  BY DEF CampaignInv
<1>3. /\ jobs' \in [Campaigns -> Job] /\ jobs'[c].at = job.at /\ jobs'[c].status = job.status
      /\ jobs'[c].cancel = jobs[c].cancel /\ jobs'[c].left = job.left /\ jobs'[c].role = job.role
      /\ \A d \in Campaigns \ {c} : jobs'[d] = jobs[d]
  <2>1. [job EXCEPT !.news = TRUE] \in Job
    BY DEF Job
  <2> QED
    BY <1>2, <2>1 DEF CampaignTypes, Job
<1>4. active = c /\ c \in known /\ \A d \in Campaigns \ {c} : ~Running(d)
  BY DEF CampaignInv, OneAtATime, Running
<1>5. CampaignTypes'
  BY <1>1, <1>2, <1>3 DEF CampaignTypes
<1>6. OneAtATime'
  BY <1>1, <1>3, <1>4 DEF OneAtATime, Running, Started, Over
<1>7. UnderWay'
  <2>1. \A d \in Campaigns : Running(d)' => jobs'[d].status \in Busy
    BY <1>3, <1>4 DEF Running, Started, Over
  <2>2. \A d \in Campaigns : jobs'[d].at = "REPLAY" => jobs'[d].left >= 1
    BY <1>3 DEF CampaignInv, UnderWay
  <2>3. \A d \in Campaigns : Started(d) => Started(d)'
    BY <1>3 DEF Started, Active
  <2>4. \A i \in 1 .. Len(order) : order[i] \in Campaigns
    BY <1>2 DEF CampaignTypes
  <2>5. \A i \in 1 .. Len(order') : jobs'[order'[i]].at # "NONE"
    BY <1>1, <2>3, <2>4 DEF CampaignInv, UnderWay, Started
  <2> QED
    BY <2>1, <2>2, <2>5 DEF UnderWay, Started
<1>8. InTime'
  <2>1. \A d \in early : jobs'[d].cancel /\ ~LastCheck(d)'
    BY <1>2, <1>3 DEF CampaignInv, InTime, LastCheck, CampaignTypes
  <2>2. ~Contains(stored, c) /\ ~disk[c].summary
    BY DEF CampaignInv, InTime, Running
  <2> QED
    BY <1>1, <1>3, <2>1, <2>2 DEF CampaignInv, InTime, Over
<1>9. CancelHonoured'
  BY <1>1 DEF CampaignInv, CancelHonoured
<1> QED
  BY <1>5, <1>6, <1>7, <1>8, <1>9 DEF CampaignInv

\* The end of a campaign: it may leave its result when it was not cancelled in time.
LEMMA EndKeeps ==
  ASSUME CampaignInv, NEW c \in Campaigns, Running(c),
         NEW status \in Terminal, End(c, status), TaskFrame,
         \/ stored' = stored
         \/ stored' = Kept(Append(stored, c)) /\ c \notin early
  PROVE  CampaignInv'
<1> USE CampaignAssumption
<1>1. UNCHANGED <<order, known, canceller, disk, memory, watchers, loop, early>>
  BY DEF TaskFrame, threadVars, sidecarVars
<1>2. CampaignTypes
  BY DEF CampaignInv
<1>3. /\ jobs' \in [Campaigns -> Job] /\ jobs'[c].at = "ENDED"
      /\ jobs'[c].cancel = jobs[c].cancel
      /\ \A d \in Campaigns \ {c} : jobs'[d] = jobs[d]
  <2> DEFINE over == [Fresh EXCEPT !.at = "ENDED", !.status = status, !.cancel = jobs[c].cancel,
                                   !.news = TRUE]
  <2>1. jobs \in [Campaigns -> Job] /\ jobs' = [jobs EXCEPT ![c] = over]
    BY <1>2 DEF CampaignTypes, End
  <2>2. jobs[c] \in Job
    BY <2>1
  <2>3. over \in Job /\ over.at = "ENDED" /\ over.cancel = jobs[c].cancel
    <3>1. Fresh \in Job
      BY DEF Fresh, Job
    <3>2. jobs[c].cancel \in BOOLEAN
      BY <2>2 DEF Job
    <3> QED
      BY <3>1, <3>2 DEF Job, Terminal
  <2> HIDE DEF over
  <2>4. jobs'[c] = over
    BY <2>1, <2>2
  <2> QED
    BY <2>1, <2>2, <2>3, <2>4 DEF Job
<1>4. active = c /\ \A d \in Campaigns \ {c} : ~Running(d)
  BY DEF CampaignInv, OneAtATime, Running
<1>5. /\ stored' \in Seq(Campaigns) /\ Len(stored') <= HistoryLimit
      /\ \A d \in Campaigns : Contains(stored', d) => Contains(stored, d) \/ (d = c /\ c \notin early)
  <2>1. stored \in Seq(Campaigns) /\ Len(stored) <= HistoryLimit
    BY <1>2 DEF CampaignTypes
  <2>2. CASE stored' = stored
    BY <2>1, <2>2
  <2>3. CASE stored' = Kept(Append(stored, c)) /\ c \notin early
    <3>1. stored' \in Seq(Campaigns) /\ Len(stored') <= HistoryLimit
      BY <2>1, <2>3, KeptHistory
    <3>2. \A d \in Campaigns : Contains(stored', d) => d = c \/ Contains(stored, d)
      BY <2>1, <2>3, KeptContains
    <3> QED
      BY <2>3, <3>1, <3>2
  <2> QED
    BY <2>2, <2>3
<1>6. CampaignTypes'
  <2>1. active' \in Campaigns \cup {NoOne} /\ lock' = NoOne
    BY <1>4 DEF End, LockAfter
  <2> QED
    BY <1>1, <1>2, <1>3, <1>5, <2>1 DEF CampaignTypes
<1>7. OneAtATime'
  BY <1>3, <1>4 DEF OneAtATime, Running, Started, Over
<1>8. UnderWay'
  <2>1. \A d \in Campaigns : ~Running(d)'
    BY <1>3, <1>4 DEF Running, Started, Over
  <2>2. \A d \in Campaigns : jobs'[d].at = "REPLAY" => jobs'[d].left >= 1
    BY <1>3 DEF CampaignInv, UnderWay
  <2>3. \A d \in Campaigns : Started(d) => Started(d)'
    BY <1>3 DEF Started
  <2>4. \A i \in 1 .. Len(order) : order[i] \in Campaigns
    BY <1>2 DEF CampaignTypes
  <2>5. \A i \in 1 .. Len(order') : jobs'[order'[i]].at # "NONE"
    BY <1>1, <2>3, <2>4 DEF CampaignInv, UnderWay, Started
  <2> QED
    BY <2>1, <2>2, <2>5 DEF UnderWay, Started
<1>9. InTime'
  <2>1. \A d \in early : jobs'[d].cancel /\ ~LastCheck(d)'
    BY <1>2, <1>3 DEF CampaignInv, InTime, LastCheck, CampaignTypes
  <2> QED
    BY <1>1, <1>3, <1>5, <2>1 DEF CampaignInv, InTime, Over
<1>10. CancelHonoured'
  BY <1>1, <1>2, <1>5 DEF CampaignInv, CancelHonoured, CampaignTypes
<1> QED
  BY <1>6, <1>7, <1>8, <1>9, <1>10 DEF CampaignInv

LEMMA TaskKeeps ==
  ASSUME CampaignInv, NEW c \in Campaigns, JobStep(c)
  PROVE  CampaignInv'
<1> USE CampaignAssumption
<1>1. CampaignTypes /\ jobs[c] \in Job
  BY DEF CampaignInv, CampaignTypes
<1>2. ASSUME NEW at \in Active, TaskOf(c, at)
      PROVE  /\ Running(c) /\ TaskFrame /\ lock = c /\ jobs[c].status \in Busy /\ jobs[c].at = at
             /\ at = "REPLAY" => jobs[c].left >= 1
  <2>1. Running(c) /\ TaskFrame /\ jobs[c].at = at
    BY <1>2 DEF TaskOf, Running, Started, Over, TaskFrame, Active
  <2> QED
    BY <2>1 DEF CampaignInv, OneAtATime, UnderWay, Running, Active
<1>3. ASSUME NEW job \in Job, Moves(c, job), Running(c), TaskFrame, lock = c, stored' = stored,
             job.at \in Active, job.cancel = jobs[c].cancel, job.status \in Busy,
             job.at = "REPLAY" => job.left >= 1,
             job.at = "REPORT" /\ job.role = Roles => ~job.cancel
      PROVE  CampaignInv'
  BY <1>3, MoveKeeps DEF Moves
<1>4. ASSUME NEW status \in Terminal, End(c, status), Running(c), TaskFrame, stored' = stored
      PROVE  CampaignInv'
  BY <1>4, EndKeeps
<1>5. CASE Begin(c)
  <2>1. /\ TaskFrame /\ lock = NoOne /\ lock' = c /\ active' = active /\ stored' = stored
        /\ jobs[c].at = "QUEUED"
        /\ jobs' = [jobs EXCEPT ![c] = [Begun(c) EXCEPT !.news = TRUE]]
    BY <1>5 DEF Begin, TaskOf, TaskFrame
  <2>2. Running(c)
    BY <2>1 DEF Running, Started, Over
  <2>3. /\ Begun(c) \in Job /\ Begun(c).at = "PARSE" /\ Begun(c).status = "RUNNING"
        /\ Begun(c).cancel = jobs[c].cancel
    BY <1>1 DEF Begun, Job
  <2> QED
    BY <2>1, <2>2, <2>3, MoveKeeps DEF Active, Busy
<1>6. ASSUME NEW role \in 1 .. Roles, NEW windows \in 0 .. Windows
      PROVE  /\ Replaying(c, role, windows) \in Job
             /\ Replaying(c, role, windows).at = "REPLAY"
             /\ Replaying(c, role, windows).left >= 1
             /\ Replaying(c, role, windows).cancel = jobs[c].cancel
             /\ Replaying(c, role, windows).status = jobs[c].status
  <2>1. role \in 0 .. Roles /\ Checkpoints \in 0 .. Checkpoints /\ Checkpoints >= 1
    OBVIOUS
  <2> HIDE CampaignAssumption
  <2> QED
    BY <1>1, <2>1 DEF Replaying, Job
<1>7. CASE \E valid \in BOOLEAN : Parsed(c, valid)
  <2>1. PICK valid \in BOOLEAN : Parsed(c, valid)
    BY <1>7
  <2>2. TaskOf(c, "PARSE") /\ stored' = stored
    BY <2>1 DEF Parsed
  <2>3. CASE Moves(c, Replaying(c, 1, Windows))
    <3>1. 1 \in 1 .. Roles /\ Windows \in 0 .. Windows
      BY CampaignAssumption
    <3> DEFINE job == Replaying(c, 1, Windows)
    <3>2. /\ job \in Job /\ job.at = "REPLAY" /\ job.left >= 1
          /\ job.cancel = jobs[c].cancel /\ job.status = jobs[c].status
      BY <1>6, <3>1
    <3>3. "REPLAY" \in Active
      BY DEF Active
    <3>4. /\ Running(c) /\ TaskFrame /\ lock = c /\ jobs[c].status \in Busy
      BY <1>2, <2>2 DEF Active
    <3> HIDE DEF job
    <3> QED
      BY <1>3, <2>2, <2>3, <3>2, <3>3, <3>4 DEF job
  <2>4. CASE End(c, "FAILED")
    BY <1>2, <1>4, <2>2, <2>4 DEF Active, Terminal
  <2> QED
    BY <2>1, <2>3, <2>4 DEF Parsed
<1>8. CASE \E raises \in BOOLEAN : Replay(c, raises)
  <2>1. PICK raises \in BOOLEAN : Replay(c, raises)
    BY <1>8
  <2>2. TaskOf(c, "REPLAY") /\ stored' = stored
    BY <2>1 DEF Replay
  <2>3. CASE End(c, "CANCELLED") \/ End(c, "FAILED")
    BY <1>2, <1>4, <2>2, <2>3 DEF Active, Terminal
  <2>4. CASE Moves(c, [jobs[c] EXCEPT !.left = @ - 1, !.at = IF jobs[c].left = 1 THEN "MEASURE" ELSE @])
    <3> DEFINE job == [jobs[c] EXCEPT !.left = @ - 1, !.at = IF jobs[c].left = 1 THEN "MEASURE" ELSE @]
    <3>1. jobs[c].at = "REPLAY" /\ jobs[c].left >= 1 /\ jobs[c].status \in Busy /\ Running(c)
          /\ TaskFrame /\ lock = c
      BY <1>2, <2>2 DEF Active
    <3>2. /\ job \in Job /\ job.at \in {"REPLAY", "MEASURE"} /\ job.cancel = jobs[c].cancel
          /\ job.status = jobs[c].status
          /\ job.at = "REPLAY" => job.left >= 1
      <4>1. jobs[c].left - 1 \in 0 .. Checkpoints /\ (jobs[c].left # 1 => jobs[c].left - 1 >= 1)
        BY <1>1, <3>1 DEF Job
      <4>2. CASE jobs[c].left = 1
        BY <1>1, <3>1, <4>1, <4>2 DEF Job
      <4>3. CASE jobs[c].left # 1
        BY <1>1, <3>1, <4>1, <4>3 DEF Job
      <4> QED
        BY <4>2, <4>3
    <3> HIDE DEF job
    <3> QED
      BY <1>3, <2>2, <2>4, <3>1, <3>2 DEF Active, job
  <2> QED
    BY <2>1, <2>3, <2>4 DEF Replay
<1>9. CASE Measured(c)
  <2>1. TaskOf(c, "MEASURE") /\ stored' = stored
    BY <1>9 DEF Measured
  <2>2. CASE End(c, "CANCELLED")
    BY <1>2, <1>4, <2>1, <2>2 DEF Active, Terminal
  <2>3. CASE Moves(c, [jobs[c] EXCEPT !.at = "EXPORT"])
    <3>1. /\ [jobs[c] EXCEPT !.at = "EXPORT"] \in Job
          /\ [jobs[c] EXCEPT !.at = "EXPORT"].at = "EXPORT"
          /\ [jobs[c] EXCEPT !.at = "EXPORT"].cancel = jobs[c].cancel
          /\ [jobs[c] EXCEPT !.at = "EXPORT"].status = jobs[c].status
      BY <1>1 DEF Job
    <3> QED
      BY <1>2, <1>3, <2>1, <2>3, <3>1 DEF Active
  <2> QED
    BY <1>9, <2>2, <2>3 DEF Measured
<1>10. CASE Exported(c)
  <2>1. TaskOf(c, "EXPORT") /\ stored' = stored
    BY <1>10 DEF Exported
  <2>2. CASE jobs[c].role < Roles
    <3>1. jobs[c].role + 1 \in 1 .. Roles /\ jobs[c].windows \in 0 .. Windows
      BY <1>1, <2>2 DEF Job
    <3>2. Moves(c, Replaying(c, jobs[c].role + 1, jobs[c].windows))
      BY <1>10, <2>2 DEF Exported
    <3> QED
      BY <1>2, <1>3, <1>6, <2>1, <3>1, <3>2 DEF Active
  <2>3. CASE ~(jobs[c].role < Roles)
    <3>1. Moves(c, [jobs[c] EXCEPT !.at = "CATALOG"])
      BY <1>10, <2>3 DEF Exported
    <3>2. /\ [jobs[c] EXCEPT !.at = "CATALOG"] \in Job
          /\ [jobs[c] EXCEPT !.at = "CATALOG"].at = "CATALOG"
          /\ [jobs[c] EXCEPT !.at = "CATALOG"].cancel = jobs[c].cancel
          /\ [jobs[c] EXCEPT !.at = "CATALOG"].status = jobs[c].status
      BY <1>1 DEF Job
    <3> QED
      BY <1>2, <1>3, <2>1, <3>1, <3>2 DEF Active
  <2> QED
    BY <2>2, <2>3
<1>11. ASSUME NEW role \in 1 .. Roles, Reporting(c, role), Running(c), TaskFrame, lock = c,
              stored' = stored, jobs[c].status \in Busy
       PROVE  CampaignInv'
  <2>1. CASE AskedToStop(c)
    <3>1. End(c, "CANCELLED")
      BY <1>11, <2>1 DEF Reporting
    <3> QED
      BY <1>4, <1>11, <3>1 DEF Terminal
  <2>2. CASE ~AskedToStop(c)
    <3> DEFINE job == [jobs[c] EXCEPT !.at = "REPORT", !.role = role]
    <3>1. Moves(c, job) /\ ~jobs[c].cancel
      BY <1>11, <2>2 DEF Reporting, AskedToStop
    <3>2. /\ job \in Job /\ job.at = "REPORT" /\ job.cancel = jobs[c].cancel
          /\ job.status = jobs[c].status
      <4>1. role \in 0 .. Roles
        OBVIOUS
      <4> HIDE CampaignAssumption
      <4> QED
        BY <1>1, <4>1 DEF Job
    <3> HIDE DEF job
    <3> QED
      BY <1>3, <1>11, <3>1, <3>2 DEF Active
  <2> QED
    BY <2>1, <2>2
<1>12. CASE Catalogued(c)
  <2>1. TaskOf(c, "CATALOG") /\ stored' = stored
    BY <1>12 DEF Catalogued
  <2>2. CASE jobs[c].windows > 0
    <3>1. jobs[c].windows - 1 \in 0 .. Windows
      BY <1>1, <2>2 DEF Job
    <3>2. Moves(c, Replaying(c, 1, jobs[c].windows - 1))
      BY <1>12, <2>2 DEF Catalogued
    <3> QED
      BY <1>2, <1>3, <1>6, <2>1, <3>1, <3>2 DEF Active
  <2>3. CASE ~(jobs[c].windows > 0)
    <3>1. Reporting(c, 1)
      BY <1>12, <2>3 DEF Catalogued
    <3> QED
      BY <1>2, <1>11, <2>1, <3>1 DEF Active
  <2> QED
    BY <2>2, <2>3
<1>13. CASE Reported(c)
  <2>1. TaskOf(c, "REPORT")
    BY <1>13 DEF Reported
  <2>2. CASE jobs[c].role < Roles
    <3>1. jobs[c].role + 1 \in 1 .. Roles
      BY <1>1, <2>2 DEF Job
    <3>2. Reporting(c, jobs[c].role + 1) /\ stored' = stored
      BY <1>13, <2>2 DEF Reported
    <3> QED
      BY <1>2, <1>11, <2>1, <3>1, <3>2 DEF Active
  <2>3. CASE ~(jobs[c].role < Roles)
    <3>1. End(c, "COMPLETED") /\ stored' = Kept(Append(stored, c))
      BY <1>13, <2>3 DEF Reported
    <3>2. LastCheck(c)
      BY <1>1, <2>1, <2>3 DEF LastCheck, TaskOf, Job
    <3>3. c \notin early
      BY <3>2 DEF CampaignInv, InTime
    <3> QED
      BY <1>2, <2>1, <3>1, <3>3, EndKeeps DEF Active, Terminal
  <2> QED
    BY <2>2, <2>3
<1> QED
  BY <1>5, <1>7, <1>8, <1>9, <1>10, <1>12, <1>13 DEF JobStep

-----------------------------------------------------------------------------
(* The worker threads and the watchers *)

\* Steps that leave every campaign where it is, and change no more of a record than
\* its news, its request to stop and a status of one asked to stop.
LEMMA ThreadKeeps ==
  ASSUME CampaignInv, CampaignTypes',
         UNCHANGED <<active, lock, order, known, stored>>,
         \A c \in Campaigns :
           /\ jobs'[c].at = jobs[c].at /\ jobs'[c].role = jobs[c].role /\ jobs'[c].left = jobs[c].left
           /\ jobs[c].cancel => jobs'[c].cancel
           /\ jobs'[c].status \in {jobs[c].status, "CANCEL_REQUESTED"}
           /\ disk'[c].summary => disk[c].summary \/ Contains(stored, c),
         \A c \in early' : c \in early \/ (jobs'[c].cancel /\ ~LastCheck(c) /\ ~Over(c))
  PROVE  CampaignInv'
<1> USE CampaignAssumption
<1>1. early \subseteq Campaigns /\ early' \subseteq Campaigns
  BY DEF CampaignInv, CampaignTypes
<1>2. OneAtATime'
  BY DEF CampaignInv, OneAtATime, Started, Over
<1>3. UnderWay'
  <2>1. \A c \in Campaigns : Running(c)' => jobs'[c].status \in Busy
    BY DEF CampaignInv, UnderWay, Running, Started, Over, Busy
  <2>2. \A c \in Campaigns : jobs'[c].at = "REPLAY" => jobs'[c].left >= 1
    BY DEF CampaignInv, UnderWay
  <2>3. \A i \in 1 .. Len(order) : order[i] \in Campaigns
    BY DEF CampaignInv, CampaignTypes
  <2>4. \A i \in 1 .. Len(order') : jobs'[order'[i]].at # "NONE"
    BY <2>3 DEF CampaignInv, UnderWay, Started
  <2> QED
    BY <2>1, <2>2, <2>4 DEF UnderWay, Started
<1>4. InTime'
  BY <1>1 DEF CampaignInv, InTime, LastCheck, Over
<1>5. CancelHonoured'
  <2>1. \A c \in early' : ~Contains(stored, c) /\ ~disk[c].summary
    BY <1>1 DEF CampaignInv, InTime, CancelHonoured
  <2> QED
    BY <1>1, <2>1 DEF CancelHonoured
<1> QED
  BY <1>2, <1>3, <1>4, <1>5 DEF CampaignInv

LEMMA CancelReadKeeps ==
  ASSUME CampaignInv, NEW c \in Campaigns, NEW v2 \in BOOLEAN, CancelRead(c, v2)
  PROVE  CampaignInv'
<1>1. UNCHANGED <<jobs, active, lock, order, known, stored, disk, memory, watchers, loop, early>>
  BY DEF CancelRead, serviceVars, sidecarVars
<1>2. jobs[c].status \in Statuses
  BY DEF CampaignInv, CampaignTypes, Job, Statuses
<1>3. CampaignTypes'
  <2> DEFINE Cancellers == [stage : {"IDLE", "SET", "STATUS", "WRITE", "RENAME"},
                            of : Campaigns \cup {NoOne}, view : Statuses, v2 : BOOLEAN]
  <2>1. CASE canceller' = Idle
    <3>1. canceller' \in Cancellers /\ canceller'.stage = "IDLE"
      BY <2>1 DEF Idle, Statuses
    <3> QED
      BY <1>1, <3>1 DEF CampaignInv, CampaignTypes
  <2>2. CASE \E stage \in {"SET", "WRITE"} :
               canceller' = [stage |-> stage, of |-> c, view |-> jobs[c].status, v2 |-> v2]
    <3>1. canceller' \in Cancellers /\ canceller'.of = c
      BY <1>2, <2>2
    <3> QED
      BY <1>1, <3>1 DEF CampaignInv, CampaignTypes
  <2> QED
    BY <2>1, <2>2 DEF CancelRead
<1> QED
  BY <1>1, <1>3, ThreadKeeps

LEMMA CancelSetKeeps == ASSUME CampaignInv, CancelSet PROVE CampaignInv'
<1> DEFINE c == canceller.of
<1>1. /\ c \in Campaigns /\ jobs[c] \in Job /\ jobs \in [Campaigns -> Job]
  BY DEF CampaignInv, CampaignTypes, CancelSet
<1>2. /\ UNCHANGED <<active, lock, order, known, stored, disk, memory, watchers, loop>>
      /\ jobs' = [jobs EXCEPT ![c].cancel = TRUE]
      /\ early' = IF LastCheck(c) \/ jobs[c].at = "ENDED" THEN early ELSE early \cup {c}
      /\ canceller' = [canceller EXCEPT !.stage = "STATUS"]
  BY DEF CancelSet, sidecarVars
<1> HIDE DEF c
<1>3. /\ jobs' \in [Campaigns -> Job]
      /\ \A d \in Campaigns :
           /\ jobs'[d].at = jobs[d].at /\ jobs'[d].role = jobs[d].role /\ jobs'[d].left = jobs[d].left
           /\ jobs'[d].status = jobs[d].status
           /\ jobs'[d].cancel = (jobs[d].cancel \/ d = c)
  <2>1. [jobs[c] EXCEPT !.cancel = TRUE] \in Job /\ jobs'[c] = [jobs[c] EXCEPT !.cancel = TRUE]
    BY <1>1, <1>2 DEF Job
  <2>2. \A d \in Campaigns \ {c} : jobs'[d] = jobs[d]
    BY <1>1, <1>2
  <2>3. \A d \in Campaigns : jobs[d] \in Job /\ jobs[d].cancel \in BOOLEAN
    BY <1>1 DEF Job
  <2>4. /\ jobs'[c].at = jobs[c].at /\ jobs'[c].role = jobs[c].role /\ jobs'[c].left = jobs[c].left
        /\ jobs'[c].status = jobs[c].status /\ jobs'[c].cancel = TRUE
    BY <1>1, <2>1 DEF Job
  <2> QED
    BY <1>1, <1>2, <2>1, <2>2, <2>3, <2>4
<1>4. CampaignTypes'
  <2>1. canceller' \in [stage : {"IDLE", "SET", "STATUS", "WRITE", "RENAME"},
                        of : Campaigns \cup {NoOne}, view : Statuses, v2 : BOOLEAN]
        /\ canceller'.of \in Campaigns
    BY <1>1, <1>2 DEF CampaignInv, CampaignTypes, c
  <2>2. early' \subseteq Campaigns
    BY <1>1, <1>2 DEF CampaignInv, CampaignTypes
  <2> QED
    BY <1>2, <1>3, <2>1, <2>2 DEF CampaignInv, CampaignTypes
<1>5. \A d \in early' : d \in early \/ (jobs'[d].cancel /\ ~LastCheck(d) /\ ~Over(d))
  BY <1>1, <1>2, <1>3 DEF Over
<1> QED
  BY <1>2, <1>3, <1>4, <1>5, ThreadKeeps

LEMMA CancelStatusKeeps == ASSUME CampaignInv, CancelStatus PROVE CampaignInv'
<1> DEFINE c == canceller.of
<1>1. /\ c \in Campaigns /\ jobs[c] \in Job /\ jobs \in [Campaigns -> Job]
  BY DEF CampaignInv, CampaignTypes, CancelStatus
<1>2. /\ UNCHANGED <<active, lock, order, known, stored, disk, memory, watchers, loop, early>>
      /\ jobs' = [jobs EXCEPT ![c].status = "CANCEL_REQUESTED", ![c].news = TRUE]
      /\ canceller' = IF canceller.v2 THEN [canceller EXCEPT !.stage = "WRITE", !.view = "CANCEL_REQUESTED"]
                      ELSE Idle
  BY DEF CancelStatus, sidecarVars
<1> HIDE DEF c
<1>3. /\ jobs' \in [Campaigns -> Job]
      /\ \A d \in Campaigns :
           /\ jobs'[d].at = jobs[d].at /\ jobs'[d].role = jobs[d].role /\ jobs'[d].left = jobs[d].left
           /\ jobs'[d].status \in {jobs[d].status, "CANCEL_REQUESTED"}
           /\ jobs'[d].cancel = jobs[d].cancel
  <2>1. /\ [jobs[c] EXCEPT !.status = "CANCEL_REQUESTED", !.news = TRUE] \in Job
        /\ jobs'[c] = [jobs[c] EXCEPT !.status = "CANCEL_REQUESTED", !.news = TRUE]
    BY <1>1, <1>2 DEF Job
  <2>2. \A d \in Campaigns \ {c} : jobs'[d] = jobs[d]
    BY <1>1, <1>2
  <2>3. /\ jobs'[c].at = jobs[c].at /\ jobs'[c].role = jobs[c].role /\ jobs'[c].left = jobs[c].left
        /\ jobs'[c].status = "CANCEL_REQUESTED" /\ jobs'[c].cancel = jobs[c].cancel
    BY <1>1, <2>1 DEF Job
  <2> QED
    BY <1>1, <1>2, <2>1, <2>2, <2>3
<1>4. CampaignTypes'
  <2>1. /\ canceller' \in [stage : {"IDLE", "SET", "STATUS", "WRITE", "RENAME"},
                           of : Campaigns \cup {NoOne}, view : Statuses, v2 : BOOLEAN]
        /\ canceller'.stage # "IDLE" => canceller'.of \in Campaigns
    <3>1. canceller \in [stage : {"IDLE", "SET", "STATUS", "WRITE", "RENAME"},
                         of : Campaigns \cup {NoOne}, view : Statuses, v2 : BOOLEAN]
          /\ canceller.of \in Campaigns
      BY <1>1 DEF CampaignInv, CampaignTypes, c
    <3>2. CASE canceller.v2
      BY <1>2, <3>1, <3>2 DEF Statuses
    <3>3. CASE ~canceller.v2
      BY <1>2, <3>3 DEF Statuses, Idle
    <3> QED
      BY <3>2, <3>3
  <2> QED
    BY <1>2, <1>3, <2>1 DEF CampaignInv, CampaignTypes
<1> QED
  BY <1>2, <1>3, <1>4, ThreadKeeps

\* Files of the cancel route: only a progress file changes.
LEMMA CancelFilesKeep == ASSUME CampaignInv, CancelWrite \/ CancelRename PROVE CampaignInv'
<1> DEFINE c == canceller.of
           Files == [progress : Statuses, tmp : Statuses, summary : BOOLEAN]
<1>1. /\ c \in Campaigns /\ canceller.view \in Statuses /\ disk \in [Campaigns -> Files]
      /\ canceller \in [stage : {"IDLE", "SET", "STATUS", "WRITE", "RENAME"},
                        of : Campaigns \cup {NoOne}, view : Statuses, v2 : BOOLEAN]
  BY DEF CampaignInv, CampaignTypes, CancelWrite, CancelRename
<1>2. UNCHANGED <<jobs, active, lock, order, known, stored, memory, watchers, loop, early>>
  BY DEF CancelWrite, CancelRename, serviceVars
<1>3. disk' \in [Campaigns -> Files] /\ \A d \in Campaigns : disk'[d].summary = disk[d].summary
  <2>1. CASE CancelWrite
    BY <1>1, <2>1 DEF CancelWrite
  <2>2. CASE CancelRename
    BY <1>1, <2>2 DEF CancelRename, Renamed, Statuses
  <2> QED
    BY <2>1, <2>2
<1>4. /\ canceller' \in [stage : {"IDLE", "SET", "STATUS", "WRITE", "RENAME"},
                         of : Campaigns \cup {NoOne}, view : Statuses, v2 : BOOLEAN]
      /\ canceller'.stage # "IDLE" => canceller'.of \in Campaigns
  <2>1. CASE CancelWrite
    BY <1>1, <2>1 DEF CancelWrite
  <2>2. CASE CancelRename
    BY <1>1, <2>2 DEF CancelRename, Idle, Statuses
  <2> QED
    BY <2>1, <2>2
<1>5. CampaignTypes'
  BY <1>2, <1>3, <1>4 DEF CampaignInv, CampaignTypes
<1> QED
  BY <1>2, <1>3, <1>5, ThreadKeeps

LEMMA PollKeeps == ASSUME CampaignInv, NEW c \in Campaigns, Poll(c) PROVE CampaignInv'
<1> DEFINE Files == [progress : Statuses, tmp : Statuses, summary : BOOLEAN]
<1>1. /\ jobs[c] \in Job /\ jobs \in [Campaigns -> Job] /\ disk \in [Campaigns -> Files]
      /\ watchers \in [Campaigns -> Watcher] /\ loop = NoOne
      /\ UNCHANGED <<active, lock, order, known, stored, memory, canceller, early>>
  BY DEF CampaignInv, CampaignTypes, Poll, threadVars
<1>2. CASE c \notin known
  <2>1. watchers' = [watchers EXCEPT ![c].stage = "RETURNED"] /\ UNCHANGED <<jobs, disk, loop>>
    BY <1>2 DEF Poll
  <2>2. watchers' \in [Campaigns -> Watcher]
    BY <1>1, <2>1 DEF Watcher
  <2>3. CampaignTypes'
    BY <1>1, <2>1, <2>2 DEF CampaignInv, CampaignTypes
  <2> QED
    BY <1>1, <2>1, <2>3, ThreadKeeps
<1>3. CASE c \in known
  <2>1. /\ jobs' = [jobs EXCEPT ![c].news = FALSE]
        /\ watchers' = [watchers EXCEPT ![c] = [stage |-> "RENAME", view |-> jobs[c].status]]
        /\ disk' = [disk EXCEPT ![c].tmp = jobs[c].status]
        /\ loop' = c
    BY <1>3 DEF Poll
  <2>2. jobs[c].status \in Statuses
    BY <1>1 DEF Job, Statuses
  <2>3. /\ jobs' \in [Campaigns -> Job]
        /\ \A d \in Campaigns :
             /\ jobs'[d].at = jobs[d].at /\ jobs'[d].role = jobs[d].role /\ jobs'[d].left = jobs[d].left
             /\ jobs'[d].status = jobs[d].status /\ jobs'[d].cancel = jobs[d].cancel
    BY <1>1, <2>1 DEF Job
  <2>4. disk' \in [Campaigns -> Files] /\ \A d \in Campaigns : disk'[d].summary = disk[d].summary
    BY <1>1, <2>1, <2>2
  <2>5. watchers' \in [Campaigns -> Watcher] /\ watchers'[c].stage \in AtFiles
    BY <1>1, <2>1, <2>2 DEF Watcher, AtFiles
  <2>6. CampaignTypes'
    BY <1>1, <2>1, <2>3, <2>4, <2>5 DEF CampaignInv, CampaignTypes
  <2> QED
    BY <1>1, <2>3, <2>4, <2>6, ThreadKeeps
<1> QED
  BY <1>2, <1>3

LEMMA RenameKeeps == ASSUME CampaignInv, NEW c \in Campaigns, Rename(c) PROVE CampaignInv'
<1> DEFINE Files == [progress : Statuses, tmp : Statuses, summary : BOOLEAN]
<1>1. /\ disk \in [Campaigns -> Files] /\ watchers \in [Campaigns -> Watcher]
      /\ loop' = NoOne
      /\ UNCHANGED <<jobs, active, lock, order, known, stored, memory, canceller, early>>
  BY DEF CampaignInv, CampaignTypes, Rename, serviceVars, threadVars
<1>2. Renamed(c) \in [Campaigns -> Files] /\ \A d \in Campaigns : Renamed(c)[d].summary = disk[d].summary
  BY <1>1, ZenonT(40) DEF Renamed, Statuses
<1>3. /\ disk' \in [Campaigns -> Files]
      /\ \A d \in Campaigns : disk'[d].summary => disk[d].summary \/ Contains(stored, d)
  <2>1. CASE disk' = Renamed(c)
    BY <1>2, <2>1
  <2>2. CASE disk' = [Renamed(c) EXCEPT ![c].summary = TRUE] /\ Contains(stored, c)
    <3>1. disk' \in [Campaigns -> Files]
      BY <1>2, <2>2
    <3>2. \A d \in Campaigns \ {c} : disk'[d] = Renamed(c)[d]
      BY <1>2, <2>2
    <3> QED
      BY <1>2, <2>2, <3>1, <3>2
  <2> QED
    BY <2>1, <2>2 DEF Rename
<1>4. watchers' \in [Campaigns -> Watcher]
  <2>1. PICK stage \in {"RAISED", "RETURNED", "CANCELLED", "WATCHING"} :
          watchers' = [watchers EXCEPT ![c] = [stage |-> stage, view |-> "NONE"]]
    BY DEF Rename
  <2> QED
    BY <1>1, <2>1 DEF Statuses, Watcher
<1>5. CampaignTypes'
  BY <1>1, <1>3, <1>4 DEF CampaignInv, CampaignTypes
<1> QED
  BY <1>1, <1>3, <1>5, ThreadKeeps

\* A campaign that is opened may cost another its watcher.
LEMMA OpenKeeps ==
  ASSUME CampaignInv, NEW x \in Campaigns \cup Earlier, Open(x)
  PROVE  CampaignInv'
<1>1. /\ Takes(x) /\ CampaignTypes
      /\ UNCHANGED <<jobs, active, lock, order, known, stored, canceller, disk, loop, early>>
  BY DEF CampaignInv, Open, serviceVars, threadVars
<1>2. /\ memory' \in Holdings /\ Len(memory') <= SidecarLimit
      /\ watchers' \in [Campaigns -> Watcher]
      /\ \A c \in Campaigns : watchers[c].stage \in AtFiles => watchers'[c].stage \in AtFiles
  BY <1>1, TakesKeeps
<1>3. CampaignTypes'
  BY <1>1, <1>2 DEF CampaignTypes
<1> QED
  BY <1>1, <1>3, ThreadKeeps

-----------------------------------------------------------------------------
(* The theorem *)

\* Whatever the statements of a cancel route on its thread fall between, one campaign
\* at a time is under way and holds the lock, the histories keep to their limit, and a
\* stop asked for before the last checkpoint leaves no result, stored or on disk.
THEOREM CampaignsAlwaysObey == CampaignSpec => []CampaignsObey
<1>1. CampaignInit => CampaignInv
  BY CampaignInitInv
<1>2. CampaignInv /\ [CampaignNext]_campaignVars => CampaignInv'
  <2> SUFFICES ASSUME CampaignInv, [CampaignNext]_campaignVars PROVE CampaignInv'
    OBVIOUS
  <2>1. CASE \E c \in Campaigns : JobStep(c) \/ Poll(c) \/ Rename(c)
    BY <2>1, TaskKeeps, PollKeeps, RenameKeeps
  <2>2. CASE \E c \in Campaigns, v2 \in BOOLEAN : StartCampaign(c, v2) \/ CancelRead(c, v2)
    BY <2>2, StartKeeps, CancelReadKeeps
  <2>3. CASE CancelSet \/ CancelStatus \/ CancelWrite \/ CancelRename
    BY <2>3, CancelSetKeeps, CancelStatusKeeps, CancelFilesKeep
  <2>4. CASE UNCHANGED campaignVars
    <3>1. UNCHANGED <<jobs, active, lock, order, known, stored, canceller, disk, memory, watchers, loop, early>>
      BY <2>4 DEF campaignVars, serviceVars, threadVars, sidecarVars
    <3>2. CampaignTypes'
      BY <3>1 DEF CampaignInv, CampaignTypes
    <3> QED
      BY <3>1, <3>2, ThreadKeeps
  <2>5. CASE \E x \in Campaigns \cup Earlier : Open(x)
    BY <2>5, OpenKeeps
  <2> QED
    BY <2>1, <2>2, <2>3, <2>4, <2>5 DEF CampaignNext
<1>3. CampaignInv => CampaignsObey
  BY DEF CampaignInv, CampaignsObey, CampaignTypes, CampaignTypeOK, AtFiles
<1> QED
  BY <1>1, <1>2, <1>3, PTL DEF CampaignSpec

---------------------------------------------------------------------------
(* A CACHED campaign repeats the LIVE_EVAL one (ReplayCache).               *)

\* Whose answers a stage starts from.
Settled(stage) ==
  CASE stage = "round" -> {"plan"}
    [] stage = "palermo" -> {"plan"} \cup Range(Crew)
    [] stage = "final" -> {"plan", "palermo"} \cup Range(Crew)
    [] OTHER -> {}

Replies == UNION {replies[a] : a \in Agents}
Stages == {"gate", "plan", "round", "palermo", "final"}
CleanCampaigns ==
  [mode : {"LIVE_EVAL"}, agenda : Agendas, limit : Limits, status : {"RUNNING", "COMPLETED"},
   period : Nat, opportunity : Nat \ {0}, trades : Nat, stage : Stages,
   route : [Agents -> {0, 1}], said : [Agents -> Replies \cup {Nothing}], spent : Nat,
   results : Seq({"TRADE", "NO_TRADE", "NO_ANALYSIS", "FAILED"}), put : {{}}, flaws : {{}}]

\* A campaign between two stages.
Rests(c) ==
  /\ c \in CleanCampaigns
  /\ \A a \in Agents : IF a \in Settled(c.stage) THEN c.route[a] = 1 /\ c.said[a] \in replies[a]
                       ELSE c.route[a] = 0 /\ c.said[a] = Nothing
  /\ c.opportunity <= Len(c.results) + 1
  /\ c.status = "COMPLETED" => c.stage = "gate"

\* A campaign that starts.
Opened(mode, agenda, limit) ==
  [NoCampaign EXCEPT !.mode = mode, !.agenda = agenda, !.limit = limit, !.status = "RUNNING"]
Launched(agenda, limit) == Opened("LIVE_EVAL", agenda, limit)

\* What a campaign has in common with the one it repeats.
Plain(c) == [c EXCEPT !.mode = "LIVE_EVAL", !.put = {}, !.flaws = {}]

Members(c) == Range(Of(c.stage))
First(stage, k) == {Of(stage)[i] : i \in 1 .. k}

Price(reply) == IF reply = Nothing THEN 0 ELSE reply.cost
Paid(w, some) == Sums([a \in Agents |-> Price(w[a])], Agents)[some]

\* What the agents of c's stage may have answered, some of them not yet.
Partial(c) ==
  {w \in [Agents -> Replies \cup {Nothing}] :
     \A a \in Agents : w[a] # Nothing => a \in Members(c) /\ w[a] \in replies[a]}

\* Some of c's stage were asked, and answered as far as w goes.
Answers(c, w, some) ==
  [c EXCEPT !.route = [a \in Agents |-> IF a \in some THEN 1 ELSE c.route[a]],
            !.said = [a \in Agents |-> IF a \in some /\ w[a] # Nothing THEN w[a] ELSE c.said[a]],
            !.spent = c.spent + Paid(w, some)]
Filled(c, w) == Answers(c, w, Members(c))

\* The budget holds the whole stage at once.
HasRoom(c) == c.spent + Len(Of(c.stage)) * estimate[1] <= c.limit

AreKept(c, w, kept) ==
  \A a \in Members(c) : w[a] # Nothing => Key(c, a, 1) \in DOMAIN kept /\ kept[Key(c, a, 1)] = w[a]

AfterGate(c) ==
  IF c.limit - c.spent < MinAnalysis THEN Concluded(c, "NO_ANALYSIS") ELSE [c EXCEPT !.stage = "plan"]

\* One stage: c goes on to d with what was kept.
Leads(c, d, kept) ==
  /\ c.status = "RUNNING"
  /\ \/ c.stage = "gate" /\ d = AfterGate(c)
     \/ /\ c.stage # "gate" /\ HasRoom(c)
        /\ \E w \in Partial(c) : /\ \A a \in Members(c) : w[a] # Nothing
                                 /\ AreKept(c, w, kept) /\ d = GoesOn(Filled(c, w))

Continues(s, t) == Len(s) <= Len(t) /\ \A i \in 1 .. Len(s) : s[i] = t[i]

\* The states R are those a campaign that now is at e went through.
Tale(R, e, kept) ==
  /\ Launched(e.agenda, e.limit) \in R /\ e \in R
  /\ \A c \in R : Rests(c) /\ c.agenda = e.agenda /\ c.limit = e.limit /\ Continues(c.results, e.results)
  /\ \A c \in R \ {e} : \E d \in R : Leads(c, d, kept)

\* What c kept, and what all holds for it.
KeptBy(c, all) == [k \in c.put |-> all[k]]

\* A campaign is a record of these fields.
HasFields(c) ==
  c \in [mode : {c.mode}, agenda : {c.agenda}, limit : {c.limit}, status : {c.status},
         period : {c.period}, opportunity : {c.opportunity}, trades : {c.trades}, stage : {c.stage},
         route : {c.route}, said : {c.said}, spent : {c.spent}, results : {c.results},
         put : {c.put}, flaws : {c.flaws}]
Shaped(c) ==
  HasFields(c) /\ c.route = [a \in Agents |-> c.route[a]] /\ c.said = [a \in Agents |-> c.said[a]]

Made(c, route, said, spent, flaws) ==
  [mode |-> c.mode, agenda |-> c.agenda, limit |-> c.limit, status |-> c.status, period |-> c.period,
   opportunity |-> c.opportunity, trades |-> c.trades, stage |-> c.stage, route |-> route, said |-> said,
   spent |-> spent, results |-> c.results, put |-> c.put, flaws |-> flaws]

\* What asking and answering leave as they are.
Alike(x, c) ==
  /\ x.mode = c.mode /\ x.agenda = c.agenda /\ x.limit = c.limit /\ x.status = c.status
  /\ x.period = c.period /\ x.opportunity = c.opportunity /\ x.trades = c.trades
  /\ x.stage = c.stage /\ x.results = c.results /\ x.put = c.put

---------------------------------------------------------------------------
(* Who is asked.                                                            *)

AskingStages == {"plan", "round", "palermo", "final"}

LEMMA AgentsOfStages ==
  ASSUME NEW stage \in AskingStages
  PROVE  /\ Of(stage) \in Seq(Agents) /\ Len(Of(stage)) \in Nat \ {0} /\ DOMAIN Of(stage) = 1 .. Len(Of(stage))
         /\ \A i \in DOMAIN Of(stage) : Of(stage)[i] \in Agents \ Settled(stage)
         /\ \A i, j \in DOMAIN Of(stage) : Of(stage)[i] = Of(stage)[j] => i = j
<1>1. CASE stage = "round"
  <2>1. Of(stage) = Crew /\ Crew \in Seq(Range(Crew)) /\ Crew # <<>>
    BY <1>1, ReplayCacheAssumption DEF Of
  <2>2. \A i \in DOMAIN Crew : Crew[i] \in Range(Crew)
    BY DEF Range
  <2>3. Range(Crew) \subseteq Agents \ Settled(stage)
    BY <1>1, ReplayCacheAssumption DEF Agents, Core, Settled
  <2>4. Crew \in Seq(Agents)
    BY <2>1, <2>2, <2>3
  <2> QED
    BY <2>1, <2>2, <2>3, <2>4, ReplayCacheAssumption DEF IsInjective
<1>2. CASE stage # "round"
  <2>1. Of(stage) = <<stage>> /\ stage \in Agents \ Settled(stage)
    BY <1>2, ReplayCacheAssumption DEF Of, Agents, Core, Settled, AskingStages
  <2> QED
    BY <2>1
<1> QED
  BY <1>1, <1>2

LEMMA AgentsFinite == IsFiniteSet(Agents)
<1>1. IsFiniteSet(Range(Crew))
  <2> DEFINE place == [i \in 1 .. Len(Crew) |-> Crew[i]]
  <2>1. Len(Crew) \in Nat /\ DOMAIN Crew = 1 .. Len(Crew)
    BY ReplayCacheAssumption
  <2>2. IsFiniteSet(1 .. Len(Crew))
    BY <2>1, FS_Interval
  <2>3. place \in Surjection(1 .. Len(Crew), Range(Crew))
    BY <2>1 DEF Surjection, Range
  <2> QED
    BY <2>2, <2>3, FS_Surjection
<1>2. IsFiniteSet({}) /\ IsFiniteSet({"plan"}) /\ IsFiniteSet({"palermo"}) /\ IsFiniteSet({"final"})
  BY FS_EmptySet, FS_Singleton
<1>3. Core = {"plan"} \cup ({"palermo"} \cup {"final"})
  BY DEF Core
<1>4. IsFiniteSet(Core)
  BY <1>2, <1>3, FS_Union, Zenon
<1> QED
  BY <1>1, <1>4, FS_Union, Zenon DEF Agents

---------------------------------------------------------------------------
(* Those of a stage are asked one after the other.                          *)

\* What the library folds.
AskStep(b, agents, fold, T) == IF T = {} THEN b ELSE Asks(fold[T \ {Max(T)}], agents[Max(T)])
AskFold(b, agents) ==
  CHOOSE fold : fold = [T \in SUBSET DOMAIN agents |-> AskStep(b, agents, fold, T)]

\* The campaign after the first k of the agents.
AfterAsking(b, agents, k) == AskFold(b, agents)[1 .. k]

LEMMA LastPlace ==
  ASSUME NEW n \in Nat, NEW T \in SUBSET (1 .. n), T # {}
  PROVE  Max(T) \in T
<1>1. T \subseteq Nat /\ \A i \in T : i <= n
  OBVIOUS
<1> QED
  BY <1>1, LargestMember

LEMMA PlacesCounted ==
  ASSUME NEW n \in Nat
  PROVE  IsFiniteSet(1 .. n) /\ Cardinality(1 .. n) = n
BY FS_Interval, SMTT(40)

\* The recursion has a solution, so the fold is one.
LEMMA AskRecursion ==
  ASSUME NEW b, NEW agents, Len(agents) \in Nat, DOMAIN agents = 1 .. Len(agents)
  PROVE  \A T \in SUBSET DOMAIN agents :
           AskFold(b, agents)[T] = AskStep(b, agents, AskFold(b, agents), T)
<1> DEFINE n == Len(agents)
           S == DOMAIN agents
           UpTo(k) == \E fold : \A T \in SUBSET S :
                        Cardinality(T) <= k => fold[T] = AskStep(b, agents, fold, T)
           Missing == {k \in Nat : ~UpTo(k)}
<1>1. /\ n \in Nat /\ IsFiniteSet(S) /\ Cardinality(S) = n
      /\ \A T \in SUBSET S : T # {} => Max(T) \in T
  <2>1. n \in Nat /\ S = 1 .. n
    OBVIOUS
  <2>2. IsFiniteSet(1 .. n) /\ Cardinality(1 .. n) = n
    BY <2>1, PlacesCounted
  <2>3. \A T \in SUBSET (1 .. n) : T # {} => Max(T) \in T
    BY <2>1, LastPlace
  <2> QED
    BY <2>1, <2>2, <2>3
<1> HIDE DEF n, S
<1>2. Missing = {}
  <2>1. SUFFICES ASSUME Missing # {} PROVE FALSE
    OBVIOUS
  <2>2. PICK k \in Missing : \A m \in Missing : k <= m
    BY <2>1, SmallestMember
  <2>3. UpTo(k)
    <3>1. CASE k = 0
      <4> DEFINE start == [T \in SUBSET S |-> b]
      <4>1. \A T \in SUBSET S : Cardinality(T) <= k => T = {}
        BY <1>1, <3>1, Shrinks
      <4>2. \A T \in SUBSET S : Cardinality(T) <= k => start[T] = AskStep(b, agents, start, T)
        BY <4>1 DEF AskStep
      <4> QED
        BY <4>2
    <3>2. CASE k # 0
      <4>1. k - 1 \in Nat /\ UpTo(k - 1)
        <5>1. k - 1 \in Nat /\ ~(k <= k - 1)
          BY <3>2
        <5>2. k - 1 \notin Missing
          BY <2>2, <5>1
        <5> QED
          BY <5>1, <5>2
      <4>2. PICK fold : \A T \in SUBSET S : Cardinality(T) <= k - 1 => fold[T] = AskStep(b, agents, fold, T)
        BY <4>1
      <4> DEFINE more == [T \in SUBSET S |-> AskStep(b, agents, fold, T)]
      <4>3. ASSUME NEW T \in SUBSET S, Cardinality(T) <= k PROVE more[T] = AskStep(b, agents, more, T)
        <5>1. CASE T = {}
          BY <5>1 DEF AskStep
        <5>2. CASE T # {}
          <6> DEFINE R == T \ {Max(T)}
          <6>1. Max(T) \in T
            BY <1>1, <5>2
          <6>2. R \in SUBSET S /\ Cardinality(R) <= k - 1
            BY <1>1, <4>3, <6>1, Shrinks
          <6>3. fold[R] = AskStep(b, agents, fold, R)
            BY <4>2, <6>2
          <6>4. more[R] = fold[R]
            BY <6>2, <6>3
          <6>5. AskStep(b, agents, more, T) = AskStep(b, agents, fold, T)
            BY <5>2, <6>4 DEF AskStep
          <6> QED
            BY <6>5
        <5> QED
          BY <5>1, <5>2
      <4> QED
        BY <4>3
    <3> QED
      BY <3>1, <3>2
  <2> QED
    BY <2>3
<1>3. UpTo(n)
  BY <1>1, <1>2
<1>4. PICK fold : \A T \in SUBSET S : Cardinality(T) <= n => fold[T] = AskStep(b, agents, fold, T)
  BY <1>3
<1>5. \A T \in SUBSET S : Cardinality(T) <= n
  BY <1>1, FS_Subset
<1> DEFINE whole == [T \in SUBSET S |-> fold[T]]
<1>6. ASSUME NEW T \in SUBSET S PROVE AskStep(b, agents, fold, T) = AskStep(b, agents, whole, T)
  <2>1. whole[T \ {Max(T)}] = fold[T \ {Max(T)}]
    OBVIOUS
  <2> QED
    BY <2>1 DEF AskStep
<1>7. whole = [T \in SUBSET S |-> AskStep(b, agents, whole, T)]
  BY <1>4, <1>5, <1>6
<1> HIDE DEF whole
<1>8. AskFold(b, agents) = [T \in SUBSET S |-> AskStep(b, agents, AskFold(b, agents), T)]
  BY <1>7, Zenon DEF S, AskFold
<1> DEFINE asks == AskFold(b, agents)
<1> HIDE DEF asks
<1>9. asks = [T \in SUBSET S |-> AskStep(b, agents, asks, T)]
  BY <1>8 DEF asks
<1>10. \A T \in SUBSET S : asks[T] = AskStep(b, agents, asks, T)
  BY <1>9
<1> QED
  BY <1>10 DEF asks, S

\* They are asked in the order of the sequence.
LEMMA AskedInOrder ==
  ASSUME NEW b, NEW stage \in AskingStages
  PROVE  /\ AfterAsking(b, Of(stage), 0) = b
         /\ \A k \in 1 .. Len(Of(stage)) :
              AfterAsking(b, Of(stage), k) = Asks(AfterAsking(b, Of(stage), k - 1), Of(stage)[k])
         /\ AllAsk(b, Of(stage)) = AfterAsking(b, Of(stage), Len(Of(stage)))
<1>6. PICK agents : agents = Of(stage)
  OBVIOUS
<1>7. Len(agents) \in Nat /\ DOMAIN agents = 1 .. Len(agents)
  BY <1>6, AgentsOfStages
<1> DEFINE n == Len(agents)
           asks == AskFold(b, agents)
<1>1. \A T \in SUBSET (1 .. n) : asks[T] = AskStep(b, agents, asks, T)
  BY <1>7, AskRecursion
<1>2. AllAsk(b, agents) = asks[DOMAIN agents]
  BY Zenon DEF AllAsk, FoldLeft, MapThenFoldSet, AskFold, AskStep
<1>3. n \in Nat /\ DOMAIN agents = 1 .. n
  BY <1>7
<1> HIDE DEF asks, n
<1>4. asks[1 .. 0] = b
  <2>1. 1 .. 0 = {} /\ {} \in SUBSET (1 .. n)
    BY <1>3
  <2> QED
    BY <1>1, <2>1 DEF AskStep
<1>5. ASSUME NEW k \in 1 .. n PROVE asks[1 .. k] = Asks(asks[1 .. (k - 1)], agents[k])
  <2> DEFINE T == 1 .. k
  <2>1. T \in SUBSET (1 .. n) /\ T # {} /\ k \in T /\ \A i \in T : i <= k
    <3>1. k \in Nat /\ 1 <= k /\ k <= n
      BY <1>3
    <3>2. k \in T /\ \A i \in T : i \in Nat /\ 1 <= i /\ i <= k
      BY <3>1
    <3>3. \A i \in T : i \in 1 .. n
      BY <1>3, <3>1, <3>2
    <3> QED
      BY <3>2, <3>3
  <2>2. Max(T) \in T /\ k <= Max(T)
    <3>1. T \subseteq Nat /\ k \in Nat
      OBVIOUS
    <3> HIDE DEF T
    <3> QED
      BY <2>1, <3>1, LargestMember
  <2>3. Max(T) = k
    BY <2>2
  <2>4. T \ {k} = 1 .. (k - 1)
    OBVIOUS
  <2>5. asks[T] = AskStep(b, agents, asks, T)
    BY <1>1, <2>1
  <2>6. asks[T] = Asks(asks[T \ {k}], agents[k])
    BY <2>1, <2>3, <2>5 DEF AskStep
  <2> QED
    BY <2>4, <2>6
<1>8. /\ AfterAsking(b, agents, 0) = b /\ AllAsk(b, agents) = AfterAsking(b, agents, Len(agents))
      /\ \A k \in 1 .. Len(agents) : AfterAsking(b, agents, k) = Asks(AfterAsking(b, agents, k - 1), agents[k])
  BY <1>2, <1>3, <1>4, <1>5 DEF asks, n, AfterAsking
<1> QED
  BY <1>6, <1>8

---------------------------------------------------------------------------
(* What a stage costs.                                                      *)

LEMMA FirstOfStage ==
  ASSUME NEW stage \in AskingStages
  PROVE  /\ First(stage, 0) = {} /\ First(stage, Len(Of(stage))) = Range(Of(stage))
         /\ Range(Of(stage)) \subseteq Agents /\ Range(Of(stage)) \cap Settled(stage) = {}
         /\ \A k \in 1 .. Len(Of(stage)) :
              /\ Of(stage)[k] \in Range(Of(stage)) /\ Of(stage)[k] \notin First(stage, k - 1)
              /\ First(stage, k) = First(stage, k - 1) \cup {Of(stage)[k]}
              /\ First(stage, k) \subseteq Range(Of(stage))
<1> DEFINE n == Len(Of(stage))
           s == Of(stage)
<1>1. /\ n \in Nat \ {0} /\ DOMAIN s = 1 .. n
      /\ \A i \in 1 .. n : s[i] \in Agents \ Settled(stage)
      /\ \A i, j \in 1 .. n : s[i] = s[j] => i = j
  BY AgentsOfStages
<1> HIDE DEF s, n
<1> DEFINE F(k) == {s[i] : i \in 1 .. k}
<1>2. F(0) = {} /\ F(n) = {s[i] : i \in DOMAIN s}
  <2>1. 1 .. 0 = {}
    OBVIOUS
  <2> QED
    BY <1>1, <2>1
<1>3. \A i \in DOMAIN s : s[i] \in Agents \ Settled(stage)
  BY <1>1
<1>4. ASSUME NEW k \in 1 .. n
      PROVE  s[k] \notin F(k - 1) /\ F(k) = F(k - 1) \cup {s[k]} /\ F(k) \subseteq {s[i] : i \in DOMAIN s}
  <2>1. k \in Nat /\ 1 <= k /\ k <= n
    BY <1>1
  <2>2. 1 .. k = (1 .. (k - 1)) \cup {k} /\ k \notin 1 .. (k - 1)
    BY <2>1
  <2>3. \A i \in 1 .. k : i \in 1 .. n
    BY <1>1, <2>1
  <2>4. F(k) = F(k - 1) \cup {s[k]}
    BY <2>2
  <2>5. s[k] \notin F(k - 1)
    BY <1>1, <2>2, <2>3
  <2>6. F(k) \subseteq {s[i] : i \in DOMAIN s}
    BY <1>1, <2>3
  <2> QED
    BY <2>4, <2>5, <2>6
<1>5. Range(s) = {s[i] : i \in DOMAIN s}
  BY DEF Range
<1>6. \A k : First(stage, k) = F(k)
  BY DEF First, s
<1> HIDE DEF F
<1> QED
  BY <1>1, <1>2, <1>3, <1>4, <1>5, <1>6, SMTT(40) DEF s, n

LEMMA Estimates ==
  /\ 1 \in DOMAIN estimate /\ DOMAIN estimate \subseteq Nat \ {0} /\ estimate[1] \in Nat \ {0}
  /\ \A r \in DOMAIN estimate : estimate[r] \in Nat /\ r >= 1
  /\ \A a \in Agents : \A reply \in replies[a] :
       reply.cost \in Nat /\ reply.cost <= estimate[1] /\ reply # Nothing
<1>1. estimate \in Seq(Nat \ {0}) /\ estimate # <<>>
  BY ReplayCacheAssumption
<1>2. /\ 1 \in DOMAIN estimate /\ DOMAIN estimate \subseteq Nat \ {0} /\ estimate[1] \in Nat \ {0}
      /\ \A r \in DOMAIN estimate : estimate[r] \in Nat /\ r >= 1
  BY <1>1
<1>3. ASSUME NEW a \in Agents, NEW reply \in replies[a]
      PROVE  reply.cost \in Nat /\ reply.cost <= estimate[1] /\ reply # Nothing
  <2>1. reply.cost \in 0 .. estimate[1] /\ reply # Nothing
    BY <1>2, ReplayCacheAssumption
  <2> QED
    BY <1>2, <2>1
<1> QED
  BY <1>2, <1>3

\* k times an amount, one more each time.
LEMMA Times ==
  ASSUME NEW e \in Nat
  PROVE  /\ 0 * e = 0
         /\ \A k \in Nat \ {0} : (k - 1) * e \in Nat /\ k * e \in Nat /\ (k - 1) * e + e = k * e
         /\ \A k, n \in Nat : k <= n => k * e <= n * e
OBVIOUS

\* One more of a stage adds its value to the sum of the first.
LEMMA SumOneMore ==
  ASSUME NEW f \in [Agents -> Int], NEW stage \in AskingStages
  PROVE  /\ Sums(f, Agents)[First(stage, 0)] = 0
         /\ \A k \in 1 .. Len(Of(stage)) :
              /\ Sums(f, Agents)[First(stage, k - 1)] \in Int
              /\ Sums(f, Agents)[First(stage, k)] = Sums(f, Agents)[First(stage, k - 1)] + f[Of(stage)[k]]
<1> DEFINE sum == Sums(f, Agents)
<1>1. IsFiniteSet(Agents) /\ \A a \in Agents : f[a] \in Int
  BY AgentsFinite
<1>2. sum \in [SUBSET Agents -> Int] /\ \A T \in SUBSET Agents : sum[T] = SumStep(f, sum, T)
  BY <1>1, SumsRecursion
<1>3. sum[{}] = 0
  BY <1>2 DEF SumStep
<1>4. ASSUME NEW k \in 1 .. Len(Of(stage))
      PROVE  /\ sum[First(stage, k - 1)] \in Int
             /\ sum[First(stage, k)] = sum[First(stage, k - 1)] + f[Of(stage)[k]]
  <2> DEFINE U == First(stage, k)
             u == Of(stage)[k]
  <2>1. /\ u \in Range(Of(stage)) /\ u \notin First(stage, k - 1)
        /\ U = First(stage, k - 1) \cup {u} /\ U \subseteq Range(Of(stage))
        /\ Range(Of(stage)) \subseteq Agents
    BY FirstOfStage
  <2> DEFINE V == First(stage, k - 1)
  <2> HIDE DEF U, u, V
  <2>4. U \in SUBSET Agents /\ u \in U /\ u \in Agents /\ U \ {u} = V
    BY <2>1 DEF V
  <2>2. sum[U] = f[u] + sum[U \ {u}]
    <3>1. \A x \in Agents : f[x] \in Int
      BY <1>1
    <3> QED
      BY <1>1, <2>4, <3>1, SumsAnyOrder, SMTT(30)
  <2>3. sum[U \ {u}] \in Int /\ f[u] \in Int
    BY <1>1, <1>2, <2>4
  <2> HIDE DEF sum
  <2>5. sum[V] \in Int /\ sum[U] = sum[V] + f[u]
    <3>1. sum[U \ {u}] = sum[V]
      BY <2>4, Zenon
    <3> DEFINE p == sum[U]  q == sum[V]  r == f[u]
    <3>2. p = r + q /\ q \in Int /\ r \in Int
      BY <2>2, <2>3, <3>1
    <3> HIDE DEF p, q, r
    <3>3. p = q + r
      BY <3>2
    <3> QED
      BY <3>2, <3>3 DEF p, q, r
  <2> QED
    BY <2>5 DEF U, u, V
<1> QED
  BY <1>3, <1>4, FirstOfStage

\* The first route, for the first k of a stage.
LEMMA WholeRequest ==
  ASSUME NEW stage \in AskingStages
  PROVE  \A k \in 0 .. Len(Of(stage)) : Sums([a \in Agents |-> estimate[1]], Agents)[First(stage, k)] = k * estimate[1]
<1> DEFINE f == [a \in Agents |-> estimate[1]]
           e == estimate[1]
           n == Len(Of(stage))
           sum(k) == Sums(f, Agents)[First(stage, k)]
           odd == {k \in Nat : k <= n /\ sum(k) # k * e}
<1>1. f \in [Agents -> Int] /\ e \in Nat /\ n \in Nat /\ \A a \in Agents : f[a] = e
  BY Estimates, AgentsOfStages
<1>2. sum(0) = 0 /\ \A k \in 1 .. n : sum(k - 1) \in Int /\ sum(k) = sum(k - 1) + e
  <2>1. \A k \in 1 .. n : f[Of(stage)[k]] = e
    BY <1>1, FirstOfStage
  <2>2. /\ sum(0) = 0
        /\ \A k \in 1 .. n : sum(k - 1) \in Int /\ sum(k) = sum(k - 1) + f[Of(stage)[k]]
    BY <1>1, SumOneMore
  <2> QED
    BY <2>1, <2>2
<1> HIDE DEF f, e, n, sum
<1>3. odd = {}
  <2>1. SUFFICES ASSUME odd # {} PROVE FALSE
    OBVIOUS
  <2>2. PICK k \in odd : \A m \in odd : k <= m
    BY <2>1, SmallestMember
  <2>3. k # 0
    BY <1>1, <1>2, <2>2, Times
  <2>4. k \in Nat \ {0} /\ k \in 1 .. n /\ k - 1 \in Nat /\ k - 1 <= n
    BY <1>1, <2>2, <2>3
  <2>5. sum(k - 1) = (k - 1) * e
    BY <1>1, <2>2, <2>4
  <2>6. sum(k) = (k - 1) * e + e
    BY <1>2, <2>4, <2>5
  <2>7. (k - 1) * e + e = k * e
    BY <1>1, <2>4, Times
  <2> QED
    BY <2>2, <2>6, <2>7
<1> QED
  <2>1. \A k \in 0 .. n : k \in Nat /\ k <= n
    BY <1>1
  <2>2. \A k \in 0 .. n : sum(k) = k * e
    BY <1>3, <2>1
  <2> QED
    BY <2>2 DEF sum, f, e, n

\* What waits on its first route.
LEMMA HeldOfFirst ==
  ASSUME NEW stage \in AskingStages, NEW k \in 0 .. Len(Of(stage)), NEW x,
         Waiting(x) = First(stage, k), \A a \in Waiting(x) : x.route[a] = 1
  PROVE  Held(x) = k * estimate[1]
<1> DEFINE W == Waiting(x)
           g == [a \in W |-> estimate[x.route[a]]]
           f == [a \in Agents |-> estimate[1]]
<1>1. Held(x) = Sums(g, W)[W]
  BY FoldIsSum DEF Held
<1>2. W \subseteq Agents /\ IsFiniteSet(Agents)
  BY AgentsFinite DEF Waiting
<1>3. IsFiniteSet(W)
  BY <1>2, FS_Subset
<1>4. estimate[1] \in Int
  BY Estimates
<1>5. /\ \A a \in W : g[a] = estimate[1] /\ g[a] \in Int /\ f[a] = g[a]
      /\ \A a \in Agents : f[a] \in Int
  BY <1>2, <1>4
<1>6. W \in (SUBSET W) \cap (SUBSET Agents)
  BY <1>2
<1> HIDE DEF g, f, W
<1>7. Sums(g, W)[W] = Sums(f, Agents)[W]
  BY <1>2, <1>3, <1>5, <1>6, SumsAgree
<1>8. Sums(f, Agents)[First(stage, k)] = k * estimate[1]
  BY WholeRequest DEF f
<1> QED
  BY <1>1, <1>7, <1>8 DEF W

LEMMA PaidSoFar ==
  ASSUME NEW stage \in AskingStages, NEW w \in [Agents -> Replies \cup {Nothing}],
         \A a \in Agents : w[a] # Nothing => w[a] \in replies[a]
  PROVE  /\ Paid(w, First(stage, 0)) = 0
         /\ \A k \in 0 .. Len(Of(stage)) :
              /\ Paid(w, First(stage, k)) \in Nat /\ Paid(w, First(stage, k)) <= k * estimate[1]
              /\ (\A a \in Agents : w[a] = Nothing) => Paid(w, First(stage, k)) = 0
         /\ \A k \in 1 .. Len(Of(stage)) :
              Paid(w, First(stage, k)) = Paid(w, First(stage, k - 1)) + Price(w[Of(stage)[k]])
<1> DEFINE f == [a \in Agents |-> Price(w[a])]
           e == estimate[1]
           n == Len(Of(stage))
           paid(k) == Sums(f, Agents)[First(stage, k)]
           quiet == \A a \in Agents : w[a] = Nothing
           good(k) == paid(k) \in Nat /\ paid(k) <= k * e /\ (quiet => paid(k) = 0)
           odd == {k \in Nat : k <= n /\ ~good(k)}
<1>1. /\ \A a \in Agents : f[a] \in Nat /\ f[a] <= e /\ f[a] = Price(w[a]) /\ (quiet => f[a] = 0)
      /\ f \in [Agents -> Int] /\ e \in Nat /\ n \in Nat
  <2>1. \A a \in Agents : Price(w[a]) \in Nat /\ Price(w[a]) <= e
    BY Estimates DEF Price
  <2> HIDE DEF e
  <2>2. quiet => \A a \in Agents : Price(w[a]) = 0
    BY DEF Price
  <2> QED
    BY <2>1, <2>2, Estimates, AgentsOfStages DEF e
<1>2. \A k \in 1 .. n : Of(stage)[k] \in Agents
  BY FirstOfStage
<1>3. paid(0) = 0 /\ \A k \in 1 .. n : paid(k - 1) \in Int /\ paid(k) = paid(k - 1) + f[Of(stage)[k]]
  BY <1>1, SumOneMore
<1>4. \A k : Paid(w, First(stage, k)) = paid(k)
  BY DEF Paid
<1> HIDE DEF f, e, n, paid, quiet
<1>5. odd = {}
  <2>1. SUFFICES ASSUME odd # {} PROVE FALSE
    OBVIOUS
  <2>2. PICK k \in odd : \A m \in odd : k <= m
    BY <2>1, SmallestMember
  <2>3. k # 0
    BY <1>1, <1>3, <2>2, Times
  <2>4. k \in Nat \ {0} /\ k \in 1 .. n /\ k - 1 \in Nat /\ k - 1 <= n
    BY <1>1, <2>2, <2>3
  <2>5. good(k - 1)
    BY <1>1, <2>2, <2>4
  <2> DEFINE p == f[Of(stage)[k]]
  <2>6. p \in Nat /\ p <= e /\ (quiet => p = 0) /\ paid(k) = paid(k - 1) + p
    BY <1>1, <1>2, <1>3, <2>4
  <2>7. (k - 1) * e \in Nat /\ (k - 1) * e + e = k * e
    BY <1>1, <2>4, Times
  <2> HIDE DEF p
  <2>8. good(k)
    BY <1>1, <2>5, <2>6, <2>7
  <2> QED
    BY <2>2, <2>8
<1>6. \A k \in 0 .. n : good(k)
  BY <1>1, <1>5
<1>7. \A k \in 1 .. n : paid(k) = paid(k - 1) + Price(w[Of(stage)[k]])
  BY <1>1, <1>2, <1>3
<1> QED
  BY <1>3, <1>4, <1>6, <1>7 DEF e, n, quiet

\* An answer adds its cost.
LEMMA PaidOneMore ==
  ASSUME NEW w \in [Agents -> Replies \cup {Nothing}],
         \A a \in Agents : w[a] # Nothing => w[a] \in replies[a],
         NEW some \in SUBSET Agents, NEW agent \in some, w[agent] = Nothing, NEW reply \in replies[agent]
  PROVE  Paid([w EXCEPT ![agent] = reply], some) = Paid(w, some) + reply.cost /\ Paid(w, some) \in Int
<1> DEFINE v == [w EXCEPT ![agent] = reply]
           f == [a \in Agents |-> Price(w[a])]
           g == [a \in Agents |-> Price(v[a])]
           U == some \ {agent}
<1>1. /\ reply # Nothing /\ reply.cost \in Int
      /\ \A a \in Agents : Price(w[a]) \in Int
  BY Estimates DEF Price
<1>2. v[agent] = reply /\ \A a \in Agents \ {agent} : v[a] = w[a]
  OBVIOUS
<1>3. /\ \A a \in Agents : f[a] \in Int /\ g[a] \in Int /\ (a # agent => f[a] = g[a])
      /\ f[agent] = 0 /\ g[agent] = reply.cost
  BY <1>1, <1>2 DEF Price
<1>4. IsFiniteSet(Agents) /\ agent \in some /\ some \in SUBSET Agents
      /\ U \in (SUBSET Agents) \cap (SUBSET Agents) /\ \A a \in U : f[a] = g[a]
  BY <1>3, AgentsFinite
<1> HIDE DEF f, g, v, U
<1>5. Sums(f, Agents)[some] = f[agent] + Sums(f, Agents)[U]
  BY <1>3, <1>4, SumsAnyOrder, SMTT(30) DEF U
<1>6. Sums(g, Agents)[some] = g[agent] + Sums(g, Agents)[U]
  BY <1>3, <1>4, SumsAnyOrder, SMTT(30) DEF U
<1>7. Sums(f, Agents)[U] = Sums(g, Agents)[U]
  BY <1>3, <1>4, SumsAgree, SMTT(30)
<1>8. Sums(f, Agents)[U] \in Int /\ Sums(f, Agents)[some] \in Int
  <2>1. Sums(f, Agents) \in [SUBSET Agents -> Int]
    BY <1>3, <1>4, SumsRecursion
  <2> QED
    BY <1>4, <2>1
<1>9. Paid(v, some) = Sums(g, Agents)[some] /\ Paid(w, some) = Sums(f, Agents)[some]
  BY DEF Paid, f, g
<1>10. Paid(v, some) = Paid(w, some) + reply.cost /\ Paid(w, some) \in Int
  BY <1>1, <1>3, <1>5, <1>6, <1>7, <1>8, <1>9 DEF U
<1> QED
  BY <1>10 DEF v

\* The request goes the first route exactly if the budget has room for it there.
LEMMA FirstRoute ==
  ASSUME NEW x, x.spent + Held(x) \in Int, x.limit \in Int
  PROVE  FirstFitting(x) = 1 <=> x.spent + Held(x) + estimate[1] <= x.limit
<1> DEFINE fits == {r \in DOMAIN estimate : x.spent + Held(x) + estimate[r] <= x.limit}
<1>1. FirstFitting(x) = IF fits = {} THEN 0 ELSE Min(fits)
  BY DEF FirstFitting
<1>2. 1 \in fits <=> x.spent + Held(x) + estimate[1] <= x.limit
  BY Estimates
<1>3. fits \subseteq Nat /\ \A r \in fits : r >= 1
  BY Estimates
<1> HIDE DEF fits
<1>4. ASSUME fits # {} PROVE Min(fits) \in fits /\ \A r \in fits : Min(fits) <= r
  <2>1. \E r \in fits : \A s \in fits : r <= s
    BY <1>3, <1>4, SmallestMember
  <2> QED
    BY <2>1 DEF Min
<1>5. ASSUME 1 \in fits PROVE Min(fits) = 1
  <2> DEFINE m == Min(fits)
  <2>1. m \in fits /\ m <= 1
    BY <1>4, <1>5
  <2>2. m \in Nat /\ m >= 1
    BY <1>3, <2>1
  <2> HIDE DEF m
  <2>3. m = 1
    BY <2>1, <2>2
  <2> QED
    BY <2>3 DEF m
<1>6. ASSUME 1 \notin fits PROVE FirstFitting(x) # 1
  BY <1>1, <1>4, <1>6
<1> QED
  BY <1>1, <1>2, <1>5, <1>6

---------------------------------------------------------------------------
(* The fields of a campaign.                                                *)

LEMMA MadeFields ==
  ASSUME NEW c, NEW route, NEW said, NEW spent, NEW flaws,
         route = [a \in Agents |-> route[a]], said = [a \in Agents |-> said[a]]
  PROVE  LET x == Made(c, route, said, spent, flaws)
         IN  /\ Shaped(x) /\ Alike(x, c) /\ x.route = route /\ x.said = said
             /\ x.spent = spent /\ x.flaws = flaws
<1> DEFINE x == Made(c, route, said, spent, flaws)
<1>1. Alike(x, c) /\ x.route = route /\ x.said = said /\ x.spent = spent /\ x.flaws = flaws
  BY DEF Alike, Made
<1>2. HasFields(x)
  BY DEF HasFields, Made
<1> HIDE DEF x
<1> QED
  BY <1>1, <1>2 DEF Shaped, x

LEMMA SameCampaign ==
  ASSUME NEW x, NEW y, Shaped(x), Shaped(y), Alike(x, y), x.spent = y.spent, x.flaws = y.flaws,
         \A a \in Agents : x.route[a] = y.route[a] /\ x.said[a] = y.said[a]
  PROVE  x = y
<1>1. x.route = y.route /\ x.said = y.said
  BY DEF Shaped
<1>2. x = Made(x, x.route, x.said, x.spent, x.flaws) /\ y = Made(y, y.route, y.said, y.spent, y.flaws)
  BY DEF Shaped, HasFields, Made
<1>3. Made(x, x.route, x.said, x.spent, x.flaws) = Made(y, y.route, y.said, y.spent, y.flaws)
  BY <1>1 DEF Alike, Made
<1> QED
  BY <1>2, <1>3

LEMMA AskedFields ==
  ASSUME NEW c, Shaped(c), NEW agent \in Agents
  PROVE  LET x == Asked(c, agent)
             r == FirstFitting(c)
         IN  /\ Shaped(x) /\ Alike(x, c) /\ x.spent = c.spent
             /\ x.flaws = IF r = 1 THEN c.flaws ELSE c.flaws \cup {"tight"}
             /\ x.route = IF r = 0 THEN c.route ELSE [c.route EXCEPT ![agent] = r]
             /\ x.said = IF r = 0 THEN [c.said EXCEPT ![agent] = Is("refused")] ELSE c.said
<1> DEFINE r == FirstFitting(c)
           f == IF r = 1 THEN c.flaws ELSE c.flaws \cup {"tight"}
           route == IF r = 0 THEN c.route ELSE [c.route EXCEPT ![agent] = r]
           said == IF r = 0 THEN [c.said EXCEPT ![agent] = Is("refused")] ELSE c.said
<1>1. HasFields(c)
  BY DEF Shaped
<1>2. Asked(c, agent) = Made(c, route, said, c.spent, f)
  <2>1. CASE r = 0
    <3>1. PICK x : x = [c EXCEPT !.said[agent] = Is("refused"), !.flaws = f]
      OBVIOUS
    <3>2. Asked(c, agent) = x
      BY <2>1, <3>1 DEF Asked
    <3> HIDE DEF f, r
    <3>3. x = Made(c, c.route, [c.said EXCEPT ![agent] = Is("refused")], c.spent, f)
      BY <1>1, <3>1, Zenon DEF HasFields, Made
    <3> QED
      BY <2>1, <3>2, <3>3
  <2>2. CASE r # 0
    <3>1. PICK x : x = [c EXCEPT !.route[agent] = r, !.flaws = f]
      OBVIOUS
    <3>2. Asked(c, agent) = x
      BY <2>2, <3>1 DEF Asked
    <3> HIDE DEF f, r
    <3>3. x = Made(c, [c.route EXCEPT ![agent] = r], c.said, c.spent, f)
      BY <1>1, <3>1, Zenon DEF HasFields, Made
    <3> QED
      BY <2>2, <3>2, <3>3
  <2> QED
    BY <2>1, <2>2
<1>3. route = [a \in Agents |-> route[a]] /\ said = [a \in Agents |-> said[a]]
  <2> HIDE DEF r
  <2> QED
    BY DEF Shaped
<1> HIDE DEF f, r, route, said
<1>4. LET x == Asked(c, agent)
      IN  /\ Shaped(x) /\ Alike(x, c) /\ x.route = route /\ x.said = said
          /\ x.spent = c.spent /\ x.flaws = f
  BY <1>2, <1>3, MadeFields
<1> QED
  BY <1>4 DEF f, r, route, said

LEMMA TakenFields ==
  ASSUME NEW c, Shaped(c), NEW agent \in Agents, NEW reply
  PROVE  LET x == ReplyTaken(c, agent, reply)
         IN  /\ Shaped(x) /\ Alike(x, c) /\ x.flaws = c.flaws /\ x.route = c.route
             /\ x.spent = c.spent + reply.cost /\ x.said = [c.said EXCEPT ![agent] = reply]
<1> DEFINE said == [c.said EXCEPT ![agent] = reply]
           spent == c.spent + reply.cost
<1>1. PICK x : x = [c EXCEPT !.said[agent] = reply, !.spent = spent]
  OBVIOUS
<1>2. ReplyTaken(c, agent, reply) = x
  BY <1>1 DEF ReplyTaken
<1>3. HasFields(c)
  BY DEF Shaped
<1> HIDE DEF spent
<1>4. x = Made(c, c.route, said, spent, c.flaws)
  BY <1>1, <1>3, Zenon DEF HasFields, Made
<1>5. c.route = [a \in Agents |-> c.route[a]] /\ said = [a \in Agents |-> said[a]]
  BY DEF Shaped
<1> HIDE DEF said
<1>6. /\ Shaped(x) /\ Alike(x, c) /\ x.route = c.route /\ x.said = said
      /\ x.spent = spent /\ x.flaws = c.flaws
  BY <1>4, <1>5, MadeFields
<1> QED
  BY <1>2, <1>6 DEF said, spent

\* Asking keeps what a campaign is, and its flaws.
LEMMA AsksKeeps ==
  ASSUME NEW c, Shaped(c), NEW agent \in Agents
  PROVE  /\ Shaped(Asks(c, agent)) /\ Alike(Asks(c, agent), c)
         /\ Asks(c, agent).flaws = {} => c.flaws = {}
         /\ FirstFitting(c) = 1 => Asks(c, agent).flaws = c.flaws
         /\ c.mode # "CACHED" /\ Asks(c, agent).flaws = {} => FirstFitting(c) = 1
<1> DEFINE x == Asked(c, agent)
<1>1. /\ Shaped(x) /\ Alike(x, c) /\ (x.flaws = {} => c.flaws = {} /\ FirstFitting(c) = 1)
      /\ (FirstFitting(c) = 1 => x.flaws = c.flaws)
  BY AskedFields
<1> HIDE DEF x
<1>2. ASSUME NEW y, Shaped(y), Alike(y, x), y.flaws = x.flaws
      PROVE  /\ Shaped(y) /\ Alike(y, c) /\ (y.flaws = {} => c.flaws = {})
             /\ (FirstFitting(c) = 1 => y.flaws = c.flaws)
  BY <1>1, <1>2 DEF Alike
<1>3. Alike(x, x)
  BY DEF Alike
<1>4. CASE c.mode = "CACHED"
  <2>1. \E reply : Asks(c, agent) \in {x, ReplyTaken(x, agent, reply)}
    BY <1>4, Zenon DEF Asks, LookedUp, x
  <2>2. PICK reply : Asks(c, agent) \in {x, ReplyTaken(x, agent, reply)}
    BY <2>1
  <2>3. /\ Shaped(ReplyTaken(x, agent, reply)) /\ Alike(ReplyTaken(x, agent, reply), x)
        /\ ReplyTaken(x, agent, reply).flaws = x.flaws
    <3>1. Shaped(x)
      BY <1>1
    <3> QED
      BY <3>1, TakenFields
  <2>4. CASE Asks(c, agent) = x
    BY <1>1, <1>3, <1>4, <2>4
  <2>5. CASE Asks(c, agent) = ReplyTaken(x, agent, reply)
    BY <1>2, <1>4, <2>3, <2>5
  <2> QED
    BY <2>2, <2>4, <2>5
<1>5. CASE c.mode # "CACHED"
  <2>1. Asks(c, agent) = x
    BY <1>5 DEF Asks, x
  <2> QED
    BY <1>1, <2>1
<1> QED
  BY <1>4, <1>5

\* So does asking the agents of a stage.
LEMMA StageKeeps ==
  ASSUME NEW c, Shaped(c), NEW stage \in AskingStages
  PROVE  \A k \in 0 .. Len(Of(stage)) :
           LET x == AfterAsking(c, Of(stage), k)
           IN  Shaped(x) /\ Alike(x, c) /\ (x.flaws = {} => c.flaws = {})
<1> DEFINE n == Len(Of(stage))
           s == Of(stage)
           at(k) == AfterAsking(c, s, k)
           good(x) == Shaped(x) /\ Alike(x, c) /\ (x.flaws = {} => c.flaws = {})
           odd == {k \in Nat : k <= n /\ ~good(at(k))}
<1>1. n \in Nat /\ DOMAIN s = 1 .. n /\ \A k \in 1 .. n : s[k] \in Agents
  BY AgentsOfStages
<1>2. at(0) = c /\ \A k \in 1 .. n : at(k) = Asks(at(k - 1), s[k])
  <2>1. stage \in AskingStages
    BY <1>1
  <2> QED
    BY <2>1, AskedInOrder, Zenon
<1>3. good(c)
  BY DEF Alike
<1>4. ASSUME NEW x, good(x), NEW agent \in Agents PROVE good(Asks(x, agent))
  <2> DEFINE y == Asks(x, agent)
  <2>1. Shaped(y) /\ Alike(y, x) /\ (y.flaws = {} => x.flaws = {})
    BY <1>4, AsksKeeps
  <2> HIDE DEF y
  <2>2. Alike(y, c)
    BY <1>4, <2>1 DEF Alike
  <2> QED
    BY <1>4, <2>1, <2>2 DEF y
<1> HIDE DEF at, n, s, good
<1>5. odd = {}
  <2>1. SUFFICES ASSUME odd # {} PROVE FALSE
    OBVIOUS
  <2>2. PICK k \in odd : \A m \in odd : k <= m
    BY <2>1, SmallestMember
  <2>3. k # 0
    BY <1>2, <1>3, <2>2
  <2>4. k \in 1 .. n /\ k - 1 \in Nat /\ k - 1 <= n /\ ~(k <= k - 1)
    BY <1>1, <2>2, <2>3
  <2>5. good(at(k - 1))
    BY <2>2, <2>4
  <2>6. good(at(k))
    BY <1>1, <1>2, <1>4, <2>4, <2>5
  <2> QED
    BY <2>2, <2>6
<1> QED
  <2>1. \A k \in 0 .. n : k \in Nat /\ k <= n
    BY <1>1
  <2>2. \A k \in 0 .. n : good(at(k))
    BY <1>5, <2>1
  <2> QED
    BY <2>2 DEF good, at, n, s

---------------------------------------------------------------------------
(* A stage asked, without a flaw.                                           *)

Silence == [a \in Agents |-> Nothing]

LEMMA AnswersFields ==
  ASSUME NEW c, Shaped(c), NEW w, NEW some \in SUBSET Agents
  PROVE  LET x == Answers(c, w, some)
         IN  /\ Shaped(x) /\ Alike(x, c) /\ x.flaws = c.flaws /\ x.spent = c.spent + Paid(w, some)
             /\ \A a \in Agents : x.route[a] = IF a \in some THEN 1 ELSE c.route[a]
             /\ \A a \in Agents : x.said[a] = IF a \in some /\ w[a] # Nothing THEN w[a] ELSE c.said[a]
<1> DEFINE route == [a \in Agents |-> IF a \in some THEN 1 ELSE c.route[a]]
           said == [a \in Agents |-> IF a \in some /\ w[a] # Nothing THEN w[a] ELSE c.said[a]]
           spent == c.spent + Paid(w, some)
<1>1. PICK x : x = [c EXCEPT !.route = route, !.said = said, !.spent = spent]
  OBVIOUS
<1>2. Answers(c, w, some) = x
  BY <1>1 DEF Answers
<1>3. HasFields(c)
  BY DEF Shaped
<1>4. route = [a \in Agents |-> route[a]] /\ said = [a \in Agents |-> said[a]]
  OBVIOUS
<1>5. /\ \A a \in Agents : route[a] = IF a \in some THEN 1 ELSE c.route[a]
      /\ \A a \in Agents : said[a] = IF a \in some /\ w[a] # Nothing THEN w[a] ELSE c.said[a]
  OBVIOUS
<1> HIDE DEF route, said, spent
<1>6. x = Made(c, route, said, spent, c.flaws)
  BY <1>1, <1>3, Zenon DEF HasFields, Made
<1>7. /\ Shaped(x) /\ Alike(x, c) /\ x.route = route /\ x.said = said
      /\ x.spent = spent /\ x.flaws = c.flaws
  BY <1>4, <1>6, MadeFields
<1> QED
  BY <1>2, <1>5, <1>7 DEF spent

\* A campaign about to ask a stage: no one waits, and the amounts are numbers.
Ready(c, stage) ==
  /\ Shaped(c) /\ stage \in AskingStages /\ c.stage = stage
  /\ c.spent \in Int /\ c.limit \in Int
  /\ \A a \in Range(Of(stage)) : c.route[a] = 0 /\ c.said[a] = Nothing
  /\ \A a \in Agents \ Range(Of(stage)) : c.route[a] = 0 \/ c.said[a] # Nothing

\* The next one asks after the first k - 1, live or from the cache.
LEMMA AskLiveStep ==
  ASSUME NEW c, NEW stage, Ready(c, stage), c.mode # "CACHED", NEW k \in 1 .. Len(Of(stage)),
         NEW x, x = Answers(c, Silence, First(stage, k - 1)), Asks(x, Of(stage)[k]).flaws = {}
  PROVE  /\ Asks(x, Of(stage)[k]) = Answers(c, Silence, First(stage, k))
         /\ c.spent + k * estimate[1] <= c.limit
<1> DEFINE u == Of(stage)[k]
           V == First(stage, k - 1)
           U == First(stage, k)
           n == Len(Of(stage))
           S == Range(Of(stage))
<1>1. stage \in AskingStages /\ Shaped(c) /\ c.spent \in Int /\ c.limit \in Int
  BY DEF Ready
<1>2. n \in Nat /\ k \in 1 .. n /\ k \in Nat \ {0} /\ k - 1 \in 0 .. n /\ k \in 0 .. n
  BY <1>1, AgentsOfStages
<1>3. u \in S /\ u \notin V /\ U = V \cup {u} /\ U \subseteq S /\ S \subseteq Agents
  BY <1>1, <1>2, FirstOfStage
<1>4. /\ \A a \in S : c.route[a] = 0 /\ c.said[a] = Nothing
      /\ \A a \in Agents \ S : c.route[a] = 0 \/ c.said[a] # Nothing
  BY DEF Ready
<1>5. /\ Paid(Silence, V) = 0 /\ Paid(Silence, U) = 0
  <2>1. /\ Silence \in [Agents -> Replies \cup {Nothing}] /\ \A a \in Agents : Silence[a] = Nothing
    BY DEF Silence
  <2> QED
    BY <1>1, <1>2, <2>1, PaidSoFar
<1> HIDE DEF u, V, U, S
<1>6. /\ Shaped(x) /\ Alike(x, c) /\ x.spent = c.spent /\ x.flaws = c.flaws
      /\ \A a \in Agents : x.route[a] = (IF a \in V THEN 1 ELSE c.route[a]) /\ x.said[a] = c.said[a]
  <2>1. V \in SUBSET Agents
    BY <1>3
  <2>2. \A a \in Agents : Silence[a] = Nothing
    BY DEF Silence
  <2> QED
    BY <1>1, <1>5, <2>1, <2>2, AnswersFields DEF V
<1>7. Waiting(x) = V /\ \A a \in Waiting(x) : x.route[a] = 1
  <2>1. \A a \in V : a \in Agents /\ x.route[a] = 1 /\ x.said[a] = Nothing
    BY <1>3, <1>4, <1>6
  <2>2. \A a \in Agents \ V : x.route[a] = 0 \/ x.said[a] # Nothing
    BY <1>4, <1>6
  <2> QED
    BY <2>1, <2>2 DEF Waiting
<1>8. Held(x) = (k - 1) * estimate[1]
  BY <1>1, <1>2, <1>7, HeldOfFirst DEF V
<1>9. FirstFitting(x) = 1
  BY <1>3, <1>6, AsksKeeps DEF Alike, u
<1>10. c.spent + k * estimate[1] <= c.limit
  <2> DEFINE e == estimate[1]
  <2>1. e \in Nat /\ (k - 1) * e \in Nat /\ (k - 1) * e + e = k * e
    BY <1>2, Estimates, Times
  <2>2. x.spent + Held(x) \in Int /\ x.limit = c.limit
    BY <1>1, <1>6, <1>8, <2>1 DEF Alike
  <2>3. x.spent + Held(x) + e <= x.limit
    BY <1>1, <1>9, <2>2, FirstRoute
  <2> HIDE DEF e
  <2>4. c.spent + k * e <= c.limit
    BY <1>1, <1>6, <1>8, <2>1, <2>2, <2>3 DEF e
  <2> QED
    BY <2>4 DEF e
<1>11. Asks(x, u) = Answers(c, Silence, U)
  <2> DEFINE y == Asks(x, u)
             z == Answers(c, Silence, U)
  <2>1. y = Asked(x, u)
    BY <1>6 DEF Asks, Alike
  <2>2. /\ Shaped(y) /\ Alike(y, x) /\ y.spent = x.spent /\ y.flaws = x.flaws
        /\ y.route = [x.route EXCEPT ![u] = 1] /\ y.said = x.said
    <3>1. u \in Agents
      BY <1>3
    <3>2. PICK q : q = Asked(x, u)
      OBVIOUS
    <3>3. /\ Shaped(q) /\ Alike(q, x) /\ q.spent = x.spent
          /\ q.flaws = IF FirstFitting(x) = 1 THEN x.flaws ELSE x.flaws \cup {"tight"}
          /\ q.route = IF FirstFitting(x) = 0 THEN x.route ELSE [x.route EXCEPT ![u] = FirstFitting(x)]
          /\ q.said = IF FirstFitting(x) = 0 THEN [x.said EXCEPT ![u] = Is("refused")] ELSE x.said
      BY <1>6, <3>1, <3>2, AskedFields
    <3> HIDE DEF y
    <3> QED
      BY <1>9, <2>1, <3>2, <3>3
  <2>3. /\ Shaped(z) /\ Alike(z, c) /\ z.spent = c.spent /\ z.flaws = c.flaws
        /\ \A a \in Agents : z.route[a] = (IF a \in U THEN 1 ELSE c.route[a]) /\ z.said[a] = c.said[a]
    <3>1. U \in SUBSET Agents
      BY <1>3
    <3>2. \A a \in Agents : Silence[a] = Nothing
      BY DEF Silence
    <3> QED
      BY <1>1, <1>5, <3>1, <3>2, AnswersFields
  <2>4. \A a \in Agents : y.route[a] = IF a = u THEN 1 ELSE x.route[a]
    BY <1>3, <1>6, <2>2 DEF Shaped
  <2> HIDE DEF y, z
  <2>5. \A a \in Agents : y.route[a] = z.route[a] /\ y.said[a] = z.said[a]
    BY <1>3, <1>6, <2>2, <2>3, <2>4
  <2>6. Alike(y, z) /\ y.spent = z.spent /\ y.flaws = z.flaws
    BY <1>6, <2>2, <2>3 DEF Alike
  <2>7. y = z
    BY <2>2, <2>3, <2>5, <2>6, SameCampaign
  <2> QED
    BY <2>7 DEF y, z
<1> QED
  BY <1>10, <1>11 DEF u, U

LEMMA AnswersNone ==
  ASSUME NEW c, NEW stage, Ready(c, stage), NEW w \in [Agents -> Replies \cup {Nothing}],
         \A a \in Agents : w[a] # Nothing => w[a] \in replies[a]
  PROVE  Answers(c, w, First(stage, 0)) = c
<1> DEFINE x == Answers(c, w, {})
<1>1. First(stage, 0) = {} /\ Paid(w, {}) = 0 /\ Shaped(c) /\ c.spent \in Int
  <2>1. stage \in AskingStages /\ Shaped(c) /\ c.spent \in Int
    BY DEF Ready
  <2>2. First(stage, 0) = {}
    BY <2>1, FirstOfStage
  <2>3. Paid(w, First(stage, 0)) = 0
    BY <2>1, PaidSoFar
  <2> QED
    BY <2>1, <2>2, <2>3
<1>2. /\ Shaped(x) /\ Alike(x, c) /\ x.flaws = c.flaws /\ x.spent = c.spent
      /\ \A a \in Agents : x.route[a] = c.route[a] /\ x.said[a] = c.said[a]
  BY <1>1, AnswersFields
<1> HIDE DEF x
<1>3. x = c
  BY <1>1, <1>2, SameCampaign
<1> QED
  BY <1>1, <1>3 DEF x

\* Live, what is asked without a flaw is asked on its first route, and the budget
\* holds the whole stage at once.
LEMMA AskedLive ==
  ASSUME NEW c, NEW stage, Ready(c, stage), c.mode # "CACHED", AllAsk(c, Of(stage)).flaws = {}
  PROVE  AllAsk(c, Of(stage)) = Filled(c, Silence) /\ HasRoom(c)
<1> DEFINE n == Len(Of(stage))
           s == Of(stage)
           at(k) == AfterAsking(c, s, k)
           good(k) == at(k).flaws = {} => /\ at(k) = Answers(c, Silence, First(stage, k))
                                          /\ k > 0 => c.spent + k * estimate[1] <= c.limit
           odd == {k \in Nat : k <= n /\ ~good(k)}
<1>1. /\ n \in Nat \ {0} /\ DOMAIN s = 1 .. n /\ (\A k \in 1 .. n : s[k] \in Agents)
      /\ stage \in AskingStages /\ Shaped(c) /\ c.stage = stage
  BY AgentsOfStages DEF Ready
<1>2. at(0) = c /\ (\A k \in 1 .. n : at(k) = Asks(at(k - 1), s[k])) /\ AllAsk(c, s) = at(n)
  <2>1. stage \in AskingStages
    BY <1>1
  <2> QED
    BY <2>1, AskedInOrder, ZenonT(40)
<1>3. good(0)
  <2>1. Silence \in [Agents -> Replies \cup {Nothing}] /\ \A a \in Agents : Silence[a] = Nothing
    BY DEF Silence
  <2>2. Answers(c, Silence, First(stage, 0)) = c
    BY <2>1, AnswersNone
  <2> QED
    BY <1>2, <2>2
<1>4. ASSUME NEW k \in 1 .. n, good(k - 1) PROVE good(k)
  <2> DEFINE x == at(k - 1)
  <2>1. at(k) = Asks(x, s[k]) /\ s[k] \in Agents
    BY <1>1, <1>2
  <2>2. Shaped(x)
    <3>1. k - 1 \in 0 .. n
      BY <1>1
    <3> QED
      BY <1>1, <3>1, StageKeeps
  <2> HIDE DEF x
  <2>3. SUFFICES ASSUME Asks(x, s[k]).flaws = {}
                 PROVE  /\ Asks(x, s[k]) = Answers(c, Silence, First(stage, k))
                        /\ c.spent + k * estimate[1] <= c.limit
    BY <2>1
  <2>4. x.flaws = {}
    BY <2>1, <2>2, <2>3, AsksKeeps
  <2>5. x = Answers(c, Silence, First(stage, k - 1))
    BY <1>4, <2>4 DEF x
  <2> QED
    BY <2>3, <2>5, AskLiveStep
<1> HIDE DEF at, n, s
<1>5. odd = {}
  <2> HIDE DEF good
  <2>1. SUFFICES ASSUME odd # {} PROVE FALSE
    OBVIOUS
  <2>2. PICK k \in odd : \A m \in odd : k <= m
    BY <2>1, SmallestMember
  <2>3. k # 0
    BY <1>3, <2>2
  <2>4. k \in 1 .. n /\ k - 1 \in Nat /\ k - 1 <= n /\ ~(k <= k - 1)
    BY <1>1, <2>2, <2>3
  <2>5. good(k - 1)
    BY <2>2, <2>4
  <2> QED
    BY <1>4, <2>2, <2>4, <2>5
<1>6. good(n)
  <2> HIDE DEF good
  <2> QED
    BY <1>1, <1>5
<1>7. First(stage, n) = Range(Of(stage))
  BY <1>1, FirstOfStage DEF n
<1> QED
  BY <1>1, <1>2, <1>6, <1>7 DEF Filled, Members, HasRoom, s, n

\* What a request says depends on what the stage starts from.
LEMMA KeyStays ==
  ASSUME NEW c, NEW x, NEW stage \in AskingStages, NEW agent \in Range(Of(stage)), NEW route,
         x.limit = c.limit, x.agenda = c.agenda, x.period = c.period, x.opportunity = c.opportunity,
         x.trades = c.trades, \A a \in Settled(stage) : x.said[a] = c.said[a],
         stage = "plan" => x.spent = c.spent
  PROVE  Key(x, agent, route) = Key(c, agent, route)
<1>1. Heard(x, agent) = Heard(c, agent)
  <2>1. CASE stage = "plan"
    BY <2>1 DEF Heard, Of, Range
  <2>2. CASE stage = "round"
    <3>1. agent \in Range(Crew)
      BY <2>2 DEF Of
    <3>2. agent \notin Core
      BY <3>1, ReplayCacheAssumption
    <3> QED
      BY <3>2 DEF Heard, Core
  <2>3. ASSUME NEW agents \in Seq(Settled(stage)) PROVE Words(x, agents) = Words(c, agents)
    <3>1. \A i \in DOMAIN agents : agents[i] \in Settled(stage)
      OBVIOUS
    <3>2. \A i \in DOMAIN agents : x.said[agents[i]].says = c.said[agents[i]].says
      BY <3>1
    <3> QED
      BY <3>2 DEF Words
  <2>4. Crew \in Seq(Range(Crew))
    BY ReplayCacheAssumption
  <2>5. CASE stage = "palermo"
    <3>1. agent = "palermo"
      BY <2>5 DEF Of, Range
    <3>2. <<"plan">> \o Crew \in Seq({"plan"} \cup Range(Crew))
      BY <2>4
    <3>3. Words(x, <<"plan">> \o Crew) = Words(c, <<"plan">> \o Crew)
      BY <2>3, <2>5, <3>2 DEF Settled
    <3> QED
      BY <3>1, <3>3 DEF Heard
  <2>6. CASE stage = "final"
    <3>1. agent = "final"
      BY <2>6 DEF Of, Range
    <3>2. Crew \o <<"palermo">> \in Seq({"plan", "palermo"} \cup Range(Crew))
      BY <2>4
    <3>3. Words(x, Crew \o <<"palermo">>) = Words(c, Crew \o <<"palermo">>)
      BY <2>3, <2>6, <3>2 DEF Settled
    <3> QED
      BY <3>1, <3>3 DEF Heard
  <2> QED
    BY <2>1, <2>2, <2>5, <2>6 DEF AskingStages
<1> QED
  BY <1>1 DEF Key

\* From the cache, an answer to each of the stage.
Told(c, stage, w) ==
  /\ Ready(c, stage) /\ c.mode = "CACHED"
  /\ w \in [Agents -> Replies \cup {Nothing}] /\ \A a \in Agents : w[a] # Nothing => w[a] \in replies[a]
  /\ \A a \in Range(Of(stage)) : w[a] # Nothing
  /\ HasRoom(c) /\ AreKept(c, w, cache)

LEMMA AskCachedStep ==
  ASSUME NEW c, NEW stage, NEW w, Told(c, stage, w), NEW k \in 1 .. Len(Of(stage)),
         NEW x, x = Answers(c, w, First(stage, k - 1))
  PROVE  Asks(x, Of(stage)[k]) = Answers(c, w, First(stage, k))
<1> DEFINE u == Of(stage)[k]
           V == First(stage, k - 1)
           U == First(stage, k)
           n == Len(Of(stage))
           S == Range(Of(stage))
<1>1. stage \in AskingStages /\ Shaped(c) /\ c.stage = stage /\ c.spent \in Int /\ c.limit \in Int
  BY DEF Told, Ready
<1>2. n \in Nat /\ k \in 1 .. n /\ k \in Nat \ {0} /\ k - 1 \in 0 .. n /\ k \in 0 .. n /\ k - 1 \in Nat /\ k <= n
  BY <1>1, AgentsOfStages
<1>3. /\ u \in S /\ u \notin V /\ U = V \cup {u} /\ U \subseteq S /\ S \subseteq Agents
      /\ S \cap Settled(stage) = {}
  BY <1>1, <1>2, FirstOfStage
<1>4. /\ \A a \in S : c.route[a] = 0 /\ c.said[a] = Nothing
      /\ \A a \in Agents \ S : c.route[a] = 0 \/ c.said[a] # Nothing
  BY DEF Told, Ready
<1>5. /\ \A a \in S : w[a] # Nothing /\ w[a] \in replies[a] /\ Key(c, a, 1) \in DOMAIN cache /\ cache[Key(c, a, 1)] = w[a]
      /\ c.spent + n * estimate[1] <= c.limit
  BY <1>1, <1>3 DEF Told, HasRoom, AreKept, Members
<1>6. /\ Paid(w, First(stage, 0)) = 0
      /\ Paid(w, V) \in Nat /\ Paid(w, V) <= (k - 1) * estimate[1] /\ Paid(w, U) = Paid(w, V) + Price(w[u])
  BY <1>1, <1>2, PaidSoFar DEF Told
<1>7. stage = "plan" => Paid(w, V) = 0
  <2>1. ASSUME stage = "plan" PROVE k - 1 = 0
    BY <1>2, <2>1 DEF Of
  <2> QED
    BY <1>6, <2>1
<1> HIDE DEF u, V, U, S, n
<1>8. /\ Shaped(x) /\ Alike(x, c) /\ x.spent = c.spent + Paid(w, V) /\ x.flaws = c.flaws
      /\ \A a \in Agents : /\ x.route[a] = (IF a \in V THEN 1 ELSE c.route[a])
                           /\ x.said[a] = (IF a \in V /\ w[a] # Nothing THEN w[a] ELSE c.said[a])
  <2>1. V \in SUBSET Agents
    BY <1>3
  <2> QED
    BY <1>1, <2>1, AnswersFields DEF V
<1>9. Held(x) = 0
  <2>1. \A a \in Agents : x.route[a] = 0 \/ x.said[a] # Nothing
    BY <1>3, <1>4, <1>5, <1>8
  <2>2. Waiting(x) = {} /\ First(stage, 0) = {}
    BY <1>1, <2>1, FirstOfStage DEF Waiting
  <2>3. 0 \in 0 .. Len(Of(stage))
    BY <1>2 DEF n
  <2>4. Held(x) = 0 * estimate[1]
    BY <1>1, <2>2, <2>3, HeldOfFirst
  <2> QED
    BY <2>4, Estimates, Times
<1>10. FirstFitting(x) = 1
  <2> DEFINE e == estimate[1]
             lo == (k - 1) * e
             mid == k * e
             hi == n * e
             p == Paid(w, V)
  <2>1. e \in Nat /\ lo \in Nat /\ lo + e = mid /\ mid \in Nat /\ mid <= hi
    BY <1>2, Estimates, Times
  <2>2. hi \in Nat
    BY <1>2, <2>1
  <2>3. p \in Nat /\ p <= lo /\ c.spent + hi <= c.limit
    BY <1>5, <1>6
  <2>4. x.spent + Held(x) \in Int /\ x.limit = c.limit /\ x.limit \in Int
    BY <1>1, <1>6, <1>8, <1>9 DEF Alike
  <2>5. x.spent + Held(x) = c.spent + p
    BY <1>1, <1>8, <1>9, <2>3
  <2> HIDE DEF e, lo, mid, hi, p
  <2>6. x.spent + Held(x) + e <= x.limit
    BY <1>1, <2>1, <2>2, <2>3, <2>4, <2>5
  <2> QED
    BY <2>4, <2>6, FirstRoute DEF e
<1>11. PICK q : q = Asked(x, u)
  OBVIOUS
<1>12. /\ Shaped(q) /\ Alike(q, x) /\ q.spent = x.spent /\ q.flaws = x.flaws
       /\ q.route = [x.route EXCEPT ![u] = 1] /\ q.said = x.said
  <2>1. u \in Agents
    BY <1>3
  <2>2. /\ Shaped(q) /\ Alike(q, x) /\ q.spent = x.spent
        /\ q.flaws = IF FirstFitting(x) = 1 THEN x.flaws ELSE x.flaws \cup {"tight"}
        /\ q.route = IF FirstFitting(x) = 0 THEN x.route ELSE [x.route EXCEPT ![u] = FirstFitting(x)]
        /\ q.said = IF FirstFitting(x) = 0 THEN [x.said EXCEPT ![u] = Is("refused")] ELSE x.said
    BY <1>8, <1>11, <2>1, AskedFields
  <2> QED
    BY <1>10, <2>2
<1>13. q.route[u] = 1 /\ \A a \in Agents : q.route[a] = IF a = u THEN 1 ELSE x.route[a]
  BY <1>3, <1>8, <1>12 DEF Shaped
<1>14. Key(q, u, q.route[u]) = Key(c, u, 1)
  <2>1. /\ q.limit = c.limit /\ q.agenda = c.agenda /\ q.period = c.period
        /\ q.opportunity = c.opportunity /\ q.trades = c.trades
    BY <1>8, <1>12 DEF Alike
  <2>2. Settled(stage) \subseteq Agents
    BY <1>1 DEF Settled, Agents, Core, AskingStages
  <2>3. \A a \in Settled(stage) : q.said[a] = c.said[a]
    BY <1>3, <1>8, <1>12, <2>2
  <2>4. stage = "plan" => q.spent = c.spent
    BY <1>1, <1>7, <1>8, <1>12
  <2>5. Key(q, u, 1) = Key(c, u, 1)
    BY <1>1, <1>3, <2>1, <2>3, <2>4, KeyStays DEF S
  <2> QED
    BY <1>13, <2>5
<1>15. Asks(x, u) = ReplyTaken(q, u, w[u])
  <2>1. x.mode = "CACHED"
    BY <1>8 DEF Alike, Told
  <2>2. Key(c, u, 1) \in DOMAIN cache /\ cache[Key(c, u, 1)] = w[u]
    BY <1>3, <1>5
  <2>3. Asks(x, u) = LookedUp(x, u)
    BY <2>1 DEF Asks
  <2> QED
    BY <1>11, <1>13, <1>14, <2>2, <2>3 DEF LookedUp
<1>16. PICK y : y = ReplyTaken(q, u, w[u])
  OBVIOUS
<1>17. /\ Shaped(y) /\ Alike(y, q) /\ y.flaws = q.flaws /\ y.route = q.route
       /\ y.spent = q.spent + w[u].cost /\ y.said = [q.said EXCEPT ![u] = w[u]]
  <2>1. u \in Agents
    BY <1>3
  <2> QED
    BY <1>12, <1>16, <2>1, TakenFields
<1>18. \A a \in Agents : y.said[a] = IF a = u THEN w[u] ELSE x.said[a]
  BY <1>3, <1>12, <1>17 DEF Shaped
<1>19. PICK z : z = Answers(c, w, U)
  OBVIOUS
<1>20. /\ Shaped(z) /\ Alike(z, c) /\ z.spent = c.spent + Paid(w, U) /\ z.flaws = c.flaws
       /\ \A a \in Agents : /\ z.route[a] = (IF a \in U THEN 1 ELSE c.route[a])
                            /\ z.said[a] = (IF a \in U /\ w[a] # Nothing THEN w[a] ELSE c.said[a])
  <2>1. U \in SUBSET Agents
    BY <1>3
  <2> QED
    BY <1>1, <1>19, <2>1, AnswersFields
<1>21. \A a \in Agents : y.route[a] = z.route[a] /\ y.said[a] = z.said[a]
  BY <1>3, <1>5, <1>8, <1>13, <1>17, <1>18, <1>20
<1>22. y.spent = z.spent
  <2>1. Price(w[u]) = w[u].cost /\ w[u].cost \in Nat
    BY <1>3, <1>5, Estimates DEF Price
  <2> QED
    BY <1>1, <1>6, <1>8, <1>12, <1>17, <1>20, <2>1
<1>23. Alike(y, z) /\ y.flaws = z.flaws
  BY <1>8, <1>12, <1>17, <1>20 DEF Alike
<1>24. y = z
  BY <1>17, <1>20, <1>21, <1>22, <1>23, SameCampaign
<1> QED
  BY <1>15, <1>16, <1>19, <1>24 DEF u, U

LEMMA AskedCached ==
  ASSUME NEW c, NEW stage, NEW w, Told(c, stage, w)
  PROVE  AllAsk(c, Of(stage)) = Filled(c, w)
<1> DEFINE n == Len(Of(stage))
           s == Of(stage)
           at(k) == AfterAsking(c, s, k)
           good(k) == at(k) = Answers(c, w, First(stage, k))
           odd == {k \in Nat : k <= n /\ ~good(k)}
<1>1. /\ n \in Nat \ {0} /\ DOMAIN s = 1 .. n /\ stage \in AskingStages /\ c.stage = stage
  BY AgentsOfStages DEF Told, Ready
<1>2. at(0) = c /\ (\A k \in 1 .. n : at(k) = Asks(at(k - 1), s[k])) /\ AllAsk(c, s) = at(n)
  <2>1. stage \in AskingStages
    BY <1>1
  <2> QED
    BY <2>1, AskedInOrder, Zenon
<1>3. good(0)
  <2>1. Answers(c, w, First(stage, 0)) = c
    BY AnswersNone DEF Told
  <2> QED
    BY <1>2, <2>1
<1>4. ASSUME NEW k \in 1 .. n, good(k - 1) PROVE good(k)
  <2> DEFINE x == at(k - 1)
  <2>1. at(k) = Asks(x, s[k])
    BY <1>1, <1>2
  <2>2. x = Answers(c, w, First(stage, k - 1))
    BY <1>4
  <2> HIDE DEF x
  <2> QED
    BY <2>1, <2>2, AskCachedStep
<1> HIDE DEF at, n, s
<1>5. odd = {}
  <2> HIDE DEF good
  <2>1. SUFFICES ASSUME odd # {} PROVE FALSE
    OBVIOUS
  <2>2. PICK k \in odd : \A m \in odd : k <= m
    BY <2>1, SmallestMember
  <2>3. k # 0
    BY <1>3, <2>2
  <2>4. k \in 1 .. n /\ k - 1 \in Nat /\ k - 1 <= n /\ ~(k <= k - 1)
    BY <1>1, <2>2, <2>3
  <2>5. good(k - 1)
    BY <2>2, <2>4
  <2> QED
    BY <1>4, <2>2, <2>4, <2>5
<1>6. good(n)
  <2> HIDE DEF good
  <2> QED
    BY <1>1, <1>5
<1>7. First(stage, n) = Range(Of(stage))
  BY <1>1, FirstOfStage DEF n
<1> QED
  BY <1>1, <1>2, <1>6, <1>7 DEF Filled, Members, s

---------------------------------------------------------------------------
(* What becomes of an opportunity, in a campaign and in the one it repeats.  *)

LEMMA SameFields ==
  ASSUME NEW x, NEW y, HasFields(x), HasFields(y), Alike(x, y), x.route = y.route, x.said = y.said,
         x.spent = y.spent, x.flaws = y.flaws
  PROVE  x = y
<1>1. x = Made(x, x.route, x.said, x.spent, x.flaws) /\ y = Made(y, y.route, y.said, y.spent, y.flaws)
  BY DEF HasFields, Made
<1>2. Made(x, x.route, x.said, x.spent, x.flaws) = Made(y, y.route, y.said, y.spent, y.flaws)
  BY DEF Alike, Made
<1> QED
  BY <1>1, <1>2

LEMMA PlainFields ==
  ASSUME NEW c, HasFields(c)
  PROVE  LET x == Plain(c)
         IN  /\ HasFields(x) /\ (Shaped(c) => Shaped(x))
             /\ x.mode = "LIVE_EVAL" /\ x.put = {} /\ x.flaws = {}
             /\ x.agenda = c.agenda /\ x.limit = c.limit /\ x.status = c.status /\ x.period = c.period
             /\ x.opportunity = c.opportunity /\ x.trades = c.trades /\ x.stage = c.stage
             /\ x.route = c.route /\ x.said = c.said /\ x.spent = c.spent /\ x.results = c.results
<1>1. PICK x : x = [c EXCEPT !.mode = "LIVE_EVAL", !.put = {}, !.flaws = {}]
  OBVIOUS
<1>2. x = [mode |-> "LIVE_EVAL", agenda |-> c.agenda, limit |-> c.limit, status |-> c.status,
           period |-> c.period, opportunity |-> c.opportunity, trades |-> c.trades, stage |-> c.stage,
           route |-> c.route, said |-> c.said, spent |-> c.spent, results |-> c.results,
           put |-> {}, flaws |-> {}]
  BY <1>1, Zenon DEF HasFields
<1>3. /\ x.mode = "LIVE_EVAL" /\ x.put = {} /\ x.flaws = {}
      /\ x.agenda = c.agenda /\ x.limit = c.limit /\ x.status = c.status /\ x.period = c.period
      /\ x.opportunity = c.opportunity /\ x.trades = c.trades /\ x.stage = c.stage
      /\ x.route = c.route /\ x.said = c.said /\ x.spent = c.spent /\ x.results = c.results
  BY <1>2
<1>4. HasFields(x)
  BY <1>2 DEF HasFields
<1>5. Shaped(c) => Shaped(x)
  BY <1>3, <1>4 DEF Shaped
<1>6. x = Plain(c)
  BY <1>1 DEF Plain
<1> QED
  BY <1>3, <1>4, <1>5, <1>6

Untold == [a \in Agents |-> 0]

LEMMA ConcludedFields ==
  ASSUME NEW c, HasFields(c), NEW result
  PROVE  LET x == Concluded(c, result)
             last == LastOfPeriod(c)
         IN  /\ Shaped(x) /\ x.mode = c.mode /\ x.agenda = c.agenda /\ x.limit = c.limit
             /\ x.spent = c.spent /\ x.put = c.put /\ x.flaws = c.flaws
             /\ x.results = Append(c.results, result) /\ x.stage = "gate"
             /\ x.route = Untold /\ x.said = Silence
             /\ x.opportunity = (IF last THEN 1 ELSE c.opportunity + 1)
             /\ x.trades = (IF last THEN 0 ELSE IF result = "TRADE" THEN c.trades + 1 ELSE c.trades)
             /\ x.period = (IF last THEN c.period + 1 ELSE c.period)
             /\ x.status = (IF RaisesMiss(c, Append(c.results, result)) THEN "FAILED"
                            ELSE IF last /\ c.period = Len(c.agenda) THEN "COMPLETED" ELSE c.status)
<1> DEFINE last == LastOfPeriod(c)
           results == Append(c.results, result)
           opportunity == IF last THEN 1 ELSE c.opportunity + 1
           trades == IF last THEN 0 ELSE IF result = "TRADE" THEN c.trades + 1 ELSE c.trades
           period == IF last THEN c.period + 1 ELSE c.period
           status == IF RaisesMiss(c, results) THEN "FAILED"
                     ELSE IF last /\ c.period = Len(c.agenda) THEN "COMPLETED" ELSE c.status
<1>1. PICK x : x = [c EXCEPT !.results = results, !.stage = "gate", !.route = NoCampaign.route,
                             !.said = NoCampaign.said, !.opportunity = opportunity, !.trades = trades,
                             !.period = period, !.status = status]
  OBVIOUS
<1>2. x = Concluded(c, result)
  BY <1>1 DEF Concluded
<1>3. NoCampaign.route = Untold /\ NoCampaign.said = Silence
  BY DEF NoCampaign, Untold, Silence
<1> HIDE DEF results, opportunity, trades, period, status
<1>4. x = [mode |-> c.mode, agenda |-> c.agenda, limit |-> c.limit, status |-> status,
           period |-> period, opportunity |-> opportunity, trades |-> trades, stage |-> "gate",
           route |-> Untold, said |-> Silence, spent |-> c.spent, results |-> results,
           put |-> c.put, flaws |-> c.flaws]
  BY <1>1, <1>3, Zenon DEF HasFields
<1>5. /\ x.mode = c.mode /\ x.agenda = c.agenda /\ x.limit = c.limit
      /\ x.spent = c.spent /\ x.put = c.put /\ x.flaws = c.flaws
      /\ x.results = results /\ x.stage = "gate" /\ x.route = Untold /\ x.said = Silence
      /\ x.opportunity = opportunity /\ x.trades = trades /\ x.period = period /\ x.status = status
  BY <1>4
<1>6. HasFields(x)
  BY <1>4 DEF HasFields
<1>7. Shaped(x)
  BY <1>5, <1>6 DEF Shaped, Untold, Silence
<1> QED
  BY <1>2, <1>5, <1>7 DEF results, opportunity, trades, period, status

LEMMA StagedFields ==
  ASSUME NEW c, HasFields(c), NEW stage, NEW x, x = [c EXCEPT !.stage = stage]
  PROVE  /\ HasFields(x) /\ (Shaped(c) => Shaped(x)) /\ x.stage = stage
         /\ x.mode = c.mode /\ x.agenda = c.agenda /\ x.limit = c.limit /\ x.status = c.status
         /\ x.period = c.period /\ x.opportunity = c.opportunity /\ x.trades = c.trades
         /\ x.route = c.route /\ x.said = c.said /\ x.spent = c.spent /\ x.results = c.results
         /\ x.put = c.put /\ x.flaws = c.flaws
<1>1. x = [mode |-> c.mode, agenda |-> c.agenda, limit |-> c.limit, status |-> c.status,
           period |-> c.period, opportunity |-> c.opportunity, trades |-> c.trades, stage |-> stage,
           route |-> c.route, said |-> c.said, spent |-> c.spent, results |-> c.results,
           put |-> c.put, flaws |-> c.flaws]
  BY Zenon DEF HasFields
<1>2. /\ x.stage = stage
      /\ x.mode = c.mode /\ x.agenda = c.agenda /\ x.limit = c.limit /\ x.status = c.status
      /\ x.period = c.period /\ x.opportunity = c.opportunity /\ x.trades = c.trades
      /\ x.route = c.route /\ x.said = c.said /\ x.spent = c.spent /\ x.results = c.results
      /\ x.put = c.put /\ x.flaws = c.flaws
  BY <1>1
<1>3. HasFields(x)
  BY <1>1 DEF HasFields
<1> QED
  BY <1>2, <1>3 DEF Shaped

\* What an opportunity ends with after a stage, if it does.
Outcome(c) ==
  IF Failure(c) # "NONE" THEN Failure(c)
  ELSE IF c.stage = "plan" /\ c.said["plan"].says = "no" THEN "NO_ANALYSIS"
  ELSE IF c.stage = "final" THEN IF c.said["final"].says = "yes" THEN "TRADE" ELSE "NO_TRADE"
  ELSE "NONE"

LEMMA GoesOnCases ==
  ASSUME NEW c
  PROVE  GoesOn(c) = IF \E a \in Members(c) : c.said[a] = Nothing THEN c
                     ELSE IF Outcome(c) # "NONE" THEN Concluded(c, Outcome(c))
                     ELSE [c EXCEPT !.stage = NextStage[c.stage]]
BY Zenon DEF GoesOn, Outcome, Members

\* Going on keeps what a campaign is about, and its flaws.
LEMMA GoesOnKeeps ==
  ASSUME NEW c, Shaped(c)
  PROVE  LET x == GoesOn(c)
         IN  /\ Shaped(x) /\ x.mode = c.mode /\ x.agenda = c.agenda /\ x.limit = c.limit
             /\ x.put = c.put /\ x.flaws = c.flaws
<1>1. HasFields(c)
  BY DEF Shaped
<1>2. PICK x : x = GoesOn(c)
  OBVIOUS
<1>3. PICK stage : stage = NextStage[c.stage]
  OBVIOUS
<1>4. x = c \/ (\E result : x = Concluded(c, result)) \/ x = [c EXCEPT !.stage = stage]
  BY <1>2, <1>3, GoesOnCases
<1> DEFINE Keeps(y) == /\ Shaped(y) /\ y.mode = c.mode /\ y.agenda = c.agenda /\ y.limit = c.limit
                       /\ y.put = c.put /\ y.flaws = c.flaws
<1>5. ASSUME NEW result PROVE Keeps(Concluded(c, result))
  BY <1>1, ConcludedFields
<1>6. ASSUME NEW y, y = [c EXCEPT !.stage = stage] PROVE Keeps(y)
  BY <1>1, <1>6, StagedFields
<1>7. Keeps(c)
  OBVIOUS
<1> HIDE DEF Keeps
<1>8. Keeps(x)
  BY <1>4, <1>5, <1>6, <1>7
<1> QED
  BY <1>2, <1>8 DEF Keeps

Results == {"TRADE", "NO_TRADE", "NO_ANALYSIS", "FAILED"}

LEMMA CampaignFields ==
  ASSUME NEW c
  PROVE  c \in CleanCampaigns <=>
           /\ HasFields(c) /\ c.mode = "LIVE_EVAL" /\ c.agenda \in Agendas /\ c.limit \in Limits
           /\ c.status \in {"RUNNING", "COMPLETED"} /\ c.period \in Nat /\ c.opportunity \in Nat \ {0}
           /\ c.trades \in Nat /\ c.stage \in Stages /\ c.route \in [Agents -> {0, 1}]
           /\ c.said \in [Agents -> Replies \cup {Nothing}] /\ c.spent \in Nat
           /\ c.results \in Seq(Results) /\ c.put = {} /\ c.flaws = {}
<1>1. ASSUME c \in CleanCampaigns
      PROVE  /\ HasFields(c) /\ c.mode = "LIVE_EVAL" /\ c.agenda \in Agendas /\ c.limit \in Limits
             /\ c.status \in {"RUNNING", "COMPLETED"} /\ c.period \in Nat /\ c.opportunity \in Nat \ {0}
             /\ c.trades \in Nat /\ c.stage \in Stages /\ c.route \in [Agents -> {0, 1}]
             /\ c.said \in [Agents -> Replies \cup {Nothing}] /\ c.spent \in Nat
             /\ c.results \in Seq(Results) /\ c.put = {} /\ c.flaws = {}
  BY <1>1 DEF CleanCampaigns, HasFields, Results
<1>2. ASSUME /\ HasFields(c) /\ c.mode = "LIVE_EVAL" /\ c.agenda \in Agendas /\ c.limit \in Limits
             /\ c.status \in {"RUNNING", "COMPLETED"} /\ c.period \in Nat /\ c.opportunity \in Nat \ {0}
             /\ c.trades \in Nat /\ c.stage \in Stages /\ c.route \in [Agents -> {0, 1}]
             /\ c.said \in [Agents -> Replies \cup {Nothing}] /\ c.spent \in Nat
             /\ c.results \in Seq(Results) /\ c.put = {} /\ c.flaws = {}
      PROVE  c \in CleanCampaigns
  BY <1>2 DEF CleanCampaigns, HasFields, Results
<1> QED
  BY <1>1, <1>2

\* A campaign at rest waits for nobody, and may ask its stage.
LEMMA RestsReady ==
  ASSUME NEW c, Rests(c)
  PROVE  /\ Shaped(c) /\ c.spent \in Nat /\ c.limit \in Nat /\ c.results \in Seq(Results)
         /\ c.stage \in AskingStages => Ready(c, c.stage)
         /\ c.stage \in AskingStages \/ c.stage = "gate"
<1>1. /\ HasFields(c) /\ c.limit \in Limits /\ c.stage \in Stages /\ c.route \in [Agents -> {0, 1}]
      /\ c.said \in [Agents -> Replies \cup {Nothing}] /\ c.spent \in Nat /\ c.results \in Seq(Results)
  BY CampaignFields DEF Rests
<1>2. c.limit \in Nat /\ Shaped(c)
  BY <1>1, ReplayCacheAssumption DEF Shaped
<1>3. c.stage \in AskingStages \/ c.stage = "gate"
  BY <1>1 DEF Stages, AskingStages
<1>4. ASSUME c.stage \in AskingStages PROVE Ready(c, c.stage)
  <2>1. Range(Of(c.stage)) \subseteq Agents /\ Range(Of(c.stage)) \cap Settled(c.stage) = {}
    BY <1>4, FirstOfStage
  <2>2. \A a \in Range(Of(c.stage)) : c.route[a] = 0 /\ c.said[a] = Nothing
    BY <2>1 DEF Rests
  <2>3. \A a \in Agents \ Range(Of(c.stage)) : c.route[a] = 0 \/ c.said[a] # Nothing
    <3>1. \A a \in Agents : \A reply \in replies[a] : reply # Nothing
      BY Estimates
    <3> QED
      BY <3>1 DEF Rests
  <2> QED
    BY <1>1, <1>2, <1>4, <2>2, <2>3 DEF Ready
<1> QED
  BY <1>1, <1>2, <1>3, <1>4

\* What w says of a stage at rest.
LEMMA FilledFields ==
  ASSUME NEW c, Rests(c), c.stage \in AskingStages, NEW w \in Partial(c)
  PROVE  LET x == Filled(c, w)
         IN  /\ Shaped(x) /\ Alike(x, c) /\ x.flaws = {} /\ x.spent = c.spent + Paid(w, Members(c)) /\ x.spent \in Nat
             /\ \A a \in Agents : /\ x.route[a] = (IF a \in Members(c) THEN 1 ELSE c.route[a])
                                  /\ x.said[a] = (IF a \in Members(c) THEN w[a] ELSE c.said[a])
<1>1. Shaped(c) /\ c.spent \in Nat /\ c.flaws = {}
  BY RestsReady, CampaignFields DEF Rests
<1>2. Members(c) \in SUBSET Agents /\ Members(c) \cap Settled(c.stage) = {} /\ Members(c) = First(c.stage, Len(Of(c.stage)))
  BY FirstOfStage DEF Members
<1>3. w \in [Agents -> Replies \cup {Nothing}] /\ \A a \in Agents : w[a] # Nothing => w[a] \in replies[a]
  BY DEF Partial
<1>4. Paid(w, Members(c)) \in Nat
  <2>1. Len(Of(c.stage)) \in 0 .. Len(Of(c.stage))
    BY AgentsOfStages
  <2> QED
    BY <1>2, <1>3, <2>1, PaidSoFar
<1>5. PICK x : x = Filled(c, w)
  OBVIOUS
<1>6. /\ Shaped(x) /\ Alike(x, c) /\ x.flaws = {} /\ x.spent = c.spent + Paid(w, Members(c))
      /\ \A a \in Agents : x.route[a] = IF a \in Members(c) THEN 1 ELSE c.route[a]
      /\ \A a \in Agents : x.said[a] = IF a \in Members(c) /\ w[a] # Nothing THEN w[a] ELSE c.said[a]
  <2>1. PICK some : some = Members(c)
    OBVIOUS
  <2>2. some \in SUBSET Agents /\ x = Answers(c, w, some)
    BY <1>2, <1>5, <2>1 DEF Filled
  <2> QED
    BY <1>1, <2>1, <2>2, AnswersFields
<1>7. \A a \in Members(c) : c.said[a] = Nothing
  BY <1>2 DEF Rests
<1>8. \A a \in Agents : x.said[a] = IF a \in Members(c) THEN w[a] ELSE c.said[a]
  BY <1>2, <1>6, <1>7
<1>9. x.spent \in Nat
  BY <1>1, <1>4, <1>6
<1> QED
  BY <1>5, <1>6, <1>8, <1>9

---------------------------------------------------------------------------
(* A stage that ends, in a campaign and in the one it repeats.               *)

LEMMA PlainIs ==
  ASSUME NEW x, NEW y, HasFields(x), HasFields(y), y.mode = "LIVE_EVAL", y.put = {}, y.flaws = {},
         y.agenda = x.agenda, y.limit = x.limit, y.status = x.status, y.period = x.period,
         y.opportunity = x.opportunity, y.trades = x.trades, y.stage = x.stage, y.route = x.route,
         y.said = x.said, y.spent = x.spent, y.results = x.results
  PROVE  y = Plain(x)
<1>1. PICK p : p = Plain(x)
  OBVIOUS
<1>2. /\ HasFields(p) /\ p.mode = "LIVE_EVAL" /\ p.put = {} /\ p.flaws = {}
      /\ p.agenda = x.agenda /\ p.limit = x.limit /\ p.status = x.status /\ p.period = x.period
      /\ p.opportunity = x.opportunity /\ p.trades = x.trades /\ p.stage = x.stage
      /\ p.route = x.route /\ p.said = x.said /\ p.spent = x.spent /\ p.results = x.results
  BY <1>1, PlainFields
<1>3. Alike(y, p)
  BY <1>2 DEF Alike
<1>4. y = p
  BY <1>2, <1>3, SameFields
<1> QED
  BY <1>1, <1>4

\* A campaign under way, as far as its counts go.
Counts(c) ==
  /\ HasFields(c) /\ c.mode \in {"LIVE_EVAL", "CACHED"} /\ c.status = "RUNNING"
  /\ c.agenda \in Agendas /\ c.limit \in Limits /\ c.period \in Nat /\ c.trades \in Nat /\ c.spent \in Nat
  /\ c.results \in Seq(Results) /\ c.opportunity \in Nat \ {0} /\ c.opportunity <= Len(c.results) + 1

LEMMA PlainCounts ==
  ASSUME NEW c, HasFields(c), c.mode \in {"LIVE_EVAL", "CACHED"}
  PROVE  Counts(c) <=> Counts(Plain(c))
<1>1. PICK p : p = Plain(c)
  OBVIOUS
<1>2. /\ HasFields(p) /\ p.mode = "LIVE_EVAL"
      /\ p.agenda = c.agenda /\ p.limit = c.limit /\ p.status = c.status /\ p.period = c.period
      /\ p.opportunity = c.opportunity /\ p.trades = c.trades /\ p.spent = c.spent /\ p.results = c.results
  BY <1>1, PlainFields
<1>3. Counts(c) <=> Counts(p)
  BY <1>2 DEF Counts
<1> QED
  BY <1>1, <1>3

\* A campaign none of whose results is a miss goes on.
LEMMA NoMiss ==
  ASSUME NEW c, Counts(c), NEW result \in Results
  PROVE  ~RaisesMiss(c, Append(c.results, result))
<1>1. SUFFICES ASSUME RaisesMiss(c, Append(c.results, result)) PROVE FALSE
  OBVIOUS
<1> DEFINE s == Append(c.results, result)
<1>2. s \in Seq(Results) /\ Len(s) = Len(c.results) + 1 /\ DOMAIN s = 1 .. Len(s) /\ Len(c.results) \in Nat
  BY DEF Counts
<1> HIDE DEF s
<1>3. PICK i \in Len(s) - Found(c) + 1 .. Len(s) : s[i] = "MISS"
  BY <1>1 DEF RaisesMiss, s
<1>4. c.opportunity = Found(c) /\ c.opportunity \in Nat /\ c.opportunity <= Len(c.results) + 1
  BY <1>1 DEF RaisesMiss, LastOfPeriod, Counts
<1>5. i \in 1 .. Len(s)
  BY <1>2, <1>3, <1>4
<1>6. s[i] \in Results
  BY <1>2, <1>5
<1> QED
  BY <1>3, <1>6 DEF Results

\* An opportunity that ends leaves the campaign at rest.
LEMMA ConcludedRests ==
  ASSUME NEW c, Counts(c), NEW result \in Results
  PROVE  LET d == Concluded(c, result)
         IN  /\ Plain(d) = Concluded(Plain(c), result) /\ Rests(Plain(d)) /\ Continues(c.results, d.results)
<1>1. HasFields(c) /\ ~RaisesMiss(c, Append(c.results, result))
  BY NoMiss DEF Counts
<1>2. PICK d : d = Concluded(c, result)
  OBVIOUS
<1>3. /\ Shaped(d) /\ d.mode = c.mode /\ d.agenda = c.agenda /\ d.limit = c.limit
      /\ d.spent = c.spent /\ d.results = Append(c.results, result) /\ d.stage = "gate"
      /\ d.route = Untold /\ d.said = Silence
      /\ d.opportunity = (IF LastOfPeriod(c) THEN 1 ELSE c.opportunity + 1)
      /\ d.trades = (IF LastOfPeriod(c) THEN 0 ELSE IF result = "TRADE" THEN c.trades + 1 ELSE c.trades)
      /\ d.period = (IF LastOfPeriod(c) THEN c.period + 1 ELSE c.period)
      /\ d.status = (IF LastOfPeriod(c) /\ c.period = Len(c.agenda) THEN "COMPLETED" ELSE c.status)
  BY <1>1, <1>2, ConcludedFields
<1>4. PICK b : b = Plain(c)
  OBVIOUS
<1>5. /\ HasFields(b) /\ b.mode = "LIVE_EVAL" /\ b.put = {} /\ b.flaws = {}
      /\ b.agenda = c.agenda /\ b.limit = c.limit /\ b.status = c.status /\ b.period = c.period
      /\ b.opportunity = c.opportunity /\ b.trades = c.trades /\ b.spent = c.spent /\ b.results = c.results
  BY <1>1, <1>4, PlainFields
<1>6. LastOfPeriod(b) = LastOfPeriod(c) /\ ~RaisesMiss(b, Append(b.results, result))
  BY <1>5 DEF LastOfPeriod, Found, RaisesMiss
<1>7. PICK p : p = Concluded(b, result)
  OBVIOUS
<1>8. /\ Shaped(p) /\ p.mode = "LIVE_EVAL" /\ p.put = {} /\ p.flaws = {}
      /\ p.agenda = d.agenda /\ p.limit = d.limit
      /\ p.spent = d.spent /\ p.results = d.results /\ p.stage = d.stage
      /\ p.route = d.route /\ p.said = d.said /\ p.opportunity = d.opportunity
      /\ p.trades = d.trades /\ p.period = d.period /\ p.status = d.status
  <2>1. /\ Shaped(p) /\ p.mode = b.mode /\ p.agenda = b.agenda /\ p.limit = b.limit
        /\ p.spent = b.spent /\ p.put = b.put /\ p.flaws = b.flaws
        /\ p.results = Append(b.results, result) /\ p.stage = "gate"
        /\ p.route = Untold /\ p.said = Silence
        /\ p.opportunity = (IF LastOfPeriod(b) THEN 1 ELSE b.opportunity + 1)
        /\ p.trades = (IF LastOfPeriod(b) THEN 0 ELSE IF result = "TRADE" THEN b.trades + 1 ELSE b.trades)
        /\ p.period = (IF LastOfPeriod(b) THEN b.period + 1 ELSE b.period)
        /\ p.status = (IF LastOfPeriod(b) /\ b.period = Len(b.agenda) THEN "COMPLETED" ELSE b.status)
    BY <1>5, <1>6, <1>7, ConcludedFields
  <2> QED
    BY <1>3, <1>5, <1>6, <2>1
<1>9. p = Plain(d)
  <2>1. HasFields(d) /\ HasFields(p)
    BY <1>3, <1>8 DEF Shaped
  <2> QED
    BY <1>8, <2>1, PlainIs
<1>10. /\ d.results \in Seq(Results) /\ Len(d.results) = Len(c.results) + 1 /\ Continues(c.results, d.results)
       /\ Len(c.results) \in Nat
  BY <1>3 DEF Counts, Continues
<1>11. Rests(p)
  <2>1. /\ p.agenda \in Agendas /\ p.limit \in Limits /\ p.spent \in Nat /\ p.stage \in Stages
        /\ p.results \in Seq(Results) /\ p.status \in {"RUNNING", "COMPLETED"} /\ p.trades \in Nat
        /\ p.period \in Nat
    BY <1>3, <1>8, <1>10 DEF Counts, Stages
  <2>2. p.opportunity \in Nat \ {0} /\ p.opportunity <= Len(p.results) + 1
    BY <1>3, <1>8, <1>10 DEF Counts
  <2>3. p.route \in [Agents -> {0, 1}] /\ p.said \in [Agents -> Replies \cup {Nothing}]
    BY <1>3, <1>8 DEF Untold, Silence
  <2>4. p \in CleanCampaigns
    BY <1>8, <2>1, <2>2, <2>3, CampaignFields DEF Shaped
  <2>5. p.stage = "gate" /\ Settled(p.stage) = {}
    BY <1>3, <1>8 DEF Settled
  <2>6. \A a \in Agents : p.route[a] = 0 /\ p.said[a] = Nothing
    BY <1>3, <1>8 DEF Untold, Silence
  <2> QED
    BY <2>2, <2>4, <2>5, <2>6 DEF Rests
<1> QED
  BY <1>2, <1>4, <1>7, <1>9, <1>10, <1>11

\* The whole stage of c has answered.
Answered(c) ==
  \A a \in Agents : IF a \in Settled(c.stage) \cup Members(c) THEN c.route[a] = 1 /\ c.said[a] \in replies[a]
                    ELSE c.route[a] = 0 /\ c.said[a] = Nothing

LEMMA Outcomes ==
  ASSUME NEW c, c.stage \in AskingStages, Answered(c)
  PROVE  /\ Outcome(c) \in Results \cup {"NONE"}
         /\ Outcome(c) = "NONE" => c.stage \in {"plan", "round", "palermo"}
         /\ \A a \in Members(c) : c.said[a] # Nothing
<1>1. \A a \in Members(c) : c.said[a] \in replies[a]
  BY FirstOfStage DEF Answered, Members
<1>2. \A a \in Members(c) : c.said[a] # Nothing /\ c.said[a].says # "missing"
  <2>1. \A a \in Agents : \A reply \in replies[a] : reply # Nothing /\ reply.says # "missing"
    BY ReplayCacheAssumption
  <2>2. Members(c) \subseteq Agents
    BY FirstOfStage DEF Members
  <2> QED
    BY <1>1, <2>1, <2>2
<1>3. Failure(c) \in {"NONE", "FAILED"}
  <2> DEFINE s == Of(c.stage)
             words == Words(c, s)
             failed == {i \in DOMAIN words : words[i] \in Failing}
  <2>1. DOMAIN words = DOMAIN s /\ DOMAIN s \subseteq Nat
    BY AgentsOfStages DEF Words
  <2>2. \A i \in DOMAIN s : words[i] # "missing"
    BY <1>2 DEF Words, Members, Range
  <2>3. Failure(c) = IF failed = {} THEN "NONE" ELSE IF words[Min(failed)] = "missing" THEN "MISS" ELSE "FAILED"
    BY DEF Failure
  <2>4. failed \subseteq Nat /\ failed \subseteq DOMAIN s
    BY <2>1
  <2> HIDE DEF failed, words
  <2>5. ASSUME failed # {} PROVE Min(failed) \in failed
    <3>1. \E i \in failed : \A j \in failed : i <= j
      BY <2>4, <2>5, SmallestMember
    <3> QED
      BY <3>1 DEF Min
  <2> QED
    BY <2>2, <2>3, <2>4, <2>5
<1>4. Outcome(c) \in Results \cup {"NONE"} /\ (Outcome(c) = "NONE" => c.stage # "final")
  BY <1>3 DEF Outcome, Results
<1> QED
  BY <1>2, <1>4 DEF AskingStages

\* A stage that settles nothing leaves the campaign at the next one.
LEMMA StagedRests ==
  ASSUME NEW c, Counts(c), Shaped(c), c.stage \in {"plan", "round", "palermo"}, Answered(c),
         NEW d, d = [c EXCEPT !.stage = NextStage[c.stage]],
         NEW p, p = [Plain(c) EXCEPT !.stage = NextStage[c.stage]]
  PROVE  p = Plain(d) /\ Rests(p) /\ d.results = c.results
<1>1. HasFields(c)
  BY DEF Counts
<1>2. PICK stage : stage = NextStage[c.stage]
  OBVIOUS
<1>3. PICK b : b = Plain(c)
  OBVIOUS
<1>4. /\ Shaped(b) /\ HasFields(b) /\ b.mode = "LIVE_EVAL" /\ b.put = {} /\ b.flaws = {}
      /\ b.agenda = c.agenda /\ b.limit = c.limit /\ b.status = c.status /\ b.period = c.period
      /\ b.opportunity = c.opportunity /\ b.trades = c.trades /\ b.stage = c.stage
      /\ b.route = c.route /\ b.said = c.said /\ b.spent = c.spent /\ b.results = c.results
  BY <1>1, <1>3, PlainFields
<1>5. /\ HasFields(d) /\ d.stage = stage
      /\ d.agenda = c.agenda /\ d.limit = c.limit /\ d.status = c.status
      /\ d.period = c.period /\ d.opportunity = c.opportunity /\ d.trades = c.trades
      /\ d.route = c.route /\ d.said = c.said /\ d.spent = c.spent /\ d.results = c.results
  BY <1>1, <1>2, StagedFields
<1>6. /\ HasFields(p) /\ Shaped(p) /\ p.stage = stage
      /\ p.mode = b.mode /\ p.agenda = b.agenda /\ p.limit = b.limit /\ p.status = b.status
      /\ p.period = b.period /\ p.opportunity = b.opportunity /\ p.trades = b.trades
      /\ p.route = b.route /\ p.said = b.said /\ p.spent = b.spent /\ p.results = b.results
      /\ p.put = b.put /\ p.flaws = b.flaws
  BY <1>2, <1>3, <1>4, StagedFields
<1>7. p = Plain(d)
  <2>1. /\ p.mode = "LIVE_EVAL" /\ p.put = {} /\ p.flaws = {}
        /\ p.agenda = d.agenda /\ p.limit = d.limit /\ p.status = d.status /\ p.period = d.period
        /\ p.opportunity = d.opportunity /\ p.trades = d.trades /\ p.stage = d.stage
        /\ p.route = d.route /\ p.said = d.said /\ p.spent = d.spent /\ p.results = d.results
    BY <1>4, <1>5, <1>6
  <2>2. PICK e, q : e = d /\ q = p
    OBVIOUS
  <2>3. /\ HasFields(e) /\ HasFields(q) /\ q.mode = "LIVE_EVAL" /\ q.put = {} /\ q.flaws = {}
        /\ q.agenda = e.agenda /\ q.limit = e.limit /\ q.status = e.status /\ q.period = e.period
        /\ q.opportunity = e.opportunity /\ q.trades = e.trades /\ q.stage = e.stage
        /\ q.route = e.route /\ q.said = e.said /\ q.spent = e.spent /\ q.results = e.results
    BY <1>5, <1>6, <2>1, <2>2
  <2>4. q = Plain(e)
    BY <2>3, PlainIs
  <2> QED
    BY <2>2, <2>4
<1>8. stage \in Stages /\ stage # "gate" /\ Settled(stage) = Settled(c.stage) \cup Members(c)
  <2>1. Settled("round") = {"plan"} /\ Settled("palermo") = {"plan"} \cup Range(Crew)
        /\ Settled("final") = {"plan", "palermo"} \cup Range(Crew) /\ Settled("plan") = {}
    BY DEF Settled
  <2>2. /\ c.stage = "plan" => stage = "round" /\ Members(c) = {"plan"}
        /\ c.stage = "round" => stage = "palermo" /\ Members(c) = Range(Crew)
        /\ c.stage = "palermo" => stage = "final" /\ Members(c) = {"palermo"}
    BY <1>2 DEF NextStage, Members, Of, Range
  <2>3. \A some : \A one, another : ({one} \cup some) \cup {another} = {one, another} \cup some
    OBVIOUS
  <2> QED
    BY <2>1, <2>2, <2>3 DEF Stages
<1>9. \A a \in Agents : IF a \in Settled(p.stage) THEN p.route[a] = 1 /\ p.said[a] \in replies[a]
                        ELSE p.route[a] = 0 /\ p.said[a] = Nothing
  BY <1>4, <1>6, <1>8 DEF Answered
<1>10. p.route \in [Agents -> {0, 1}] /\ p.said \in [Agents -> Replies \cup {Nothing}]
  <2>1. \A a \in Agents : p.route[a] \in {0, 1} /\ p.said[a] \in Replies \cup {Nothing}
    BY <1>9 DEF Replies
  <2>2. p.route = [a \in Agents |-> p.route[a]] /\ p.said = [a \in Agents |-> p.said[a]]
    BY <1>6 DEF Shaped
  <2> QED
    BY <2>1, <2>2
<1>11. p \in CleanCampaigns
  <2>1. /\ p.agenda \in Agendas /\ p.limit \in Limits /\ p.period \in Nat /\ p.trades \in Nat
        /\ p.spent \in Nat /\ p.results \in Seq(Results) /\ p.opportunity \in Nat \ {0}
    BY <1>4, <1>6 DEF Counts
  <2>2. p.mode = "LIVE_EVAL" /\ p.status = "RUNNING" /\ p.put = {} /\ p.flaws = {}
    BY <1>4, <1>6 DEF Counts
  <2> QED
    BY <1>6, <1>8, <1>10, <2>1, <2>2, CampaignFields, ZenonT(40)
<1>12. p.opportunity <= Len(p.results) + 1 /\ p.status = "RUNNING"
  BY <1>4, <1>6 DEF Counts
<1> QED
  BY <1>5, <1>7, <1>9, <1>11, <1>12 DEF Rests

LEMMA GoesOnRests ==
  ASSUME NEW c, Counts(c), Shaped(c), c.stage \in AskingStages, Answered(c)
  PROVE  LET d == GoesOn(c)
         IN  Plain(d) = GoesOn(Plain(c)) /\ Rests(Plain(d)) /\ Continues(c.results, d.results)
<1>1. HasFields(c)
  BY DEF Counts
<1>2. PICK b : b = Plain(c)
  OBVIOUS
<1>3. b.said = c.said /\ b.stage = c.stage
  BY <1>1, <1>2, PlainFields
<1>4. Members(b) = Members(c) /\ Outcome(b) = Outcome(c)
  BY <1>3 DEF Members, Outcome, Failure, Words
<1>5. /\ Outcome(c) \in Results \cup {"NONE"} /\ \A a \in Members(c) : c.said[a] # Nothing
      /\ Outcome(c) = "NONE" => c.stage \in {"plan", "round", "palermo"}
  BY Outcomes
<1>6. /\ GoesOn(c) = IF Outcome(c) # "NONE" THEN Concluded(c, Outcome(c)) ELSE [c EXCEPT !.stage = NextStage[c.stage]]
      /\ GoesOn(b) = IF Outcome(c) # "NONE" THEN Concluded(b, Outcome(c)) ELSE [b EXCEPT !.stage = NextStage[c.stage]]
  BY <1>3, <1>4, <1>5, GoesOnCases, Zenon
<1>7. CASE Outcome(c) # "NONE"
  BY <1>2, <1>5, <1>6, <1>7, ConcludedRests
<1>8. CASE Outcome(c) = "NONE"
  <2>1. PICK d : d = [c EXCEPT !.stage = NextStage[c.stage]]
    OBVIOUS
  <2>2. PICK p : p = [Plain(c) EXCEPT !.stage = NextStage[c.stage]]
    OBVIOUS
  <2>3. p = Plain(d) /\ Rests(p) /\ d.results = c.results
    BY <1>5, <1>8, <2>1, <2>2, StagedRests
  <2>4. GoesOn(c) = d /\ GoesOn(b) = p
    BY <1>2, <1>6, <1>8, <2>1, <2>2, Zenon
  <2>5. Continues(c.results, d.results)
    BY <2>3 DEF Counts, Continues
  <2> QED
    BY <1>2, <2>3, <2>4, <2>5
<1> QED
  BY <1>7, <1>8

LEMMA AfterGateRests ==
  ASSUME NEW c, HasFields(c), c.mode \in {"LIVE_EVAL", "CACHED"}, c.status = "RUNNING", c.stage = "gate", Rests(Plain(c))
  PROVE  LET d == AfterGate(c)
         IN  Plain(d) = AfterGate(Plain(c)) /\ Rests(Plain(d)) /\ Continues(c.results, d.results)
<1>1. PICK b : b = Plain(c)
  OBVIOUS
<1>2. /\ HasFields(b) /\ b.mode = "LIVE_EVAL" /\ b.put = {} /\ b.flaws = {}
      /\ b.agenda = c.agenda /\ b.limit = c.limit /\ b.status = c.status /\ b.period = c.period
      /\ b.opportunity = c.opportunity /\ b.trades = c.trades /\ b.stage = c.stage
      /\ b.route = c.route /\ b.said = c.said /\ b.spent = c.spent /\ b.results = c.results
  BY <1>1, PlainFields
<1>3. b \in CleanCampaigns /\ b.opportunity <= Len(b.results) + 1
  BY <1>1 DEF Rests
<1>4. Counts(b) /\ Counts(c)
  <2>1. Counts(b)
    BY <1>2, <1>3, CampaignFields DEF Counts
  <2> QED
    BY <1>1, <2>1, PlainCounts
<1>5. CASE c.limit - c.spent < MinAnalysis
  <2>1. AfterGate(c) = Concluded(c, "NO_ANALYSIS") /\ AfterGate(b) = Concluded(b, "NO_ANALYSIS")
    BY <1>2, <1>5 DEF AfterGate
  <2>2. "NO_ANALYSIS" \in Results
    BY DEF Results
  <2> QED
    BY <1>1, <1>4, <2>1, <2>2, ConcludedRests
<1>6. CASE ~(c.limit - c.spent < MinAnalysis)
  <2>1. PICK d : d = [c EXCEPT !.stage = "plan"]
    OBVIOUS
  <2>2. PICK p : p = [b EXCEPT !.stage = "plan"]
    OBVIOUS
  <2>3. AfterGate(c) = d /\ AfterGate(b) = p
    BY <1>2, <1>6, <2>1, <2>2, Zenon DEF AfterGate
  <2>4. /\ HasFields(d) /\ d.stage = "plan"
        /\ d.agenda = c.agenda /\ d.limit = c.limit /\ d.status = c.status
        /\ d.period = c.period /\ d.opportunity = c.opportunity /\ d.trades = c.trades
        /\ d.route = c.route /\ d.said = c.said /\ d.spent = c.spent /\ d.results = c.results
    BY <2>1, StagedFields
  <2>5. /\ HasFields(p) /\ p.stage = "plan"
        /\ p.mode = b.mode /\ p.agenda = b.agenda /\ p.limit = b.limit /\ p.status = b.status
        /\ p.period = b.period /\ p.opportunity = b.opportunity /\ p.trades = b.trades
        /\ p.route = b.route /\ p.said = b.said /\ p.spent = b.spent /\ p.results = b.results
        /\ p.put = b.put /\ p.flaws = b.flaws
    BY <1>2, <2>2, StagedFields
  <2>6. p = Plain(d)
    BY <1>2, <2>4, <2>5, PlainIs
  <2>7. Settled("gate") = {} /\ Settled("plan") = {} /\ "plan" \in Stages
    BY DEF Settled, Stages
  <2>8. p \in CleanCampaigns
    BY <1>2, <1>3, <2>5, <2>7, CampaignFields
  <2>9. \A a \in Agents : p.route[a] = 0 /\ p.said[a] = Nothing
    BY <1>1, <1>2, <2>5, <2>7 DEF Rests
  <2>10. Rests(p)
    BY <1>2, <1>3, <2>5, <2>7, <2>8, <2>9 DEF Rests
  <2>11. Continues(c.results, d.results)
    BY <1>4, <2>4 DEF Counts, Continues
  <2> QED
    BY <1>1, <2>3, <2>6, <2>10, <2>11
<1> QED
  BY <1>5, <1>6

---------------------------------------------------------------------------
(* What a clean campaign went through.                                      *)

Extends(more, kept) == DOMAIN kept \subseteq DOMAIN more /\ \A k \in DOMAIN kept : more[k] = kept[k]

LEMMA LeadsMore ==
  ASSUME NEW kept, NEW more, Extends(more, kept), NEW c, NEW d, Leads(c, d, kept)
  PROVE  Leads(c, d, more)
<1>1. \A w : AreKept(c, w, kept) => AreKept(c, w, more)
  BY DEF AreKept, Extends
<1> QED
  BY <1>1 DEF Leads

LEMMA TaleKeeps ==
  ASSUME NEW kept, NEW more, Extends(more, kept), NEW R, NEW e, Tale(R, e, kept)
  PROVE  Tale(R, e, more)
<1>1. \A c \in R \ {e} : \E d \in R : Leads(c, d, more)
  BY LeadsMore DEF Tale
<1> QED
  BY <1>1 DEF Tale

LEMMA TaleGrows ==
  ASSUME NEW R, NEW b, NEW kept, Tale(R, b, kept), NEW d, Rests(d), Leads(b, d, kept),
         d.agenda = b.agenda, d.limit = b.limit, Continues(b.results, d.results)
  PROVE  Tale(R \cup {d}, d, kept)
<1>1. \A c \in R \cup {d} : Rests(c) /\ c.agenda = d.agenda /\ c.limit = d.limit /\ Len(c.results) \in Nat
  <2>1. \A c \in R \cup {d} : Rests(c) /\ c.agenda = d.agenda /\ c.limit = d.limit
    BY DEF Tale
  <2>2. ASSUME NEW s \in Seq(Results) PROVE Len(s) \in Nat
    OBVIOUS
  <2> QED
    BY <2>1, <2>2, RestsReady
<1>2. \A c \in R \cup {d} : Continues(c.results, d.results)
  <2>1. ASSUME NEW c \in R PROVE Continues(c.results, d.results)
    <3>1. Continues(c.results, b.results) /\ Len(c.results) \in Nat /\ Len(b.results) \in Nat /\ Len(d.results) \in Nat
      BY <1>1 DEF Tale
    <3> QED
      BY <3>1 DEF Continues
  <2>2. Continues(d.results, d.results)
    BY <1>1 DEF Continues
  <2> QED
    BY <2>1, <2>2
<1>3. \A c \in (R \cup {d}) \ {d} : \E x \in R \cup {d} : Leads(c, x, kept)
  BY DEF Tale
<1>4. Launched(d.agenda, d.limit) \in R \cup {d}
  BY DEF Tale
<1> QED
  BY <1>1, <1>2, <1>3, <1>4 DEF Tale

LEMMA PlainReady ==
  ASSUME NEW c, Shaped(c), Rests(Plain(c)), c.stage \in AskingStages
  PROVE  Ready(c, c.stage)
<1>1. PICK b : b = Plain(c)
  OBVIOUS
<1>2. b.stage = c.stage /\ b.route = c.route /\ b.said = c.said /\ b.spent = c.spent /\ b.limit = c.limit
  BY <1>1, PlainFields DEF Shaped
<1>3. Ready(b, b.stage)
  BY <1>1, <1>2, RestsReady
<1> QED
  BY <1>2, <1>3 DEF Ready

LEMMA FilledPlain ==
  ASSUME NEW c, Shaped(c), c.stage \in AskingStages, NEW w
  PROVE  Plain(Filled(c, w)) = Filled(Plain(c), w) /\ Shaped(Filled(c, w))
<1>1. PICK b : b = Plain(c)
  OBVIOUS
<1>2. /\ Shaped(b) /\ b.mode = "LIVE_EVAL" /\ b.put = {} /\ b.flaws = {}
      /\ b.agenda = c.agenda /\ b.limit = c.limit /\ b.status = c.status /\ b.period = c.period
      /\ b.opportunity = c.opportunity /\ b.trades = c.trades /\ b.stage = c.stage
      /\ b.route = c.route /\ b.said = c.said /\ b.spent = c.spent /\ b.results = c.results
  BY <1>1, PlainFields DEF Shaped
<1>3. PICK some : some = Members(c)
  OBVIOUS
<1>4. some \in SUBSET Agents /\ some = Members(b)
  BY <1>2, <1>3, FirstOfStage DEF Members
<1>5. PICK x : x = Answers(c, w, some)
  OBVIOUS
<1>6. PICK z : z = Answers(b, w, some)
  OBVIOUS
<1>7. /\ Shaped(x) /\ Alike(x, c) /\ x.flaws = c.flaws /\ x.spent = c.spent + Paid(w, some)
      /\ \A a \in Agents : x.route[a] = IF a \in some THEN 1 ELSE c.route[a]
      /\ \A a \in Agents : x.said[a] = IF a \in some /\ w[a] # Nothing THEN w[a] ELSE c.said[a]
  BY <1>4, <1>5, AnswersFields
<1>8. /\ Shaped(z) /\ Alike(z, b) /\ z.flaws = b.flaws /\ z.spent = b.spent + Paid(w, some)
      /\ \A a \in Agents : z.route[a] = IF a \in some THEN 1 ELSE b.route[a]
      /\ \A a \in Agents : z.said[a] = IF a \in some /\ w[a] # Nothing THEN w[a] ELSE b.said[a]
  BY <1>2, <1>4, <1>6, AnswersFields
<1>9. z.route = x.route /\ z.said = x.said
  <2>1. \A a \in Agents : z.route[a] = x.route[a] /\ z.said[a] = x.said[a]
    BY <1>2, <1>7, <1>8
  <2>2. /\ x.route = [a \in Agents |-> x.route[a]] /\ x.said = [a \in Agents |-> x.said[a]]
        /\ z.route = [a \in Agents |-> z.route[a]] /\ z.said = [a \in Agents |-> z.said[a]]
    BY <1>7, <1>8 DEF Shaped
  <2> QED
    BY <2>1, <2>2
<1>10. z = Plain(x)
  <2>1. /\ HasFields(x) /\ HasFields(z) /\ z.mode = "LIVE_EVAL" /\ z.put = {} /\ z.flaws = {}
        /\ z.agenda = x.agenda /\ z.limit = x.limit /\ z.status = x.status /\ z.period = x.period
        /\ z.opportunity = x.opportunity /\ z.trades = x.trades /\ z.stage = x.stage
        /\ z.spent = x.spent /\ z.results = x.results
    BY <1>2, <1>7, <1>8 DEF Alike, Shaped
  <2> QED
    BY <1>9, <2>1, PlainIs
<1> QED
  BY <1>1, <1>3, <1>4, <1>5, <1>6, <1>7, <1>10 DEF Filled

\* A stage at rest whose agents all answered may go on.
LEMMA FilledCounts ==
  ASSUME NEW b, Rests(b), b.status = "RUNNING", b.stage \in AskingStages, NEW w \in Partial(b)
  PROVE  LET z == Filled(b, w)
         IN  /\ Counts(z) /\ Shaped(z) /\ z.stage = b.stage /\ z.results = b.results
             /\ (\A a \in Members(b) : w[a] # Nothing) => Answered(z)
<1>1. PICK z : z = Filled(b, w)
  OBVIOUS
<1>2. /\ Shaped(z) /\ Alike(z, b) /\ z.flaws = {} /\ z.spent \in Nat
      /\ \A a \in Agents : /\ z.route[a] = (IF a \in Members(b) THEN 1 ELSE b.route[a])
                           /\ z.said[a] = (IF a \in Members(b) THEN w[a] ELSE b.said[a])
  BY <1>1, FilledFields
<1>3. Counts(z) /\ z.stage = b.stage /\ z.results = b.results
  <2>1. b \in CleanCampaigns /\ b.opportunity <= Len(b.results) + 1
    BY DEF Rests
  <2> QED
    BY <1>2, <2>1, CampaignFields DEF Counts, Alike, Shaped
<1>4. ASSUME \A a \in Members(b) : w[a] # Nothing PROVE Answered(z)
  <2>1. Members(z) = Members(b) /\ z.stage = b.stage
    BY <1>3 DEF Members
  <2>2. \A a \in Members(b) \cap Agents : w[a] \in replies[a]
    BY <1>4 DEF Partial
  <2> QED
    BY <1>2, <2>1, <2>2 DEF Answered, Rests
<1> QED
  BY <1>1, <1>2, <1>3, <1>4

---------------------------------------------------------------------------
(* A clean LIVE_EVAL campaign, one step at a time.                          *)

Rested(c, kept) == \E R : Tale(R, Plain(c), kept)
Waits(c, kept) ==
  /\ c.status = "RUNNING"
  /\ \E R, b, w : /\ Tale(R, b, kept) /\ b.status = "RUNNING" /\ b.stage \in AskingStages /\ HasRoom(b)
                  /\ w \in Partial(b) /\ (\E a \in Members(b) : w[a] = Nothing)
                  /\ AreKept(b, w, kept) /\ Plain(c) = Filled(b, w)

\* It rests, or waits for some of a stage.
Sound(c, kept) ==
  c.mode = "LIVE_EVAL" /\ c.flaws = {} /\ c.status \in {"RUNNING", "COMPLETED"} =>
    Rested(c, kept) \/ Waits(c, kept)

\* Who waits was asked by a campaign that does not rest.
LEMMA NoneWaits ==
  ASSUME NEW b, Rests(b)
  PROVE  \A a \in Agents : b.route[a] = 0 \/ b.said[a] # Nothing
<1>1. \A a \in Agents : \A reply \in replies[a] : reply # Nothing
  BY Estimates
<1> QED
  BY <1>1 DEF Rests

LEMMA WaitsAtStage ==
  ASSUME NEW c, HasFields(c), NEW b, Rests(b), b.stage \in AskingStages, NEW w \in Partial(b), Plain(c) = Filled(b, w)
  PROVE  /\ c.stage = b.stage /\ c.agenda = b.agenda /\ c.limit = b.limit /\ c.period = b.period
         /\ c.opportunity = b.opportunity /\ c.trades = b.trades /\ c.results = b.results /\ c.status = b.status
         /\ c.spent = b.spent + Paid(w, Members(b)) /\ Members(c) = Members(b)
         /\ \A a \in Agents : /\ c.route[a] = (IF a \in Members(b) THEN 1 ELSE b.route[a])
                              /\ c.said[a] = (IF a \in Members(b) THEN w[a] ELSE b.said[a])
<1>1. PICK p : p = Plain(c)
  OBVIOUS
<1>2. /\ p.agenda = c.agenda /\ p.limit = c.limit /\ p.status = c.status /\ p.period = c.period
      /\ p.opportunity = c.opportunity /\ p.trades = c.trades /\ p.stage = c.stage
      /\ p.route = c.route /\ p.said = c.said /\ p.spent = c.spent /\ p.results = c.results
  BY <1>1, PlainFields
<1>3. /\ Alike(p, b) /\ p.spent = b.spent + Paid(w, Members(b))
      /\ \A a \in Agents : /\ p.route[a] = (IF a \in Members(b) THEN 1 ELSE b.route[a])
                           /\ p.said[a] = (IF a \in Members(b) THEN w[a] ELSE b.said[a])
  BY <1>1, FilledFields
<1> QED
  BY <1>2, <1>3 DEF Alike, Members

LEMMA TaleRests ==
  ASSUME NEW R, NEW e, NEW kept, Tale(R, e, kept)
  PROVE  Rests(e) /\ \A c \in R : Rests(c)
BY DEF Tale

LEMMA AfterGateKeeps ==
  ASSUME NEW c, Shaped(c), NEW d, d = AfterGate(c)
  PROVE  /\ Shaped(d) /\ d.mode = c.mode /\ d.agenda = c.agenda /\ d.limit = c.limit
         /\ d.put = c.put /\ d.flaws = c.flaws
<1>0. HasFields(c)
  BY DEF Shaped
<1>1. CASE c.limit - c.spent < MinAnalysis
  <2>1. d = Concluded(c, "NO_ANALYSIS")
    BY <1>1 DEF AfterGate
  <2> QED
    BY <1>0, <2>1, ConcludedFields
<1>2. CASE ~(c.limit - c.spent < MinAnalysis)
  <2>1. d = [c EXCEPT !.stage = "plan"]
    BY <1>2, Zenon DEF AfterGate
  <2> QED
    BY <1>0, <2>1, StagedFields
<1> QED
  BY <1>1, <1>2

LEMMA SoundGate ==
  ASSUME NEW c, Shaped(c), c.mode = "LIVE_EVAL", c.status = "RUNNING", c.stage = "gate", NEW kept, Sound(c, kept)
  PROVE  Sound(AfterGate(c), kept)
<1>1. HasFields(c)
  BY DEF Shaped
<1>2. PICK d : d = AfterGate(c)
  OBVIOUS
<1>3. Shaped(d) /\ d.mode = c.mode /\ d.agenda = c.agenda /\ d.limit = c.limit /\ d.put = c.put /\ d.flaws = c.flaws
  BY <1>1, <1>2, AfterGateKeeps
<1>4. ASSUME c.flaws = {} PROVE Rested(d, kept)
  <2>1. ~Waits(c, kept)
    <3>1. SUFFICES ASSUME NEW R, NEW b, NEW w, Tale(R, b, kept), b.stage \in AskingStages, w \in Partial(b),
                          Plain(c) = Filled(b, w)
                   PROVE FALSE
      BY DEF Waits
    <3>2. c.stage = b.stage
      BY <1>1, <3>1, WaitsAtStage, TaleRests
    <3> QED
      BY <3>1, <3>2 DEF AskingStages
  <2>2. PICK R : Tale(R, Plain(c), kept)
    BY <1>4, <2>1 DEF Sound, Rested
  <2>3. PICK b : b = Plain(c)
    OBVIOUS
  <2>4. Rests(b)
    BY <2>2, <2>3, TaleRests
  <2>5. Plain(d) = AfterGate(b) /\ Rests(Plain(d)) /\ Continues(c.results, d.results)
    BY <1>1, <1>2, <2>3, <2>4, AfterGateRests
  <2>6. /\ b.agenda = c.agenda /\ b.limit = c.limit /\ b.status = c.status /\ b.stage = c.stage
        /\ b.results = c.results
    BY <1>1, <2>3, PlainFields
  <2>7. PICK p : p = Plain(d)
    OBVIOUS
  <2>8. p.agenda = d.agenda /\ p.limit = d.limit /\ p.results = d.results
    BY <1>3, <2>7, PlainFields DEF Shaped
  <2>9. Leads(b, p, kept)
    BY <2>5, <2>6, <2>7 DEF Leads
  <2>10. Tale(R \cup {p}, p, kept)
    BY <1>3, <2>2, <2>3, <2>5, <2>6, <2>7, <2>8, <2>9, TaleGrows
  <2> QED
    BY <2>7, <2>10 DEF Rested
<1> QED
  BY <1>2, <1>3, <1>4 DEF Sound

\* What a stage asks becomes part of the campaign.
LEMMA AllAskKeeps ==
  ASSUME NEW c, Shaped(c), c.stage \in AskingStages, NEW x, x = AllAsk(c, Of(c.stage))
  PROVE  Shaped(x) /\ Alike(x, c) /\ (x.flaws = {} => c.flaws = {})
<1>1. PICK stage \in AskingStages : stage = c.stage
  OBVIOUS
<1>2. x = AfterAsking(c, Of(stage), Len(Of(stage)))
  BY <1>1, AskedInOrder, Zenon
<1>3. Len(Of(stage)) \in 0 .. Len(Of(stage))
  BY AgentsOfStages
<1> QED
  BY <1>2, <1>3, StageKeeps

LEMMA SoundAsk ==
  ASSUME NEW c, Shaped(c), c.mode = "LIVE_EVAL", c.status = "RUNNING", c.stage \in AskingStages,
         \A a \in Members(c) : c.route[a] = 0 /\ c.said[a] = Nothing, NEW kept, Sound(c, kept)
  PROVE  Sound(GoesOn(AllAsk(c, Of(c.stage))), kept)
<1>1. PICK x : x = AllAsk(c, Of(c.stage))
  OBVIOUS
<1>2. Shaped(x) /\ Alike(x, c) /\ (x.flaws = {} => c.flaws = {})
  BY <1>1, AllAskKeeps
<1>3. PICK y : y = GoesOn(x)
  OBVIOUS
<1>4. y.flaws = x.flaws
  BY <1>2, <1>3, GoesOnKeeps
<1>5. ASSUME y.flaws = {} PROVE Waits(y, kept)
  <2>1. HasFields(c) /\ c.flaws = {} /\ x.flaws = {}
    BY <1>2, <1>4, <1>5 DEF Shaped
  <2>2. ~Waits(c, kept)
    <3>1. SUFFICES ASSUME NEW R, NEW b, NEW w, Tale(R, b, kept), b.stage \in AskingStages, w \in Partial(b),
                          Plain(c) = Filled(b, w), NEW a \in Members(b)
                   PROVE FALSE
      BY DEF Waits
    <3>2. Members(c) = Members(b) /\ \A m \in Agents : c.route[m] = IF m \in Members(b) THEN 1 ELSE b.route[m]
      BY <2>1, <3>1, WaitsAtStage, TaleRests
    <3>3. a \in Agents
      BY <3>1, FirstOfStage DEF Members
    <3> QED
      BY <3>1, <3>2, <3>3
  <2>3. PICK R : Tale(R, Plain(c), kept)
    BY <2>1, <2>2 DEF Sound, Rested
  <2>4. PICK b : b = Plain(c)
    OBVIOUS
  <2>5. Rests(b) /\ Ready(c, c.stage)
    BY <2>3, <2>4, TaleRests, PlainReady
  <2>6. x = Filled(c, Silence) /\ HasRoom(c)
    BY <1>1, <2>1, <2>5, AskedLive
  <2>7. Plain(x) = Filled(b, Silence)
    BY <2>4, <2>6, FilledPlain
  <2>8. b.stage = c.stage /\ b.status = c.status /\ b.spent = c.spent /\ b.limit = c.limit
    BY <2>1, <2>4, PlainFields
  <2>9. HasRoom(b) /\ Members(b) = Members(c) /\ b.stage \in AskingStages
    BY <2>6, <2>8 DEF HasRoom, Members
  <2>10. PICK a : a \in Members(b) /\ a \in Agents
    <3>1. 1 \in DOMAIN Of(b.stage) /\ Of(b.stage)[1] \in Agents
      BY <2>9, AgentsOfStages
    <3> QED
      BY <3>1 DEF Members, Range
  <2>11. Silence \in Partial(b) /\ Silence[a] = Nothing /\ AreKept(b, Silence, kept)
    <3>1. \A m \in Members(b) : m \in Agents
      BY <2>9, FirstOfStage DEF Members
    <3> QED
      BY <2>10, <3>1 DEF Silence, Partial, AreKept
  <2>12. y = x
    <3>1. x.stage = b.stage /\ x.said[a] = Nothing
      BY <2>1, <1>2, <2>5, <2>7, <2>9, <2>10, <2>11, WaitsAtStage DEF Shaped
    <3>2. \E m \in Members(x) : x.said[m] = Nothing
      BY <2>10, <3>1 DEF Members
    <3> QED
      BY <1>3, <3>2, GoesOnCases
  <2>13. y.status = "RUNNING" /\ b.status = "RUNNING"
    BY <1>2, <2>8, <2>12 DEF Alike
  <2> QED
    BY <2>3, <2>4, <2>7, <2>9, <2>10, <2>11, <2>12, <2>13 DEF Waits
<1> QED
  BY <1>1, <1>3, <1>5 DEF Sound

\* An answer becomes part of the campaign, and of what it kept.
PutIn(c, key) == [c EXCEPT !.put = @ \cup {key}, !.flaws = IF key \in c.put THEN @ \cup {"twice"} ELSE @]

HasPut(x, c, key) ==
  /\ x.mode = c.mode /\ x.agenda = c.agenda /\ x.limit = c.limit /\ x.status = c.status
  /\ x.period = c.period /\ x.opportunity = c.opportunity /\ x.trades = c.trades /\ x.stage = c.stage
  /\ x.route = c.route /\ x.said = c.said /\ x.spent = c.spent /\ x.results = c.results
  /\ x.put = c.put \cup {key} /\ x.flaws = IF key \in c.put THEN c.flaws \cup {"twice"} ELSE c.flaws

LEMMA PutFields ==
  ASSUME NEW c, Shaped(c), NEW key, NEW x, x = PutIn(c, key)
  PROVE  Shaped(x) /\ HasPut(x, c, key)
<1> DEFINE put == c.put \cup {key}
           flaws == IF key \in c.put THEN c.flaws \cup {"twice"} ELSE c.flaws
<1>1. x = [c EXCEPT !.put = put, !.flaws = flaws]
  BY DEF PutIn
<1> HIDE DEF put, flaws
<1>3. x = [mode |-> c.mode, agenda |-> c.agenda, limit |-> c.limit, status |-> c.status,
           period |-> c.period, opportunity |-> c.opportunity, trades |-> c.trades, stage |-> c.stage,
           route |-> c.route, said |-> c.said, spent |-> c.spent, results |-> c.results,
           put |-> put, flaws |-> flaws]
  BY <1>1, Zenon DEF Shaped, HasFields
<1>4. /\ x.mode = c.mode /\ x.agenda = c.agenda /\ x.limit = c.limit /\ x.status = c.status
      /\ x.period = c.period /\ x.opportunity = c.opportunity /\ x.trades = c.trades /\ x.stage = c.stage
      /\ x.route = c.route /\ x.said = c.said /\ x.spent = c.spent /\ x.results = c.results
      /\ x.put = put /\ x.flaws = flaws
  BY <1>3
<1>5. HasFields(x)
  BY <1>3 DEF HasFields
<1>6. Shaped(x)
  BY <1>4, <1>5 DEF Shaped
<1> QED
  BY <1>4, <1>6 DEF put, flaws, HasPut

\* The agent that answers is one the stage still waits for, and the key of its request
\* is the one it has in a campaign at rest.
LEMMA AnswersKey ==
  ASSUME NEW c, HasFields(c), NEW b, Rests(b), b.stage \in AskingStages, NEW w \in Partial(b), Plain(c) = Filled(b, w),
         NEW agent \in Waiting(c)
  PROVE  agent \in Members(b) /\ w[agent] = Nothing /\ c.route[agent] = 1 /\ Key(c, agent, 1) = Key(b, agent, 1)
<1>1. /\ c.stage = b.stage /\ c.agenda = b.agenda /\ c.limit = b.limit /\ c.period = b.period
      /\ c.opportunity = b.opportunity /\ c.trades = b.trades
      /\ c.spent = b.spent + Paid(w, Members(b))
      /\ \A a \in Agents : /\ c.route[a] = (IF a \in Members(b) THEN 1 ELSE b.route[a])
                           /\ c.said[a] = (IF a \in Members(b) THEN w[a] ELSE b.said[a])
  BY WaitsAtStage
<1>2. agent \in Agents /\ c.route[agent] # 0 /\ c.said[agent] = Nothing
  BY DEF Waiting
<1>3. agent \in Members(b) /\ w[agent] = Nothing /\ c.route[agent] = 1
  BY <1>1, <1>2, NoneWaits
<1>4. Settled(b.stage) \subseteq Agents /\ Members(b) \cap Settled(b.stage) = {}
  BY FirstOfStage DEF Settled, Members, Agents, Core, AskingStages
<1>5. \A a \in Settled(b.stage) : c.said[a] = b.said[a]
  BY <1>1, <1>4
<1>6. ASSUME b.stage = "plan" PROVE c.spent = b.spent
  <2>1. Members(b) = {"plan"}
    BY <1>6 DEF Members, Of, Range
  <2>2. \A a \in Agents : w[a] = Nothing
    BY <1>3, <2>1 DEF Partial
  <2>3. First(b.stage, Len(Of(b.stage))) = Members(b) /\ Len(Of(b.stage)) \in 0 .. Len(Of(b.stage))
    BY FirstOfStage, AgentsOfStages DEF Members
  <2>4. w \in [Agents -> Replies \cup {Nothing}] /\ \A a \in Agents : w[a] # Nothing => w[a] \in replies[a]
    BY DEF Partial
  <2>5. Paid(w, First(b.stage, Len(Of(b.stage)))) = 0
    BY <2>2, <2>3, <2>4, PaidSoFar
  <2>6. b.spent \in Nat
    BY RestsReady
  <2> QED
    BY <1>1, <2>3, <2>5, <2>6
<1>7. Key(c, agent, 1) = Key(b, agent, 1)
  <2>1. agent \in Range(Of(b.stage))
    BY <1>3 DEF Members
  <2> QED
    BY <1>1, <1>5, <1>6, <2>1, KeyStays
<1> QED
  BY <1>3, <1>7

With(w, agent, reply) == [w EXCEPT ![agent] = reply]

LEMMA OneMoreAnswer ==
  ASSUME NEW c, Shaped(c), c.mode = "LIVE_EVAL", NEW b, Rests(b), b.stage \in AskingStages, NEW w \in Partial(b),
         Plain(c) = Filled(b, w), NEW agent \in Waiting(c), NEW reply \in replies[agent], NEW key,
         NEW x, x = PutIn(ReplyTaken(c, agent, reply), key), NEW v, v = With(w, agent, reply)
  PROVE  v \in Partial(b) /\ Plain(x) = Filled(b, v) /\ x.status = c.status /\ x.results = c.results
<1>1. HasFields(c)
  BY DEF Shaped
<1>2. agent \in Members(b) /\ w[agent] = Nothing
  BY <1>1, AnswersKey
<1>3. agent \in Agents /\ Members(b) \in SUBSET Agents
  BY <1>2, FirstOfStage DEF Members
<1>4. /\ c.stage = b.stage /\ c.agenda = b.agenda /\ c.limit = b.limit /\ c.period = b.period
      /\ c.opportunity = b.opportunity /\ c.trades = b.trades /\ c.results = b.results /\ c.status = b.status
      /\ c.spent = b.spent + Paid(w, Members(b))
      /\ \A a \in Agents : /\ c.route[a] = (IF a \in Members(b) THEN 1 ELSE b.route[a])
                           /\ c.said[a] = (IF a \in Members(b) THEN w[a] ELSE b.said[a])
  BY <1>1, WaitsAtStage
<1>5. PICK y : y = ReplyTaken(c, agent, reply)
  OBVIOUS
<1>6. /\ Shaped(y) /\ Alike(y, c) /\ y.flaws = c.flaws /\ y.route = c.route
      /\ y.spent = c.spent + reply.cost /\ y.said = [c.said EXCEPT ![agent] = reply]
  BY <1>3, <1>5, TakenFields
<1>7. x = PutIn(y, key)
  BY <1>5
<1>8. /\ Shaped(x) /\ x.mode = y.mode /\ x.agenda = y.agenda /\ x.limit = y.limit /\ x.status = y.status
      /\ x.period = y.period /\ x.opportunity = y.opportunity /\ x.trades = y.trades /\ x.stage = y.stage
      /\ x.route = y.route /\ x.said = y.said /\ x.spent = y.spent /\ x.results = y.results
  <2>1. Shaped(y)
    BY <1>6
  <2>2. Shaped(x) /\ HasPut(x, y, key)
    BY <1>7, <2>1, PutFields
  <2> QED
    BY <2>2 DEF HasPut
<1>10. reply # Nothing /\ reply.cost \in Nat /\ reply \in Replies
  BY <1>3, Estimates DEF Replies
<1>11. /\ w \in [Agents -> Replies \cup {Nothing}]
       /\ \A a \in Agents : w[a] # Nothing => a \in Members(b) /\ w[a] \in replies[a]
  BY DEF Partial
<1>12. /\ v \in [Agents -> Replies \cup {Nothing}] /\ v[agent] = reply
       /\ \A a \in Agents \ {agent} : v[a] = w[a]
  BY <1>3, <1>10, <1>11 DEF With
<1>13. v \in Partial(b)
  BY <1>2, <1>11, <1>12 DEF Partial
<1>14. Paid(v, Members(b)) = Paid(w, Members(b)) + reply.cost /\ Paid(w, Members(b)) \in Int
  BY <1>2, <1>3, <1>11, PaidOneMore DEF With
<1>15. PICK z : z = Filled(b, v)
  OBVIOUS
<1>16. /\ Shaped(z) /\ Alike(z, b) /\ z.flaws = {} /\ z.spent = b.spent + Paid(v, Members(b))
       /\ \A a \in Agents : /\ z.route[a] = (IF a \in Members(b) THEN 1 ELSE b.route[a])
                            /\ z.said[a] = (IF a \in Members(b) THEN v[a] ELSE b.said[a])
  BY <1>13, <1>15, FilledFields
<1>17. z.spent = x.spent
  <2>1. b.spent \in Nat
    BY RestsReady
  <2> QED
    BY <1>4, <1>6, <1>8, <1>10, <1>14, <1>16, <2>1
<1>18. z.route = x.route /\ z.said = x.said
  <2>1. \A a \in Agents : y.said[a] = IF a = agent THEN reply ELSE c.said[a]
    BY <1>6 DEF Shaped
  <2>2. \A a \in Agents : z.route[a] = x.route[a] /\ z.said[a] = x.said[a]
    BY <1>2, <1>4, <1>6, <1>8, <1>12, <1>16, <2>1
  <2>3. /\ x.route = [a \in Agents |-> x.route[a]] /\ x.said = [a \in Agents |-> x.said[a]]
        /\ z.route = [a \in Agents |-> z.route[a]] /\ z.said = [a \in Agents |-> z.said[a]]
    BY <1>8, <1>16 DEF Shaped
  <2> QED
    BY <2>2, <2>3
<1>19. z = Plain(x)
  <2>1. b.mode = "LIVE_EVAL" /\ b.put = {}
    BY CampaignFields DEF Rests
  <2>2. /\ HasFields(x) /\ HasFields(z) /\ z.mode = "LIVE_EVAL" /\ z.put = {} /\ z.flaws = {}
        /\ z.agenda = x.agenda /\ z.limit = x.limit /\ z.status = x.status /\ z.period = x.period
        /\ z.opportunity = x.opportunity /\ z.trades = x.trades /\ z.stage = x.stage /\ z.results = x.results
    BY <1>4, <1>6, <1>8, <1>16, <2>1 DEF Alike, Shaped
  <2> QED
    BY <1>17, <1>18, <2>2, PlainIs
<1>20. x.status = c.status /\ x.results = c.results
  BY <1>6, <1>8 DEF Alike
<1> QED
  BY <1>13, <1>15, <1>19, <1>20

Gains(more, kept, c, key, reply) ==
  /\ DOMAIN kept = c.put /\ DOMAIN more = c.put \cup {key} /\ more[key] = reply
  /\ \A k \in c.put \ {key} : more[k] = kept[k]
HasKey(x, c, key) ==
  /\ x.mode = c.mode /\ x.agenda = c.agenda /\ x.limit = c.limit
  /\ x.flaws = IF key \in c.put THEN c.flaws \cup {"twice"} ELSE c.flaws

LEMMA SoundAnswer ==
  ASSUME NEW c, Shaped(c), c.mode = "LIVE_EVAL", c.status = "RUNNING", NEW kept, Sound(c, kept),
         NEW agent \in Waiting(c), NEW reply \in replies[agent], NEW key, key = Key(c, agent, c.route[agent]),
         NEW more, Gains(more, kept, c, key, reply),
         NEW x, x = PutIn(ReplyTaken(c, agent, reply), key), Shaped(x), HasKey(x, c, key)
  PROVE  Sound(GoesOn(x), more)
<1>0. /\ DOMAIN kept = c.put /\ DOMAIN more = c.put \cup {key} /\ more[key] = reply
      /\ \A k \in c.put \ {key} : more[k] = kept[k]
      /\ x.mode = c.mode /\ x.agenda = c.agenda /\ x.limit = c.limit
      /\ x.flaws = (IF key \in c.put THEN c.flaws \cup {"twice"} ELSE c.flaws)
  BY DEF Gains, HasKey
<1>1. PICK y : y = GoesOn(x)
  OBVIOUS
<1>2. Shaped(y) /\ y.mode = x.mode /\ y.agenda = x.agenda /\ y.limit = x.limit /\ y.flaws = x.flaws
  BY <1>1, GoesOnKeeps
<1>3. ASSUME y.flaws = {} PROVE Rested(y, more) \/ Waits(y, more)
  <2>1. key \notin c.put /\ c.flaws = {} /\ HasFields(c)
    BY <1>0, <1>2, <1>3 DEF Shaped
  <2>2. agent \in Agents /\ c.route[agent] # 0 /\ c.said[agent] = Nothing
    BY DEF Waiting
  <2>3. ~Rested(c, kept)
    <3>1. SUFFICES ASSUME NEW b, b = Plain(c), Rests(b) PROVE FALSE
      BY TaleRests DEF Rested
    <3>2. b.route = c.route /\ b.said = c.said
      BY <2>1, <3>1, PlainFields
    <3> QED
      BY <2>2, <3>1, <3>2, NoneWaits
  <2>4. Waits(c, kept)
    BY <2>1, <2>3 DEF Sound
  <2>5. PICK R, b, w : /\ Tale(R, b, kept) /\ b.status = "RUNNING" /\ b.stage \in AskingStages /\ HasRoom(b)
                       /\ w \in Partial(b) /\ AreKept(b, w, kept) /\ Plain(c) = Filled(b, w)
    BY <2>4 DEF Waits
  <2>6. Rests(b)
    BY <2>5, TaleRests
  <2>7. agent \in Members(b) /\ w[agent] = Nothing /\ key = Key(b, agent, 1)
    BY <2>1, <2>5, <2>6, AnswersKey
  <2>8. PICK v : v = With(w, agent, reply)
    OBVIOUS
  <2>9. /\ v \in Partial(b) /\ Plain(x) = Filled(b, v)
        /\ x.status = c.status /\ x.results = c.results
    BY <2>5, <2>6, <2>8, OneMoreAnswer, SMTT(40)
  <2>10. v[agent] = reply /\ \A a \in Agents \ {agent} : v[a] = w[a]
    BY <2>2, <2>5, <2>8 DEF Partial, With
  <2>11. Members(b) \subseteq Agents
    BY <2>5, FirstOfStage DEF Members
  <2>12. AreKept(b, v, more)
    <3>1. SUFFICES ASSUME NEW a \in Members(b), v[a] # Nothing
                   PROVE  Key(b, a, 1) \in DOMAIN more /\ more[Key(b, a, 1)] = v[a]
      BY DEF AreKept
    <3>2. CASE a = agent
      BY <1>0, <2>7, <2>10, <3>2
    <3>3. CASE a # agent
      <4>1. v[a] = w[a]
        BY <2>10, <2>11, <3>3
      <4>2. Key(b, a, 1) \in c.put /\ kept[Key(b, a, 1)] = w[a]
        BY <1>0, <2>5, <3>1, <4>1 DEF AreKept
      <4> QED
        BY <1>0, <2>1, <4>1, <4>2
    <3> QED
      BY <3>2, <3>3
  <2>13. Extends(more, kept)
    BY <1>0, <2>1 DEF Extends
  <2>14. Tale(R, b, more)
    BY <2>5, <2>13, TaleKeeps
  <2>15. PICK z : z = Filled(b, v)
    OBVIOUS
  <2>16. /\ c.stage = b.stage /\ c.agenda = b.agenda /\ c.limit = b.limit /\ c.results = b.results
    BY <2>1, <2>5, <2>6, WaitsAtStage
  <2>17. x.stage = z.stage /\ x.route = z.route /\ x.said = z.said /\ z.stage = b.stage /\ Members(x) = Members(b)
    <3>1. x.stage = z.stage /\ x.route = z.route /\ x.said = z.said
      <4>1. HasFields(x) /\ z = Plain(x)
        BY <2>9, <2>15 DEF Shaped
      <4> QED
        BY <4>1, PlainFields
    <3>2. z.stage = b.stage
      BY <2>5, <2>6, <2>9, <2>15, FilledCounts
    <3> QED
      BY <3>1, <3>2 DEF Members
  <2>18. CASE \E a \in Members(b) : v[a] = Nothing
    <3>1. PICK a \in Members(b) : v[a] = Nothing
      BY <2>18
    <3>2. x.said[a] = Nothing
      <4>1. x.said[a] = IF a \in Members(b) THEN v[a] ELSE b.said[a]
        BY <2>5, <2>6, <2>9, <2>11, <3>1, WaitsAtStage DEF Shaped
      <4> QED
        BY <3>1, <4>1
    <3>3. y = x
      BY <1>1, <2>17, <3>1, <3>2, GoesOnCases
    <3>4. x.status = "RUNNING"
      BY <2>9
    <3> QED
      BY <2>5, <2>9, <2>12, <2>14, <3>1, <3>3, <3>4 DEF Waits
  <2>19. CASE \A a \in Members(b) : v[a] # Nothing
    <3>1. Counts(z) /\ Answered(z)
      BY <2>5, <2>6, <2>9, <2>15, <2>19, FilledCounts
    <3>2. Counts(x)
      BY <1>0, <2>9, <2>15, <3>1, PlainCounts DEF Shaped
    <3>3. Answered(x) /\ x.stage \in AskingStages
      BY <2>5, <2>17, <3>1 DEF Answered, Members
    <3>4. Plain(y) = GoesOn(z) /\ Rests(Plain(y)) /\ Continues(x.results, y.results)
      BY <1>1, <2>9, <2>15, <3>2, <3>3, GoesOnRests
    <3>5. PICK p : p = Plain(y)
      OBVIOUS
    <3>6. p.agenda = b.agenda /\ p.limit = b.limit /\ p.results = y.results /\ x.results = b.results
      <4>1. HasFields(y) /\ y.agenda = b.agenda /\ y.limit = b.limit /\ x.results = b.results
        BY <1>0, <1>2, <2>9, <2>16 DEF Shaped
      <4> QED
        BY <3>5, <4>1, PlainFields
    <3>7. Leads(b, p, more)
      <4>1. b.stage # "gate"
        BY <2>5 DEF AskingStages
      <4> QED
        BY <2>5, <2>9, <2>12, <2>15, <2>19, <3>4, <3>5, <4>1 DEF Leads
    <3>8. Tale(R \cup {p}, p, more)
      BY <2>14, <3>4, <3>5, <3>6, <3>7, TaleGrows
    <3> QED
      BY <3>5, <3>8 DEF Rested
  <2> QED
    BY <2>18, <2>19
<1> QED
  BY <1>1, <1>3 DEF Sound

---------------------------------------------------------------------------
(* A CACHED campaign goes the same way.                                      *)

LEMMA RepeatGate ==
  ASSUME NEW R, NEW e, NEW kept, Tale(R, e, kept), e.status # "RUNNING",
         NEW c, Shaped(c), c.mode = "CACHED", c.status = "RUNNING", c.stage = "gate", Plain(c) \in R
  PROVE  Plain(AfterGate(c)) \in R
<1>1. HasFields(c)
  BY DEF Shaped
<1>2. PICK b : b = Plain(c)
  OBVIOUS
<1>3. b.status = "RUNNING" /\ b.stage = "gate"
  BY <1>1, <1>2, PlainFields
<1>4. PICK d \in R : Leads(b, d, kept)
  BY <1>2, <1>3 DEF Tale
<1>5. d = AfterGate(b)
  BY <1>3, <1>4 DEF Leads
<1>6. Rests(b)
  BY <1>2, TaleRests
<1>7. Plain(AfterGate(c)) = d
  BY <1>1, <1>2, <1>5, <1>6, AfterGateRests
<1> QED
  BY <1>7

LEMMA RepeatAsk ==
  ASSUME NEW R, NEW e, NEW kept, Tale(R, e, kept), e.status # "RUNNING", Extends(cache, kept),
         NEW c, Shaped(c), c.mode = "CACHED", c.status = "RUNNING", c.stage \in AskingStages, Plain(c) \in R
  PROVE  Plain(GoesOn(AllAsk(c, Of(c.stage)))) \in R
<1>1. HasFields(c)
  BY DEF Shaped
<1>2. PICK b : b = Plain(c)
  OBVIOUS
<1>3. /\ b.agenda = c.agenda /\ b.limit = c.limit /\ b.status = c.status /\ b.period = c.period
      /\ b.opportunity = c.opportunity /\ b.trades = c.trades /\ b.stage = c.stage
      /\ b.said = c.said /\ b.spent = c.spent
  BY <1>1, <1>2, PlainFields
<1>4. PICK d \in R : Leads(b, d, kept)
  BY <1>2, <1>3 DEF Tale
<1>5. Rests(b) /\ Rests(Plain(c))
  BY <1>2, TaleRests
<1>6. b.stage \in AskingStages /\ b.stage # "gate" /\ Members(b) = Members(c)
  BY <1>3 DEF AskingStages, Members
<1>7. PICK w \in Partial(b) : /\ HasRoom(b) /\ \A a \in Members(b) : w[a] # Nothing
                              /\ AreKept(b, w, kept) /\ d = GoesOn(Filled(b, w))
  BY <1>4, <1>6 DEF Leads
<1>8. Told(c, c.stage, w)
  <2>1. Ready(c, c.stage)
    BY <1>5, PlainReady
  <2>2. HasRoom(c)
    BY <1>3, <1>7 DEF HasRoom
  <2>3. w \in [Agents -> Replies \cup {Nothing}] /\ \A a \in Agents : w[a] # Nothing => w[a] \in replies[a]
    BY DEF Partial
  <2>4. \A a \in Range(Of(c.stage)) : w[a] # Nothing
    BY <1>6, <1>7 DEF Members
  <2>5. ASSUME NEW a \in Members(c) PROVE Key(c, a, 1) = Key(b, a, 1)
    <3>1. PICK stage \in AskingStages : stage = c.stage
      OBVIOUS
    <3>2. a \in Range(Of(stage))
      BY <3>1 DEF Members
    <3>3. /\ c.limit = b.limit /\ c.agenda = b.agenda /\ c.period = b.period /\ c.opportunity = b.opportunity
          /\ c.trades = b.trades /\ (\A m \in Settled(stage) : c.said[m] = b.said[m])
          /\ (stage = "plan" => c.spent = b.spent)
      BY <1>3
    <3> QED
      BY <3>1, <3>2, <3>3, KeyStays
  <2>6. AreKept(c, w, cache)
    BY <1>6, <1>7, <2>5 DEF AreKept, Extends
  <2> QED
    BY <2>1, <2>2, <2>3, <2>4, <2>6 DEF Told
<1>9. PICK x : x = AllAsk(c, Of(c.stage))
  OBVIOUS
<1>10. x = Filled(c, w)
  BY <1>8, <1>9, AskedCached
<1>11. PICK z : z = Filled(b, w)
  OBVIOUS
<1>12. Plain(x) = z /\ Shaped(x)
  BY <1>2, <1>10, <1>11, FilledPlain
<1>13. Counts(z) /\ Answered(z) /\ z.stage = b.stage
  BY <1>3, <1>5, <1>6, <1>7, <1>11, FilledCounts
<1>14. x.stage = z.stage /\ x.route = z.route /\ x.said = z.said
  BY <1>12, PlainFields DEF Shaped
<1>15. Answered(x) /\ x.stage \in AskingStages
  BY <1>6, <1>13, <1>14 DEF Answered, Members
<1>16. x.mode = "CACHED"
  BY <1>9, AllAskKeeps DEF Alike
<1>17. Counts(x)
  BY <1>12, <1>13, <1>16, PlainCounts DEF Shaped
<1>18. Plain(GoesOn(x)) = GoesOn(z)
  BY <1>12, <1>15, <1>17, GoesOnRests
<1> QED
  BY <1>7, <1>9, <1>11, <1>18

---------------------------------------------------------------------------
(* The invariant.                                                           *)

\* What a campaign kept is in the cache, under its own limit, and no campaign
\* under way would take the place of what the last complete one kept.
CacheBase ==
  /\ Shaped(campaign) /\ Shaped(lived) /\ campaign.mode \in {"NONE", "LIVE_EVAL", "CACHED"}
  /\ campaign.put \subseteq DOMAIN cache /\ \A k \in campaign.put : k.limit = campaign.limit
  /\ lived.put \subseteq DOMAIN cache /\ \A k \in lived.put : k.limit = lived.limit
  /\ lived.status \in {"NONE", "COMPLETED"}
  /\ lived.status = "COMPLETED" /\ campaign.mode = "LIVE_EVAL" /\ campaign.status = "RUNNING" =>
       lived.limit # campaign.limit

\* A CACHED campaign is in a state that the one it repeats went through.
Follows(c, R, e) ==
  \/ c.status \in {"RUNNING", "COMPLETED"} /\ Plain(c) \in R
  \/ c.status = "CANCELLED" /\ Continues(c.results, e.results)

LivedIsTold ==
  lived.status = "COMPLETED" /\ lived.flaws = {} =>
    \E R : /\ Tale(R, Plain(lived), KeptBy(lived, cache))
           /\ campaign.mode = "CACHED" /\ campaign.agenda = lived.agenda /\ campaign.limit = lived.limit =>
                Follows(campaign, R, lived)

CacheInv == CacheBase /\ Sound(campaign, KeptBy(campaign, cache)) /\ LivedIsTold

LEMMA PlainStatus ==
  ASSUME NEW c, Shaped(c)
  PROVE  /\ Plain(c).status = c.status /\ Plain(c).results = c.results /\ Plain(c).agenda = c.agenda
         /\ Plain(c).limit = c.limit /\ Plain(c).spent = c.spent
BY PlainFields DEF Shaped

\* A clean campaign that is over is repeated by one that follows it.
LEMMA FollowedIsRepeated ==
  ASSUME CacheInv PROVE CleanRunReplays
<1>1. SUFFICES ASSUME ReplaysLived, lived.flaws = {} PROVE Repeats
  BY DEF CleanRunReplays
<1>2. Shaped(campaign) /\ Shaped(lived)
  BY DEF CacheInv, CacheBase
<1>3. PICK R : Tale(R, Plain(lived), KeptBy(lived, cache)) /\ Follows(campaign, R, lived)
  BY <1>1 DEF CacheInv, LivedIsTold, ReplaysLived
<1>4. PICK e : e = Plain(lived)
  OBVIOUS
<1>5. e.status = "COMPLETED" /\ e.results = lived.results /\ e.spent = lived.spent
  BY <1>1, <1>2, <1>4, PlainStatus DEF ReplaysLived
<1>6. PICK b : b = Plain(campaign)
  OBVIOUS
<1>7. b.status = campaign.status /\ b.results = campaign.results /\ b.spent = campaign.spent
  BY <1>2, <1>6, PlainStatus
<1>8. Continues(campaign.results, lived.results) /\ campaign.status # "FAILED"
  BY <1>3, <1>4, <1>5, <1>6, <1>7 DEF Follows, Tale
<1>9. ASSUME campaign.status = "COMPLETED" PROVE b = e
  BY <1>3, <1>4, <1>6, <1>7, <1>9 DEF Follows, Tale, Leads
<1>10. IsPrefix(campaign.results, lived.results)
  <2> QED
    BY <1>8 DEF Continues, IsPrefix
<1> QED
  BY <1>5, <1>7, <1>8, <1>9, <1>10 DEF Repeats

---------------------------------------------------------------------------
(* Every step keeps the invariant.                                          *)

IsOpened(c, mode, agenda, limit) ==
  /\ c.mode = mode /\ c.agenda = agenda /\ c.limit = limit /\ c.status = "RUNNING"
  /\ c.period = 1 /\ c.opportunity = 1 /\ c.trades = 0 /\ c.stage = "gate" /\ c.route = Untold
  /\ c.said = Silence /\ c.spent = 0 /\ c.results = <<>> /\ c.put = {} /\ c.flaws = {}

LEMMA OpenedFields ==
  ASSUME NEW mode, NEW agenda, NEW limit, NEW c, c = Opened(mode, agenda, limit)
  PROVE  Shaped(c) /\ IsOpened(c, mode, agenda, limit)
<1>1. c = [mode |-> mode, agenda |-> agenda, limit |-> limit, status |-> "RUNNING",
           period |-> 1, opportunity |-> 1, trades |-> 0, stage |-> "gate",
           route |-> Untold, said |-> Silence,
           spent |-> 0, results |-> <<>>, put |-> {}, flaws |-> {}]
  BY DEF Opened, NoCampaign, Untold, Silence
<1>2. IsOpened(c, mode, agenda, limit)
  BY <1>1 DEF IsOpened
<1>3. HasFields(c)
  BY <1>1 DEF HasFields
<1> QED
  BY <1>2, <1>3 DEF Shaped, IsOpened, Untold, Silence

LEMMA NoCampaignFields ==
  Shaped(NoCampaign) /\ NoCampaign.mode = "NONE" /\ NoCampaign.status = "NONE" /\ NoCampaign.put = {}
BY DEF NoCampaign, Shaped, HasFields

LEMMA BegunRests ==
  ASSUME NEW agenda \in Agendas, NEW limit \in Limits
  PROVE  Rests(Launched(agenda, limit))
<1>1. PICK b : b = Launched(agenda, limit)
  OBVIOUS
<1>2. Shaped(b) /\ IsOpened(b, "LIVE_EVAL", agenda, limit)
  BY <1>1, OpenedFields DEF Launched
<1>3. /\ b.mode = "LIVE_EVAL" /\ b.agenda = agenda /\ b.limit = limit /\ b.status = "RUNNING"
      /\ b.period = 1 /\ b.opportunity = 1 /\ b.trades = 0 /\ b.stage = "gate" /\ b.route = Untold
      /\ b.said = Silence /\ b.spent = 0 /\ b.results = <<>> /\ b.put = {} /\ b.flaws = {}
  BY <1>2 DEF IsOpened
<1>4. b \in CleanCampaigns
  <2>1. b.stage \in Stages /\ b.results \in Seq(Results)
    BY <1>3 DEF Stages
  <2>2. b.route \in [Agents -> {0, 1}] /\ b.said \in [Agents -> Replies \cup {Nothing}]
    BY <1>3 DEF Untold, Silence
  <2>3. HasFields(b)
    BY <1>2 DEF Shaped
  <2>4. /\ b.mode = "LIVE_EVAL" /\ b.agenda \in Agendas /\ b.limit \in Limits
        /\ b.status \in {"RUNNING", "COMPLETED"} /\ b.period \in Nat /\ b.opportunity \in Nat \ {0}
        /\ b.trades \in Nat /\ b.spent \in Nat /\ b.put = {} /\ b.flaws = {}
    BY <1>3
  <2> QED
    BY <2>1, <2>2, <2>3, <2>4, CampaignFields
<1>5. \A a \in Agents : b.route[a] = 0 /\ b.said[a] = Nothing
  BY <1>3 DEF Untold, Silence
<1>6. Settled(b.stage) = {} /\ b.opportunity <= Len(b.results) + 1
  BY <1>3 DEF Settled
<1> QED
  BY <1>1, <1>3, <1>4, <1>5, <1>6 DEF Rests

LEMMA BaseMoves ==
  ASSUME CacheBase, campaign.status = "RUNNING", NEW x, Shaped(x), x.mode = campaign.mode, x.limit = campaign.limit,
         GoesTo(x), DOMAIN cache \subseteq DOMAIN cache', x.put \subseteq DOMAIN cache', \A k \in x.put : k.limit = x.limit
  PROVE  CacheBase'
<1>1. campaign' = x /\ ((lived' = x /\ x.status = "COMPLETED") \/ lived' = lived)
  BY DEF GoesTo
<1>2. x.mode \in {"NONE", "LIVE_EVAL", "CACHED"}
  BY DEF CacheBase
<1>3. CASE lived' = x /\ x.status = "COMPLETED"
  BY <1>1, <1>2, <1>3 DEF CacheBase
<1>4. CASE lived' = lived
  <2>1. /\ Shaped(lived) /\ lived.put \subseteq DOMAIN cache' /\ (\A k \in lived.put : k.limit = lived.limit)
        /\ lived.status \in {"NONE", "COMPLETED"}
    BY DEF CacheBase
  <2>2. lived.status = "COMPLETED" /\ x.mode = "LIVE_EVAL" /\ x.status = "RUNNING" => lived.limit # x.limit
    BY DEF CacheBase
  <2> QED
    BY <1>1, <1>2, <1>4, <2>1, <2>2 DEF CacheBase
<1> QED
  BY <1>1, <1>3, <1>4

LEMMA SoundMoves ==
  ASSUME CacheInv, campaign.mode = "LIVE_EVAL", NEW x, x.mode = "LIVE_EVAL",
         GoesTo(x), Sound(x, KeptBy(x, cache')), lived.status = "COMPLETED" => \A k \in lived.put : cache'[k] = cache[k]
  PROVE  Sound(campaign, KeptBy(campaign, cache))' /\ LivedIsTold'
<1>1. campaign' = x /\ lived' = IF x.status = "COMPLETED" THEN x ELSE lived
  BY DEF GoesTo
<1>2. Sound(campaign, KeptBy(campaign, cache))'
  BY <1>1
<1>3. CASE x.status = "COMPLETED"
  <2>1. SUFFICES ASSUME x.flaws = {} PROVE \E R : Tale(R, Plain(x), KeptBy(x, cache'))
    BY <1>1, <1>3 DEF LivedIsTold
  <2>2. Rested(x, KeptBy(x, cache'))
    BY <1>3, <2>1 DEF Sound, Waits
  <2> QED
    BY <2>2 DEF Rested
<1>4. CASE x.status # "COMPLETED"
  <2>1. SUFFICES ASSUME lived.status = "COMPLETED", lived.flaws = {}
                 PROVE  \E R : Tale(R, Plain(lived), KeptBy(lived, cache'))
    BY <1>1, <1>4 DEF LivedIsTold
  <2>2. KeptBy(lived, cache') = KeptBy(lived, cache)
    BY <2>1 DEF KeptBy
  <2> QED
    BY <2>1, <2>2 DEF CacheInv, LivedIsTold
<1> QED
  BY <1>2, <1>3, <1>4

LEMMA FollowMoves ==
  ASSUME CacheInv, campaign.mode = "CACHED", NEW x, x.mode = "CACHED", x.agenda = campaign.agenda, x.limit = campaign.limit,
         GoesTo(x), UNCHANGED cache,
         \A R : Tale(R, Plain(lived), KeptBy(lived, cache)) /\ lived.status = "COMPLETED" /\ Follows(campaign, R, lived)
                  => Follows(x, R, lived)
  PROVE  Sound(campaign, KeptBy(campaign, cache))' /\ LivedIsTold'
<1>1. campaign' = x /\ lived' = lived
  BY DEF GoesTo
<1>2. Sound(campaign, KeptBy(campaign, cache))'
  BY <1>1 DEF Sound
<1>3. SUFFICES ASSUME lived.status = "COMPLETED", lived.flaws = {}
               PROVE  \E R : /\ Tale(R, Plain(lived), KeptBy(lived, cache))
                             /\ x.agenda = lived.agenda /\ x.limit = lived.limit => Follows(x, R, lived)
  BY <1>1, <1>2 DEF LivedIsTold
<1>4. PICK R : /\ Tale(R, Plain(lived), KeptBy(lived, cache))
               /\ campaign.agenda = lived.agenda /\ campaign.limit = lived.limit => Follows(campaign, R, lived)
  BY <1>3 DEF CacheInv, LivedIsTold
<1> QED
  BY <1>3, <1>4

\* A state of the tale is of a campaign under way or complete.
LEMMA InTale ==
  ASSUME NEW R, NEW e, NEW kept, Tale(R, e, kept), NEW c, Shaped(c), Plain(c) \in R
  PROVE  c.status \in {"RUNNING", "COMPLETED"} /\ Continues(c.results, e.results)
<1>1. PICK b : b = Plain(c)
  OBVIOUS
<1>2. b.status = c.status /\ b.results = c.results
  BY <1>1, PlainStatus
<1>3. b \in CleanCampaigns /\ Continues(b.results, e.results)
  BY <1>1 DEF Tale, Rests
<1> QED
  BY <1>2, <1>3, CampaignFields

LEMMA BeginKeeps ==
  ASSUME CacheInv, NEW mode \in {"LIVE_EVAL", "CACHED"}, NEW agenda \in Agendas, NEW limit \in Limits,
         BeginCampaign(mode, agenda, limit)
  PROVE  CacheInv'
<1>1. PICK x : x = Opened(mode, agenda, limit)
  OBVIOUS
<1>2. Shaped(x) /\ IsOpened(x, mode, agenda, limit)
  BY <1>1, OpenedFields
<1>3. /\ Shaped(x) /\ x.mode = mode /\ x.agenda = agenda /\ x.limit = limit /\ x.status = "RUNNING"
      /\ x.put = {} /\ x.flaws = {}
  BY <1>2 DEF IsOpened
<1>4. /\ campaign' = x /\ cache' = cache
      /\ lived' = IF mode = "LIVE_EVAL" /\ limit = lived.limit THEN NoCampaign ELSE lived
  BY <1>1 DEF BeginCampaign, Opened
<1>5. CacheBase'
  <2>1. CASE mode = "LIVE_EVAL" /\ limit = lived.limit
    <3>1. lived' = NoCampaign
      BY <1>4, <2>1
    <3> QED
      BY <1>3, <1>4, <3>1, NoCampaignFields DEF CacheBase
  <2>2. CASE ~(mode = "LIVE_EVAL" /\ limit = lived.limit)
    <3>1. lived' = lived
      BY <1>4, <2>2
    <3>2. /\ Shaped(lived) /\ lived.put \subseteq DOMAIN cache /\ (\A k \in lived.put : k.limit = lived.limit)
          /\ lived.status \in {"NONE", "COMPLETED"}
      BY DEF CacheInv, CacheBase
    <3> QED
      BY <1>3, <1>4, <2>2, <3>1, <3>2 DEF CacheBase
  <2> QED
    BY <2>1, <2>2
<1>6. PICK b : b = Launched(agenda, limit)
  OBVIOUS
<1>7. Plain(x) = b /\ Rests(b) /\ b.agenda = agenda /\ b.limit = limit
  <2>1. Shaped(b) /\ IsOpened(b, "LIVE_EVAL", agenda, limit)
    BY <1>6, OpenedFields DEF Launched
  <2>2. Rests(b)
    BY <1>6, BegunRests
  <2>3. /\ HasFields(x) /\ HasFields(b) /\ b.mode = "LIVE_EVAL" /\ b.put = {} /\ b.flaws = {}
        /\ b.agenda = x.agenda /\ b.limit = x.limit /\ b.status = x.status /\ b.period = x.period
        /\ b.opportunity = x.opportunity /\ b.trades = x.trades /\ b.stage = x.stage /\ b.route = x.route
        /\ b.said = x.said /\ b.spent = x.spent /\ b.results = x.results
    BY <1>2, <2>1 DEF IsOpened, Shaped
  <2>4. b = Plain(x)
    BY <2>3, PlainIs
  <2> QED
    BY <1>3, <2>2, <2>3, <2>4
<1>8. Sound(x, KeptBy(x, cache))
  <2>1. b.results \in Seq(Results)
    BY <1>7, RestsReady
  <2>2. Continues(b.results, b.results)
    BY <2>1 DEF Continues
  <2>3. Tale({b}, b, KeptBy(x, cache))
    BY <1>6, <1>7, <2>2 DEF Tale
  <2> QED
    BY <1>7, <2>3 DEF Sound, Rested
<1>9. LivedIsTold'
  <2>1. SUFFICES ASSUME lived' = lived, lived.status = "COMPLETED", lived.flaws = {}
                 PROVE  \E R : /\ Tale(R, Plain(lived), KeptBy(lived, cache))
                               /\ x.mode = "CACHED" /\ x.agenda = lived.agenda /\ x.limit = lived.limit =>
                                    Follows(x, R, lived)
    <3>1. CASE mode = "LIVE_EVAL" /\ limit = lived.limit
      BY <1>4, <3>1, NoCampaignFields DEF LivedIsTold
    <3>2. CASE ~(mode = "LIVE_EVAL" /\ limit = lived.limit)
      <4>1. lived' = lived
        BY <1>4, <3>2
      <4> QED
        BY <1>4, <2>1, <4>1 DEF LivedIsTold
    <3> QED
      BY <3>1, <3>2
  <2>2. PICK R : Tale(R, Plain(lived), KeptBy(lived, cache))
    BY <2>1 DEF CacheInv, LivedIsTold
  <2>3. Plain(lived).agenda = lived.agenda /\ Plain(lived).limit = lived.limit
    BY PlainStatus DEF CacheInv, CacheBase
  <2>4. Launched(lived.agenda, lived.limit) \in R
    BY <2>2, <2>3 DEF Tale
  <2>5. x.agenda = lived.agenda /\ x.limit = lived.limit => Follows(x, R, lived)
    BY <1>3, <1>6, <1>7, <2>4 DEF Follows
  <2> QED
    BY <2>2, <2>5
<1>10. Sound(campaign, KeptBy(campaign, cache))'
  BY <1>4, <1>8
<1> QED
  BY <1>5, <1>9, <1>10 DEF CacheInv

LEMMA GateKeeps ==
  ASSUME CacheInv, NEW mode \in {"LIVE_EVAL", "CACHED"}, Gate(mode)
  PROVE  CacheInv'
<1>1. PICK x : x = AfterGate(campaign)
  OBVIOUS
<1>2. /\ GoesTo(x) /\ cache' = cache /\ campaign.status = "RUNNING" /\ campaign.stage = "gate" /\ campaign.mode = mode
  BY <1>1 DEF Gate, AfterGate, InStage
<1>3. Shaped(campaign)
  BY DEF CacheInv, CacheBase
<1>4. Shaped(x) /\ x.mode = campaign.mode /\ x.agenda = campaign.agenda /\ x.limit = campaign.limit /\ x.put = campaign.put
  BY <1>1, <1>3, AfterGateKeeps
<1>5. CacheBase'
  BY <1>2, <1>4, BaseMoves DEF CacheInv, CacheBase
<1>6. CASE mode = "LIVE_EVAL"
  <2>1. Sound(x, KeptBy(campaign, cache))
    BY <1>1, <1>2, <1>3, <1>6, SoundGate DEF CacheInv
  <2>2. Sound(x, KeptBy(x, cache'))
    BY <1>2, <1>4, <2>1 DEF KeptBy
  <2> QED
    BY <1>2, <1>4, <1>5, <1>6, <2>2, SoundMoves DEF CacheInv
<1>7. CASE mode = "CACHED"
  <2>1. ASSUME NEW R, Tale(R, Plain(lived), KeptBy(lived, cache)), lived.status = "COMPLETED", Follows(campaign, R, lived)
        PROVE  Follows(x, R, lived)
    <3>1. Plain(campaign) \in R
      BY <1>2, <2>1 DEF Follows
    <3>2. PICK e : e = Plain(lived)
      OBVIOUS
    <3>3. e.status # "RUNNING"
      BY <2>1, <3>2, PlainStatus DEF CacheInv, CacheBase
    <3>4. Plain(x) \in R
      BY <1>1, <1>2, <1>3, <1>7, <2>1, <3>1, <3>2, <3>3, RepeatGate
    <3> QED
      BY <1>4, <2>1, <3>4, InTale DEF Follows
  <2> QED
    BY <1>2, <1>4, <1>5, <1>7, <2>1, FollowMoves DEF CacheInv
<1> QED
  BY <1>6, <1>7

LEMMA CancelledFields ==
  ASSUME NEW c, Shaped(c)
  PROVE  LET x == [c EXCEPT !.status = "CANCELLED"]
         IN  /\ Shaped(x) /\ x.status = "CANCELLED" /\ x.mode = c.mode /\ x.agenda = c.agenda /\ x.limit = c.limit
             /\ x.put = c.put /\ x.results = c.results
<1>1. PICK x : x = [c EXCEPT !.status = "CANCELLED"]
  OBVIOUS
<1>2. x = [mode |-> c.mode, agenda |-> c.agenda, limit |-> c.limit, status |-> "CANCELLED",
           period |-> c.period, opportunity |-> c.opportunity, trades |-> c.trades, stage |-> c.stage,
           route |-> c.route, said |-> c.said, spent |-> c.spent, results |-> c.results,
           put |-> c.put, flaws |-> c.flaws]
  BY <1>1, Zenon DEF Shaped, HasFields
<1>3. HasFields(x)
  BY <1>2 DEF HasFields
<1>4. /\ x.status = "CANCELLED" /\ x.mode = c.mode /\ x.agenda = c.agenda /\ x.limit = c.limit
      /\ x.put = c.put /\ x.results = c.results /\ x.route = c.route /\ x.said = c.said
  BY <1>2
<1>5. Shaped(x)
  BY <1>3, <1>4 DEF Shaped
<1> QED
  BY <1>1, <1>4, <1>5

LEMMA CancelKeeps ==
  ASSUME CacheInv, NEW mode \in {"LIVE_EVAL", "CACHED"}, CancelReplay(mode)
  PROVE  CacheInv'
<1>1. PICK x : x = [campaign EXCEPT !.status = "CANCELLED"]
  OBVIOUS
<1>2. GoesTo(x) /\ cache' = cache /\ campaign.status = "RUNNING" /\ campaign.mode = mode
  BY <1>1 DEF CancelReplay, InStage
<1>3. Shaped(campaign)
  BY DEF CacheInv, CacheBase
<1>4. /\ Shaped(x) /\ x.status = "CANCELLED" /\ x.mode = campaign.mode /\ x.agenda = campaign.agenda
      /\ x.limit = campaign.limit /\ x.put = campaign.put /\ x.results = campaign.results
  BY <1>1, <1>3, CancelledFields
<1>5. CacheBase'
  BY <1>2, <1>4, BaseMoves DEF CacheInv, CacheBase
<1>6. CASE mode = "LIVE_EVAL"
  <2>1. Sound(x, KeptBy(x, cache'))
    BY <1>4 DEF Sound
  <2> QED
    BY <1>2, <1>4, <1>5, <1>6, <2>1, SoundMoves DEF CacheInv
<1>7. CASE mode = "CACHED"
  <2>1. ASSUME NEW R, Tale(R, Plain(lived), KeptBy(lived, cache)), lived.status = "COMPLETED", Follows(campaign, R, lived)
        PROVE  Follows(x, R, lived)
    <3>1. PICK e : e = Plain(lived)
      OBVIOUS
    <3>2. e.results = lived.results
      BY <3>1, PlainStatus DEF CacheInv, CacheBase
    <3>3. Continues(campaign.results, e.results)
      BY <1>2, <1>3, <2>1, <3>1, InTale DEF Follows
    <3> QED
      BY <1>4, <3>2, <3>3 DEF Follows
  <2> QED
    BY <1>2, <1>4, <1>5, <1>7, <2>1, FollowMoves DEF CacheInv
<1> QED
  BY <1>6, <1>7

LEMMA AskKeeps ==
  ASSUME CacheInv, NEW mode \in {"LIVE_EVAL", "CACHED"}, NEW stage \in AskingStages, Ask(stage, mode)
  PROVE  CacheInv'
<1>1. PICK y : y = AllAsk(campaign, Of(stage))
  OBVIOUS
<1>2. PICK x : x = GoesOn(y)
  OBVIOUS
<1>3. /\ GoesTo(x) /\ cache' = cache /\ campaign.status = "RUNNING" /\ campaign.stage = stage /\ campaign.mode = mode
      /\ \A a \in Range(Of(stage)) : campaign.route[a] = 0 /\ campaign.said[a] = Nothing
  BY <1>1, <1>2 DEF Ask, InStage
<1>4. Shaped(campaign) /\ campaign.stage \in AskingStages
  BY <1>3 DEF CacheInv, CacheBase
<1>5. Shaped(y) /\ Alike(y, campaign)
  BY <1>1, <1>3, <1>4, AllAskKeeps
<1>6. Shaped(x) /\ x.mode = campaign.mode /\ x.agenda = campaign.agenda /\ x.limit = campaign.limit /\ x.put = campaign.put
  <2>1. Shaped(x) /\ x.mode = y.mode /\ x.agenda = y.agenda /\ x.limit = y.limit /\ x.put = y.put
    BY <1>2, <1>5, GoesOnKeeps
  <2> QED
    BY <1>5, <2>1 DEF Alike
<1>7. CacheBase'
  BY <1>3, <1>6, BaseMoves DEF CacheInv, CacheBase
<1>8. CASE mode = "LIVE_EVAL"
  <2>1. \A a \in Members(campaign) : campaign.route[a] = 0 /\ campaign.said[a] = Nothing
    BY <1>3 DEF Members
  <2>2. Sound(x, KeptBy(campaign, cache))
    BY <1>1, <1>2, <1>3, <1>4, <1>8, <2>1, SoundAsk DEF CacheInv
  <2>3. Sound(x, KeptBy(x, cache'))
    BY <1>3, <1>6, <2>2 DEF KeptBy
  <2> QED
    BY <1>3, <1>6, <1>7, <1>8, <2>3, SoundMoves DEF CacheInv
<1>9. CASE mode = "CACHED"
  <2>1. ASSUME NEW R, Tale(R, Plain(lived), KeptBy(lived, cache)), lived.status = "COMPLETED", Follows(campaign, R, lived)
        PROVE  Follows(x, R, lived)
    <3>1. Plain(campaign) \in R
      BY <1>3, <2>1 DEF Follows
    <3>2. PICK e : e = Plain(lived)
      OBVIOUS
    <3>3. e.status # "RUNNING"
      BY <2>1, <3>2, PlainStatus DEF CacheInv, CacheBase
    <3>4. Extends(cache, KeptBy(lived, cache))
      BY DEF Extends, KeptBy, CacheInv, CacheBase
    <3>5. Plain(x) \in R
      BY <1>1, <1>2, <1>3, <1>4, <1>9, <2>1, <3>1, <3>2, <3>3, <3>4, RepeatAsk
    <3> QED
      BY <1>6, <2>1, <3>5, InTale DEF Follows
  <2> QED
    BY <1>3, <1>6, <1>7, <1>9, <2>1, FollowMoves DEF CacheInv
<1> QED
  BY <1>8, <1>9

LEMMA AnswerKeeps ==
  ASSUME CacheInv, NEW agent \in Agents, NEW reply \in replies[agent], AnswerLive(agent, reply)
  PROVE  CacheInv'
<1>1. PICK key : key = Key(campaign, agent, campaign.route[agent])
  OBVIOUS
<1>2. PICK y : y = ReplyTaken(campaign, agent, reply)
  OBVIOUS
<1>3. Shaped(campaign)
  BY DEF CacheInv, CacheBase
<1>4. Shaped(y) /\ Alike(y, campaign) /\ y.flaws = campaign.flaws
  <2>1. PICK c : c = campaign
    OBVIOUS
  <2>2. Shaped(c) /\ y = ReplyTaken(c, agent, reply)
    BY <1>2, <1>3, <2>1
  <2>3. /\ Shaped(y) /\ Alike(y, c) /\ y.flaws = c.flaws /\ y.route = c.route
        /\ y.spent = c.spent + reply.cost /\ y.said = [c.said EXCEPT ![agent] = reply]
    BY <2>2, TakenFields
  <2> QED
    BY <2>1, <2>3
<1>5. PICK z : z = PutIn(y, key)
  OBVIOUS
<1>6. PICK x : x = GoesOn(z)
  OBVIOUS
<1>7. /\ GoesTo(x) /\ cache' = [k \in DOMAIN cache \cup {key} |-> IF k = key THEN reply ELSE cache[k]]
      /\ campaign.mode = "LIVE_EVAL" /\ campaign.status = "RUNNING" /\ agent \in Waiting(campaign)
  <2>1. y.put = campaign.put
    BY <1>4 DEF Alike
  <2> QED
    BY <1>1, <1>2, <1>5, <1>6, <2>1 DEF AnswerLive, Awaits, PutIn
<1>8. /\ Shaped(z) /\ z.mode = campaign.mode /\ z.agenda = campaign.agenda /\ z.limit = campaign.limit
      /\ z.put = campaign.put \cup {key}
      /\ z.flaws = IF key \in campaign.put THEN campaign.flaws \cup {"twice"} ELSE campaign.flaws
  <2>1. Shaped(z) /\ HasPut(z, y, key)
    BY <1>4, <1>5, PutFields
  <2> QED
    BY <1>4, <2>1 DEF HasPut, Alike
<1>9. Shaped(x) /\ x.mode = campaign.mode /\ x.limit = campaign.limit /\ x.put = campaign.put \cup {key}
  <2>1. Shaped(x) /\ x.mode = z.mode /\ x.limit = z.limit /\ x.put = z.put
    BY <1>6, <1>8, GoesOnKeeps
  <2> QED
    BY <1>8, <2>1
<1>10. key.limit = campaign.limit
  BY <1>1 DEF Key
<1>11. /\ DOMAIN cache' = DOMAIN cache \cup {key} /\ cache'[key] = reply
       /\ \A k \in DOMAIN cache \ {key} : cache'[k] = cache[k]
  BY <1>7
<1>12. /\ campaign.put \subseteq DOMAIN cache /\ (\A k \in campaign.put : k.limit = campaign.limit)
       /\ lived.put \subseteq DOMAIN cache /\ (\A k \in lived.put : k.limit = lived.limit)
       /\ (lived.status = "COMPLETED" => lived.limit # campaign.limit)
  BY <1>7 DEF CacheInv, CacheBase
<1>13. CacheBase'
  <2>1. CacheBase
    BY DEF CacheInv
  <2>2. DOMAIN cache \subseteq DOMAIN cache' /\ x.put \subseteq DOMAIN cache' /\ \A k \in x.put : k.limit = x.limit
    BY <1>9, <1>10, <1>11, <1>12
  <2> QED
    BY <1>7, <1>9, <2>1, <2>2, BaseMoves
<1>14. Sound(x, KeptBy(x, cache'))
  <2>1. PICK kept, more : kept = KeptBy(campaign, cache) /\ more = KeptBy(x, cache')
    OBVIOUS
  <2>2. /\ DOMAIN kept = campaign.put /\ DOMAIN more = campaign.put \cup {key} /\ more[key] = reply
        /\ \A k \in campaign.put \ {key} : more[k] = kept[k]
    BY <1>9, <1>11, <1>12, <2>1 DEF KeptBy
  <2>3. Sound(campaign, kept)
    BY <2>1 DEF CacheInv
  <2>4. z = PutIn(ReplyTaken(campaign, agent, reply), key)
    BY <1>2, <1>5
  <2>5. Sound(GoesOn(z), more)
    <3>1. campaign.mode = "LIVE_EVAL" /\ campaign.status = "RUNNING" /\ agent \in Waiting(campaign)
      BY <1>7
    <3>2. Gains(more, kept, campaign, key, reply) /\ HasKey(z, campaign, key) /\ Shaped(z)
      BY <1>8, <2>2 DEF Gains, HasKey
    <3> QED
      BY <1>1, <1>3, <2>3, <2>4, <3>1, <3>2, SoundAnswer
  <2> QED
    BY <1>6, <2>1, <2>5
<1>15. lived.status = "COMPLETED" => \A k \in lived.put : cache'[k] = cache[k]
  BY <1>10, <1>11, <1>12
<1> QED
  BY <1>7, <1>9, <1>13, <1>14, <1>15, SoundMoves DEF CacheInv

LEMMA FailKeeps ==
  ASSUME CacheInv, NEW agent \in Agents, FailLive(agent)
  PROVE  CacheInv'
<1> DEFINE said == [campaign.said EXCEPT ![agent] = Is("failed")]
           flaws == campaign.flaws \cup {"failed"}
<1>1. PICK y : y = [campaign EXCEPT !.said = said, !.flaws = flaws]
  OBVIOUS
<1>2. PICK x : x = GoesOn(y)
  OBVIOUS
<1>3. GoesTo(x) /\ cache' = cache /\ campaign.mode = "LIVE_EVAL" /\ campaign.status = "RUNNING"
  BY <1>1, <1>2 DEF FailLive, Awaits
<1>4. Shaped(campaign) /\ HasFields(campaign)
  BY DEF CacheInv, CacheBase, Shaped
<1>5. said = [a \in Agents |-> said[a]]
  BY <1>4 DEF Shaped
<1>6. flaws # {}
  OBVIOUS
<1> HIDE DEF said, flaws
<1>7. y = Made(campaign, campaign.route, said, campaign.spent, flaws)
  BY <1>1, <1>4, Zenon DEF HasFields, Made
<1>8. Shaped(y) /\ Alike(y, campaign) /\ y.flaws = flaws
  BY <1>4, <1>5, <1>7, MadeFields DEF Shaped
<1>9. Shaped(x) /\ x.mode = campaign.mode /\ x.limit = campaign.limit /\ x.put = campaign.put /\ x.flaws # {}
  <2>1. Shaped(x) /\ x.mode = y.mode /\ x.limit = y.limit /\ x.put = y.put /\ x.flaws = y.flaws
    BY <1>2, <1>8, GoesOnKeeps
  <2> QED
    BY <1>6, <1>8, <2>1 DEF Alike
<1>10. CacheBase'
  BY <1>3, <1>9, BaseMoves DEF CacheInv, CacheBase
<1>11. Sound(x, KeptBy(x, cache'))
  BY <1>9 DEF Sound
<1> QED
  BY <1>3, <1>9, <1>10, <1>11, SoundMoves DEF CacheInv

\* A clean campaign is repeated, decision by decision and at the same cost, by any
\* CACHED one over the same periods on the same budget, whatever campaigns went before.
THEOREM CleanRunAlwaysReplays == CacheSpec => []CleanRunReplays
<1>1. CacheInit => CacheInv
  <2> SUFFICES ASSUME CacheInit PROVE CacheInv
    OBVIOUS
  <2> QED
    BY NoCampaignFields DEF CacheInit, CacheInv, CacheBase, Sound, LivedIsTold
<1>2. CacheInv /\ [CacheNext]_cacheVars => CacheInv'
  <2> SUFFICES ASSUME CacheInv, [CacheNext]_cacheVars PROVE CacheInv'
    OBVIOUS
  <2>1. CASE UNCHANGED cacheVars
    BY <2>1, SMTT(40) DEF cacheVars, CacheInv, CacheBase, LivedIsTold, Sound, Rested, Waits, Follows, KeptBy
  <2>2. ASSUME NEW mode \in {"LIVE_EVAL", "CACHED"}, Gate(mode) PROVE CacheInv'
    BY <2>2, GateKeeps
  <2>3. ASSUME NEW mode \in {"LIVE_EVAL", "CACHED"}, CancelReplay(mode) PROVE CacheInv'
    BY <2>3, CancelKeeps
  <2>4. ASSUME NEW mode \in {"LIVE_EVAL", "CACHED"}, NEW agenda \in Agendas, NEW limit \in Limits,
               BeginCampaign(mode, agenda, limit)
        PROVE  CacheInv'
    BY <2>4, BeginKeeps
  <2>5. ASSUME NEW mode \in {"LIVE_EVAL", "CACHED"}, NEW stage \in {"plan", "round", "palermo", "final"}, Ask(stage, mode)
        PROVE  CacheInv'
    BY <2>5, AskKeeps DEF AskingStages
  <2>6. ASSUME NEW agent \in Agents, FailLive(agent) PROVE CacheInv'
    BY <2>6, FailKeeps
  <2>7. ASSUME NEW agent \in Agents, NEW reply \in replies[agent], AnswerLive(agent, reply) PROVE CacheInv'
    BY <2>7, AnswerKeeps
  <2> QED
    BY <2>1, <2>2, <2>3, <2>4, <2>5, <2>6, <2>7 DEF CacheNext
<1>3. CacheInv => CleanRunReplays
  BY FollowedIsRepeated
<1> QED
  BY <1>1, <1>2, <1>3, PTL DEF CacheSpec
=============================================================================

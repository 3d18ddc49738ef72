--------------------------- MODULE BacktestCampaign ---------------------------
(***************************************************************************)
(* The campaigns of the backtest dashboard (dashboard/backtest.py) and the  *)
(* sidecar that keeps their progress and results on disk                    *)
(* (FrontendV2Store, api/routes/frontend_v2.py).                            *)
(*                                                                          *)
(* A campaign is a background task of the event loop: its steps below go    *)
(* from one suspension to the next.  Starting one is a coroutine, so it is a *)
(* step of the loop too; the route that cancels a campaign is a plain       *)
(* function that the server runs on a worker thread, so each of its         *)
(* statements may fall between any two others.  So is a route that opens an *)
(* older campaign, which may push a running one out of the sidecar's memory.*)
(***************************************************************************)
EXTENDS Integers, Sequences, SequencesExt, FiniteSets

CONSTANTS
  Roles,         \* DESIGN, VALIDATION, OOS in order, as 1 .. Roles
  Checkpoints,   \* points of a replay where it looks for a cancellation
  Windows,       \* walk-forward windows after the main split
  HistoryLimit,  \* history_limit
  SidecarLimit,  \* limit of the sidecar: campaigns it holds in memory
  Earlier,       \* campaigns on disk, of an earlier life of the server
  MaxCampaigns,  \* bound: campaigns started
  MaxCalls,      \* bound: calls of the route that cancels
  NoOne

Campaigns == 1 .. MaxCampaigns

ASSUME CampaignAssumption ==
  /\ Roles \in Nat \ {0} /\ Checkpoints \in Nat \ {0} /\ Windows \in Nat
  /\ {HistoryLimit, SidecarLimit} \subseteq Nat \ {0} /\ NoOne \notin Nat
  /\ Earlier \cap Campaigns = {}
  /\ {MaxCampaigns, MaxCalls} \subseteq Nat

VARIABLES
  jobs,     \* of each campaign, its runtime record, where its task is, and whether the
            \* record has news since its watcher last wrote it
  active,   \* _active_campaign_id
  lock,     \* _run_lock: the campaign that holds it
  order, known,   \* _progress_order and the keys of _progress_records
  stored,   \* _order: the campaigns whose result is kept
  canceller,  \* the worker thread of a cancel route
  calls,      \* counts the calls
  disk,     \* of each campaign: progress.json, its temporary file, summary.json
  memory,   \* the sidecar's _order: the campaigns it holds in memory, by age
  watchers, \* of each campaign, its watcher and the status it is writing
  loop,     \* the watcher that keeps the event loop in a file operation, or NoOne
  early     \* history: the campaigns cancelled before their last checkpoint

serviceVars == <<jobs, active, lock, order, known, stored>>
threadVars == <<canceller, calls>>
sidecarVars == <<disk, memory, watchers, loop>>
campaignVars == <<serviceVars, threadVars, sidecarVars, early>>

Fresh == [at |-> "NONE", status |-> "NONE", cancel |-> FALSE, role |-> 0, left |-> 0,
          windows |-> 0, news |-> FALSE]
Idle == [stage |-> "IDLE", of |-> NoOne, view |-> "NONE", v2 |-> FALSE]

CampaignInit ==
  /\ jobs = [c \in Campaigns |-> Fresh]
  /\ active = NoOne /\ lock = NoOne
  /\ order = <<>> /\ known = {} /\ stored = <<>>
  /\ canceller = Idle
  /\ calls = 0
  /\ disk = [c \in Campaigns |-> [progress |-> "NONE", tmp |-> "NONE", summary |-> FALSE]]
  /\ memory = <<>>
  /\ watchers = [c \in Campaigns |-> [stage |-> "NONE", view |-> "NONE"]]
  /\ loop = NoOne
  /\ early = {}

---------------------------------------------------------------------------
(* Starting.                                                               *)

\* The states in which a campaign keeps another from starting.
Busy == {"QUEUED", "RUNNING", "CANCEL_REQUESTED"}
Started(c) == jobs[c].at # "NONE"

\* The newest entries of a history.
Kept(history) == IF Len(history) > HistoryLimit THEN Tail(history) ELSE history

\* The sidecar takes a campaign into its memory and lets the oldest go, whose watcher
\* it cancels: that one stops at its next suspension, and what it writes before it
\* suspends is still written.
Trimmed(held) == IF Len(held) > SidecarLimit THEN Tail(held) ELSE held
Evicted(held) == IF Len(held) > SidecarLimit THEN {Head(held)} ELSE {}

Forsaken(stage) ==
  CASE stage = "WATCHING" -> "CANCELLED" [] stage = "RENAME" -> "LAST" [] OTHER -> stage

Takes(x) ==
  /\ memory' = Trimmed(Append(memory, x))
  /\ watchers' = [c \in Campaigns |->
       [watchers[c] EXCEPT !.stage = IF c \in Evicted(Append(memory, x)) THEN Forsaken(@)
                                     ELSE IF c = x /\ @ = "NONE" THEN "WATCHING" ELSE @]]

\* _launch_campaign: start_campaign, the files of the request, a watcher.  By the
\* dashboard's own route a campaign has neither files nor watcher.
StartCampaign(c, v2) ==
  /\ loop = NoOne /\ ~Started(c) /\ \A d \in Campaigns : d < c => Started(d)
  /\ ~(active # NoOne /\ active \in known /\ jobs[active].status \in Busy)
  /\ jobs' = [jobs EXCEPT ![c].at = "QUEUED", ![c].status = "QUEUED", ![c].news = TRUE]
  /\ order' = Kept(Append(order, c))
  /\ known' = IF Len(order) = HistoryLimit /\ Head(order) # active
              THEN (known \cup {c}) \ {Head(order)} ELSE known \cup {c}
  /\ active' = c
  /\ disk' = [disk EXCEPT ![c].progress = IF v2 THEN "QUEUED" ELSE @]
  /\ IF v2 THEN Takes(c) ELSE UNCHANGED <<memory, watchers>>
  /\ UNCHANGED <<lock, stored, threadVars, loop, early>>

---------------------------------------------------------------------------
(* The task of a campaign.                                                 *)

\* The end of _run_campaign_background, with the lock given back and the locals of
\* the run gone.  Variant: not by a campaign that was cancelled.
LockAfterCancel(status) == IF status = "CANCELLED" THEN lock ELSE NoOne
LockAfter(status) == NoOne

End(c, status) ==
  /\ jobs' = [jobs EXCEPT ![c] = [Fresh EXCEPT !.at = "ENDED", !.status = status,
                                              !.cancel = jobs[c].cancel, !.news = TRUE]]
  /\ lock' = LockAfter(status)
  /\ active' = IF active = c THEN NoOne ELSE active

Moves(c, job) ==
  /\ jobs' = [jobs EXCEPT ![c] = [job EXCEPT !.news = TRUE]]
  /\ UNCHANGED <<active, lock>>

TaskOf(c, at) ==
  /\ loop = NoOne /\ jobs[c].at = at
  /\ UNCHANGED <<order, known, threadVars, sidecarVars, early>>

\* The task begins; the lock is free, so taking it is not a suspension.  The
\* dataset is parsed on a thread.  Variant: a request to stop that came earlier
\* is forgotten.
BegunAnew(c) == [jobs[c] EXCEPT !.status = "RUNNING", !.at = "PARSE", !.cancel = FALSE]
Begun(c) == [jobs[c] EXCEPT !.status = "RUNNING", !.at = "PARSE"]

Begin(c) ==
  /\ TaskOf(c, "QUEUED") /\ lock = NoOne
  /\ lock' = c
  /\ jobs' = [jobs EXCEPT ![c] = [Begun(c) EXCEPT !.news = TRUE]]
  /\ UNCHANGED <<active, stored>>

\* A run of one role begins.
Replaying(c, role, windows) ==
  [jobs[c] EXCEPT !.at = "REPLAY", !.role = role, !.left = Checkpoints, !.windows = windows]

\* The dataset or the request may be refused.
Parsed(c, valid) ==
  /\ TaskOf(c, "PARSE") /\ UNCHANGED stored
  /\ IF valid THEN Moves(c, Replaying(c, 1, Windows)) ELSE End(c, "FAILED")

\* The replay from one checkpoint to the next; after the last, the measures are
\* taken on a thread.
Replay(c, raises) ==
  /\ TaskOf(c, "REPLAY") /\ UNCHANGED stored
  /\ IF jobs[c].cancel THEN End(c, "CANCELLED")
     ELSE IF raises THEN End(c, "FAILED")
     ELSE Moves(c, [jobs[c] EXCEPT !.left = @ - 1, !.at = IF jobs[c].left = 1 THEN "MEASURE" ELSE @])

Measured(c) ==
  /\ TaskOf(c, "MEASURE") /\ UNCHANGED stored
  /\ IF jobs[c].cancel THEN End(c, "CANCELLED") ELSE Moves(c, [jobs[c] EXCEPT !.at = "EXPORT"])

\* The exports of a role, and after the last role the catalogue of setups, are
\* made on a thread; then the next role, the next walk-forward window or the
\* reports.
Exported(c) ==
  /\ TaskOf(c, "EXPORT") /\ UNCHANGED stored
  /\ Moves(c, IF jobs[c].role < Roles THEN Replaying(c, jobs[c].role + 1, jobs[c].windows)
              ELSE [jobs[c] EXCEPT !.at = "CATALOG"])

\* The loop over the roles that writes reports looks for a cancellation first.
AskedToStop(c) == jobs[c].cancel

Reporting(c, role) ==
  IF AskedToStop(c) THEN End(c, "CANCELLED")
  ELSE Moves(c, [jobs[c] EXCEPT !.at = "REPORT", !.role = role])

Catalogued(c) ==
  /\ TaskOf(c, "CATALOG") /\ UNCHANGED stored
  /\ IF jobs[c].windows > 0 THEN Moves(c, Replaying(c, 1, jobs[c].windows - 1))
     ELSE Reporting(c, 1)

\* After the last report the result is stored and the campaign is complete, with
\* no suspension between.
Reported(c) ==
  /\ TaskOf(c, "REPORT")
  /\ IF jobs[c].role < Roles THEN Reporting(c, jobs[c].role + 1) /\ UNCHANGED stored
     ELSE End(c, "COMPLETED") /\ stored' = Kept(Append(stored, c))

JobStep(c) ==
  \/ Begin(c)
  \/ \E choice \in BOOLEAN : Parsed(c, choice) \/ Replay(c, choice)
  \/ Measured(c) \/ Exported(c) \/ Catalogued(c) \/ Reported(c)

---------------------------------------------------------------------------
(* The worker threads.                                                     *)

Cancellable == {"QUEUED", "RUNNING"}
LastCheck(c) == jobs[c].at = "REPORT" /\ jobs[c].role = Roles

\* cancel_campaign: the status is read, the event set, the status written; by the
\* route of the second API the view is then persisted.
CancelRead(c, v2) ==
  /\ canceller.stage = "IDLE" /\ c \in known
  /\ calls < MaxCalls /\ calls' = calls + 1
  /\ canceller' = IF jobs[c].status \in Cancellable \/ v2
                  THEN [stage |-> IF jobs[c].status \in Cancellable THEN "SET" ELSE "WRITE",
                        of |-> c, view |-> jobs[c].status, v2 |-> v2]
                  ELSE Idle
  /\ UNCHANGED <<serviceVars, sidecarVars, early>>

CancelSet ==
  /\ canceller.stage = "SET"
  /\ LET c == canceller.of
     IN  /\ jobs' = [jobs EXCEPT ![c].cancel = TRUE]
         /\ early' = IF LastCheck(c) \/ jobs[c].at = "ENDED" THEN early ELSE early \cup {c}
  /\ canceller' = [canceller EXCEPT !.stage = "STATUS"]
  /\ UNCHANGED <<active, lock, order, known, stored, calls, sidecarVars>>

CancelStatus ==
  /\ canceller.stage = "STATUS"
  /\ jobs' = [jobs EXCEPT ![canceller.of].status = "CANCEL_REQUESTED", ![canceller.of].news = TRUE]
  /\ canceller' = IF canceller.v2 THEN [canceller EXCEPT !.stage = "WRITE", !.view = "CANCEL_REQUESTED"]
                  ELSE Idle
  /\ UNCHANGED <<active, lock, order, known, stored, calls, sidecarVars, early>>

\* persist_progress, by _atomic_json: a temporary file is written and renamed; the
\* name of the temporary file is the same for every writer of a campaign.
CancelWrite ==
  /\ canceller.stage = "WRITE"
  /\ disk' = [disk EXCEPT ![canceller.of].tmp = canceller.view]
  /\ canceller' = [canceller EXCEPT !.stage = "RENAME"]
  /\ UNCHANGED <<serviceVars, calls, memory, watchers, loop, early>>

Renamed(c) ==
  IF disk[c].tmp = "NONE" THEN disk
  ELSE [disk EXCEPT ![c].progress = disk[c].tmp, ![c].tmp = "NONE"]

CancelRename ==   \* raises when the file is gone: the route fails
  /\ canceller.stage = "RENAME"
  /\ disk' = Renamed(canceller.of)
  /\ canceller' = Idle
  /\ UNCHANGED <<serviceVars, calls, memory, watchers, loop, early>>

\* FrontendV2Store.get, called by the routes that show a campaign: one that is on
\* disk and no longer in memory is loaded, and has no watcher.
Open(x) ==
  /\ x \in Campaigns => watchers[x].stage # "NONE"
  /\ ~Contains(memory, x)
  /\ Takes(x)
  /\ UNCHANGED <<serviceVars, threadVars, disk, loop, early>>

---------------------------------------------------------------------------
(* The watchers.                                                           *)

\* Variant: only a campaign that did not succeed is over.
TerminalUnhappy == {"FAILED", "CANCELLED"}
Terminal == {"COMPLETED", "FAILED", "CANCELLED"}

\* FrontendV2Store.watch, one turn: over when the progress is gone; written when it
\* is not as it was written last.  The loop waits for the files.
Poll(c) ==
  /\ loop = NoOne /\ watchers[c].stage = "WATCHING"
  /\ IF c \notin known
     THEN /\ watchers' = [watchers EXCEPT ![c].stage = "RETURNED"] /\ UNCHANGED <<jobs, disk, loop>>
     ELSE /\ jobs[c].news /\ jobs' = [jobs EXCEPT ![c].news = FALSE]
          /\ watchers' = [watchers EXCEPT ![c] = [stage |-> "RENAME", view |-> jobs[c].status]]
          /\ disk' = [disk EXCEPT ![c].tmp = jobs[c].status]
          /\ loop' = c
  /\ UNCHANGED <<active, lock, order, known, stored, memory, threadVars, early>>

\* The rename raises when the file is gone, and with it the watcher.  A campaign
\* that is over has its result written, if the service still has it.
Rename(c) ==
  /\ loop = c
  /\ LET status == watchers[c].view
         lost == disk[c].tmp = "NONE"
     IN  /\ disk' = IF ~lost /\ status \in Terminal /\ Contains(stored, c)
                    THEN [Renamed(c) EXCEPT ![c].summary = TRUE] ELSE Renamed(c)
         /\ watchers' = [watchers EXCEPT ![c] =
              [stage |-> IF lost THEN "RAISED" ELSE IF status \in Terminal THEN "RETURNED"
                         ELSE IF watchers[c].stage = "LAST" THEN "CANCELLED" ELSE "WATCHING",
               view |-> "NONE"]]
  /\ loop' = NoOne
  /\ UNCHANGED <<serviceVars, threadVars, memory, early>>

CampaignNext ==
  \/ \E c \in Campaigns : JobStep(c) \/ Poll(c) \/ Rename(c)
  \/ \E c \in Campaigns, v2 \in BOOLEAN : StartCampaign(c, v2) \/ CancelRead(c, v2)
  \/ CancelSet \/ CancelStatus \/ CancelWrite \/ CancelRename
  \/ \E x \in Campaigns \cup Earlier : Open(x)

\* The event loop runs what is ready, in turn; whether a campaign is started
\* or cancelled is for its users to say.
CampaignFairness ==
  \A c \in Campaigns :
    /\ WF_campaignVars(JobStep(c)) /\ WF_campaignVars(Poll(c)) /\ WF_campaignVars(Rename(c))

CampaignSpec == CampaignInit /\ [][CampaignNext]_campaignVars /\ CampaignFairness

---------------------------------------------------------------------------
(* Properties.                                                             *)

Over(c) == jobs[c].at = "ENDED"

Job == [at : {"NONE", "QUEUED", "PARSE", "REPLAY", "MEASURE", "EXPORT", "CATALOG", "REPORT", "ENDED"},
        status : {"NONE", "QUEUED", "RUNNING", "CANCEL_REQUESTED", "COMPLETED", "FAILED", "CANCELLED"},
        cancel : BOOLEAN, role : 0 .. Roles,
        left : 0 .. Checkpoints, windows : 0 .. Windows, news : BOOLEAN]
CampaignTypeOK ==
  /\ jobs \in [Campaigns -> Job]
  /\ {active, lock} \subseteq Campaigns \cup {NoOne}
  /\ known \subseteq Campaigns /\ Len(order) <= HistoryLimit /\ Len(stored) <= HistoryLimit
  /\ Len(memory) <= SidecarLimit
  /\ loop # NoOne => watchers[loop].stage \in {"RENAME", "LAST"}

\* Of the campaigns started one at most is not over: the active one, and it
\* holds the lock from its first step to its last.  It stays so while a stop is
\* asked for, and when the status of one that is over is written once more by a
\* thread that had read it before.
OneAtATime ==
  \A c \in Campaigns : Started(c) /\ ~Over(c) =>
    active = c /\ c \in known /\ (jobs[c].at # "QUEUED" => lock = c)

\* A stop that is asked for before the last checkpoint is honoured, even before
\* the task has begun and whatever the status says: the campaign leaves no result.
CancelHonoured == \A c \in early : ~Contains(stored, c) /\ ~disk[c].summary

\* The service does one thing at a time, and what it was told to; its histories stay
\* within their limit.
CampaignsObey == CampaignTypeOK /\ OneAtATime /\ CancelHonoured

\* Every campaign that is started is over some day, cancelled or not.
EveryCampaignEnds == \A c \in Campaigns : Started(c) ~> Over(c)

\* The result of a campaign that nobody tried to cancel reaches the disk, unless
\* others have pushed it out of the service's history or of the sidecar's memory,
\* later campaigns or older ones that were opened meanwhile.
Untouched(c) == canceller.of # c /\ ~jobs[c].cancel
ResultReachesDisk ==
  \A c \in Campaigns :
    (Contains(stored, c) /\ watchers[c].stage = "WATCHING") ~>
      (disk[c].summary \/ c \notin known \/ ~Contains(stored, c) \/ ~Contains(memory, c)
       \/ ~Untouched(c))

=============================================================================

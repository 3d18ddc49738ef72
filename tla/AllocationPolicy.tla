--------------------------- MODULE AllocationPolicy ---------------------------
(***************************************************************************)
(* How the allocation policy of the Master Portfolio is changed             *)
(* (portfolio/allocation_*.py): an analysis and an advice on the policy in  *)
(* force, the operator's review with its audit and seal, a change candidate,*)
(* the operator's authorization, a preflight, the compare-and-swap in the    *)
(* SQLite store, its receipt, and the audit and seal of the whole.           *)
(*                                                                          *)
(* Every step but the swap is a function of documents that its caller holds; *)
(* several changes are on their way at a time, each from a process of its    *)
(* own, and nothing but the store is shared.  A document's fingerprint is    *)
(* the document itself: equal digests, equal contents.                       *)
(***************************************************************************)
EXTENDS Integers, Sequences

CONSTANTS
  Changes,       \* the changes on their way
  PolicyIds, SourceRefs,
  Allocations,   \* what envelopes may say: functions from crews to ceilings
  FirstPolicy,   \* the initial_policy the store is opened with
  Absent,        \* no policy, no ceiling
  MaxReplacements  \* bound: replacements attempted

Policies == [id : PolicyIds, envelopes : Allocations, source : SourceRefs]

ASSUME PolicyAssumption ==
  /\ FirstPolicy \in Policies /\ Absent \notin Policies
  /\ MaxReplacements \in Nat

VARIABLES
  store,     \* the row of the database
  open,      \* the changes whose process has opened the store
  papers,    \* of each change, how far it is and its documents
  attempts,
  ledger     \* history: the replacements that were committed, [by, from, to]

policyVars == <<store, open, papers, attempts, ledger>>

Members(policy) == DOMAIN policy.envelopes
Configured(envelopes) == \A crew \in DOMAIN envelopes : envelopes[crew] # Absent

NoPapers == [stage |-> "NEW", base |-> Absent, advice |-> "NONE", proposed |-> Absent,
             review |-> "NONE", authorization |-> "NONE", requested |-> Absent,
             outcome |-> "NONE", observed |-> Absent]

PolicyInit ==
  /\ store = Absent
  /\ open = {}
  /\ papers = [c \in Changes |-> NoPapers]
  /\ attempts = 0
  /\ ledger = <<>>

---------------------------------------------------------------------------
(* The store.                                                              *)

\* _bootstrap_if_absent: only an empty store takes the initial policy.  Variant:
\* the initial policy is written whatever the store holds.
BootstrapAlways(initial) == IF initial = Absent THEN store ELSE initial
Bootstrap(initial) == IF store = Absent /\ initial # Absent THEN initial ELSE store

\* The constructor, with or without an initial policy: it fails when the store
\* holds another one.
OpenStore(c, initial) ==
  /\ c \notin open
  /\ initial # Absent \/ store # Absent
  /\ store' = Bootstrap(initial)
  /\ open' = IF initial \in {Absent, store'} THEN open \cup {c} ELSE open
  /\ UNCHANGED <<papers, attempts, ledger>>

\* The process of a change ends: of an attempt without its receipt only the documents
\* it was made with are left.
Left(paper) ==
  IF paper.stage = "ATTEMPTED"
  THEN [paper EXCEPT !.stage = "READY", !.requested = Absent, !.outcome = "NONE", !.observed = Absent]
  ELSE paper

Crash(c) ==
  /\ c \in open
  /\ open' = open \ {c}
  /\ papers' = [papers EXCEPT ![c] = Left(@)]
  /\ UNCHANGED <<store, attempts, ledger>>

---------------------------------------------------------------------------
(* The documents.  A policy a step asks for is the one in the store, or the *)
(* one its caller still holds.                                              *)

CurrentFor(c) == {store, papers[c].base}

Stands(c, stages) == c \in open /\ store # Absent /\ papers[c].stage \in stages

Filed(c, paper) == papers' = [papers EXCEPT ![c] = paper] /\ UNCHANGED <<store, open, attempts, ledger>>

\* The analysis of sealed replays of the same crews, for the policy now in force.
Analyse(c) ==
  /\ Stands(c, {"NEW"})
  /\ Filed(c, [papers[c] EXCEPT !.stage = "ANALYSED", !.base = store])

\* The operator's candidates differ from the policy and keep its crews.
Options(policy) ==
  {e \in Allocations : DOMAIN e = Members(policy) /\ e # policy.envelopes /\ Configured(e)}

\* What an answer of the model proposes.
Proposals(advice, policy) ==
  CASE advice = "PROPOSE_CHANGE" -> Options(policy)
    [] advice = "KEEP_CURRENT" -> {policy.envelopes}
    [] advice = "ABSTAIN" -> {Absent}

\* The advice and its report, for a configured policy, the one that was analysed.
Advise(c, advice) ==
  /\ Stands(c, {"ANALYSED"})
  /\ \E current \in CurrentFor(c) :
       /\ current = papers[c].base /\ Configured(current.envelopes)
       /\ \E proposed \in Proposals(advice, current) :
            Filed(c, [papers[c] EXCEPT !.stage = "ADVISED", !.advice = advice, !.proposed = proposed])

\* The operator's review; the audit and the seal bind it to the same documents.
Review(c, action) ==
  /\ Stands(c, {"ADVISED"})
  /\ Filed(c, [papers[c] EXCEPT !.stage = "REVIEWED", !.review = action])

\* The change candidate, from an accepted advice to change, on the policy it was
\* given for.
ReviewedFor(c, current) ==
  /\ Configured(current.envelopes) /\ current = papers[c].base
  /\ papers[c].review = "ACCEPT" /\ papers[c].advice = "PROPOSE_CHANGE"

Prepare(c) ==
  /\ Stands(c, {"REVIEWED"})
  /\ \E current \in CurrentFor(c) :
       /\ ReviewedFor(c, current)
       /\ Members(current) = DOMAIN papers[c].proposed /\ papers[c].proposed # current.envelopes
  /\ Filed(c, [papers[c] EXCEPT !.stage = "CANDIDATE"])

Authorize(c, action) ==
  /\ Stands(c, {"CANDIDATE", "BLOCKED"})
  /\ Filed(c, [papers[c] EXCEPT !.stage = "DECIDED", !.authorization = action])

\* The preflight: every reason it could be blocked for.
Ready(c, current) ==
  /\ papers[c].authorization = "AUTHORIZE"
  /\ current.id = papers[c].base.id /\ current = papers[c].base
  /\ Configured(current.envelopes)
  /\ Members(current) = DOMAIN papers[c].proposed

Preflight(c) ==
  /\ Stands(c, {"DECIDED"})
  /\ \E current \in CurrentFor(c) :
       Filed(c, [papers[c] EXCEPT !.stage = IF Ready(c, current) THEN "READY" ELSE "BLOCKED"])

---------------------------------------------------------------------------
(* The replacement.                                                        *)

\* compare_and_swap: the row is the policy that was expected.  Variant: it has its
\* identity.
MatchesById(base) == store.id = base.id
Matches(base) == store.id = base.id /\ store = base

Swaps(base, new) == Matches(base) /\ Members(store) = Members(new)

\* build_master_allocation_policy
Built(c, id, source) == [id |-> id, envelopes |-> papers[c].proposed, source |-> source]

\* apply_master_allocation_policy_replacement up to its receipt: one transaction.  The same documents may be used again.
Apply(c, id, source) ==
  /\ Stands(c, {"READY", "RECEIPTED", "SEALED"})
  /\ attempts < MaxReplacements /\ attempts' = attempts + 1
  /\ id # papers[c].base.id
  /\ LET new == Built(c, id, source)
         swapped == Swaps(papers[c].base, new)
     IN  /\ store' = IF swapped THEN new ELSE store
         /\ ledger' = IF swapped THEN Append(ledger, [by |-> c, from |-> store, to |-> new]) ELSE ledger
         /\ papers' = [papers EXCEPT ![c].stage = "ATTEMPTED", ![c].requested = new, ![c].observed = store,
                                     ![c].outcome = IF swapped THEN "APPLIED" ELSE "CAS_CONFLICT"]
  /\ UNCHANGED open

Receipt(c) ==
  /\ Stands(c, {"ATTEMPTED"})
  /\ Filed(c, [papers[c] EXCEPT !.stage = "RECEIPTED"])

\* The audit of the receipt against the store, and the seal.
Seal(c) ==
  /\ Stands(c, {"RECEIPTED"})
  /\ store = IF papers[c].outcome = "APPLIED" THEN papers[c].requested ELSE papers[c].observed
  /\ Filed(c, [papers[c] EXCEPT !.stage = "SEALED"])

PolicyNext ==
  \E c \in Changes :
    \/ \E initial \in {FirstPolicy, Absent} : OpenStore(c, initial)
    \/ Crash(c) \/ Analyse(c)
    \/ \E advice \in {"PROPOSE_CHANGE", "KEEP_CURRENT", "ABSTAIN"} : Advise(c, advice)
    \/ \E action \in {"ACCEPT", "REJECT", "DEFER"} : Review(c, action)
    \/ Prepare(c)
    \/ \E action \in {"AUTHORIZE", "REJECT", "DEFER"} : Authorize(c, action)
    \/ Preflight(c)
    \/ \E id \in PolicyIds, source \in SourceRefs : Apply(c, id, source)
    \/ Receipt(c) \/ Seal(c)

PolicySpec == PolicyInit /\ [][PolicyNext]_policyVars

---------------------------------------------------------------------------
(* Properties.                                                             *)

PaperStages == {"NEW", "ANALYSED", "ADVISED", "REVIEWED", "CANDIDATE", "DECIDED", "READY", "BLOCKED", "ATTEMPTED",
                "RECEIPTED", "SEALED"}

PolicyTypeOK ==
  /\ store \in Policies \cup {Absent} /\ open \subseteq Changes /\ attempts \in 0 .. MaxReplacements
  /\ \A c \in Changes :
       /\ papers[c].stage \in PaperStages
       /\ {papers[c].base, papers[c].requested, papers[c].observed} \subseteq Policies \cup {Absent}
       /\ papers[c].outcome # "NONE" <=> papers[c].stage \in {"ATTEMPTED", "RECEIPTED", "SEALED"}

\* Every policy that ever came into force replaced the very policy it had been
\* analysed, reviewed and authorized on, whatever other changes did meanwhile and
\* though identities come back; it says what was reviewed, keeps the crews, and
\* the next one replaced it in turn.
EarnedOn(c, from, to) ==
  /\ papers[c].base = from /\ papers[c].proposed = to.envelopes
  /\ papers[c].advice = "PROPOSE_CHANGE" /\ papers[c].review = "ACCEPT"
  /\ papers[c].authorization = "AUTHORIZE"
  /\ Members(to) = Members(from) /\ Configured(to.envelopes)
ReplacesWhatWasReviewed ==
  /\ \A i \in DOMAIN ledger : EarnedOn(ledger[i].by, ledger[i].from, ledger[i].to)
  /\ \A i \in 1 .. Len(ledger) - 1 : ledger[i].to = ledger[i + 1].from
  /\ ledger # <<>> => ledger[1].from = FirstPolicy

\* The policy in force is the one its last change reviewed.
PolicyHolds == PolicyTypeOK /\ ReplacesWhatWasReviewed

\* No start of a process brings back a policy that was replaced: after a crash
\* the store holds the last one committed, with or without its receipt.
RestartKeepsPolicy ==
  [][\A c \in Changes : c \notin open /\ c \in open' /\ store # Absent => store' = store]_policyVars

=============================================================================

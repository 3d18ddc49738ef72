----------------------------- MODULE Recruitment -----------------------------
(***************************************************************************)
(* Candidates for the crew (app/recruitment): the lifecycle, the advisory on *)
(* a package of evidence, the gates and the plan of a transition.            *)
(*                                                                          *)
(* Every step is a function of documents; the operator keeps the last        *)
(* lifecycle record of each candidate, and for each one advisory and one     *)
(* transition plan, which may have grown old when they are used.             *)
(***************************************************************************)
EXTENDS Integers, FiniteSets

CONSTANTS
  Candidates,
  MaxShadow,    \* policy.max_shadow_candidates
  MaxActive,    \* policy.max_active_specialists
  Actives,      \* what the snapshot may say of active specialists
  NoDocument,
  MaxRevision   \* bound

ASSUME RecruitmentAssumption ==
  /\ {MaxShadow, MaxActive, MaxRevision} \subseteq Nat /\ Actives \subseteq Nat

VARIABLES
  candidate,   \* of each candidate, the lifecycle record: [state, revision]
  advisory,    \* [action, state, revision, package]
  draft,       \* the transition plan: [action, from, revision, advisory]
  stints       \* history: the states each was in since it was last a CANDIDATE

recruitmentVars == <<candidate, advisory, draft, stints>>

\* _ALLOWED_TRANSITIONS. 
StepsOnTrial(state) ==
  CASE state = "PROBATION" -> [EXTEND_PROBATION |-> "PROBATION", RETURN_TO_SHADOW |-> "SHADOW",
                               REJECT |-> "REJECTED", RECOMMEND_PROMOTION |-> "PROMOTION_RECOMMENDED"]
    [] state = "PROMOTION_RECOMMENDED" -> [WITHDRAW_PROMOTION_RECOMMENDATION |-> "PROBATION",
                                           RETURN_TO_SHADOW |-> "SHADOW", REJECT |-> "REJECTED"]
    [] state = "REJECTED" -> [REOPEN_CANDIDATE |-> "CANDIDATE"]
Steps(state) ==
  CASE state = "CANDIDATE" -> [ENTER_SHADOW |-> "SHADOW", REJECT |-> "REJECTED"]
    [] state = "SHADOW" -> [EXTEND_SHADOW |-> "SHADOW", ENTER_PROBATION |-> "PROBATION", REJECT |-> "REJECTED"]
    [] OTHER -> StepsOnTrial(state)

\* What the advisory and the gates read of a package of evidence.
Packages == [promotionGrade : BOOLEAN, criteria : {"PASSED", "FAILED", "UNAVAILABLE"}, withinBudget : BOOLEAN,
             withinPolicy : BOOLEAN]

RecruitmentInit ==
  /\ candidate = [c \in Candidates |-> [state |-> "CANDIDATE", revision |-> 0]]
  /\ advisory = [c \in Candidates |-> NoDocument]
  /\ draft = [c \in Candidates |-> NoDocument]
  /\ stints = [c \in Candidates |-> {"CANDIDATE"}]

---------------------------------------------------------------------------
\* evaluate_recruitment_advisory.
Advised(package, state) ==
  IF ~package.promotionGrade \/ package.criteria = "UNAVAILABLE" THEN "EXTEND"
  ELSE IF ~package.withinBudget \/ package.criteria = "FAILED" THEN "REJECT"
  ELSE CASE state = "CANDIDATE" -> "EXTEND" [] state = "SHADOW" -> "PROBATION"
         [] state = "PROBATION" -> "RECOMMEND_PROMOTION"

Counsel(c, package) ==
  /\ candidate[c].state \in {"CANDIDATE", "SHADOW", "PROBATION"}
  /\ advisory' = [advisory EXCEPT ![c] =
       [action |-> Advised(package, candidate[c].state), state |-> candidate[c].state,
        revision |-> candidate[c].revision, package |-> package]]
  /\ UNCHANGED <<candidate, draft, stints>>

\* _expected_lifecycle_action.
LifecycleAction(advised, state) ==
  CASE advised = "REJECT" -> "REJECT"
    [] advised = "PROBATION" -> "ENTER_PROBATION"
    [] advised = "RECOMMEND_PROMOTION" -> "RECOMMEND_PROMOTION"
    [] advised = "EXTEND" -> CASE state = "CANDIDATE" -> "ENTER_SHADOW" [] state = "SHADOW" -> "EXTEND_SHADOW"
                               [] state = "PROBATION" -> "EXTEND_PROBATION"

\* The reasons the gates have against it.
Blocked(action, package, shadows, active) ==
  \/ action = "ENTER_SHADOW" /\ (active > MaxActive \/ shadows >= MaxShadow \/ ~package.withinPolicy)
  \/ action \in {"ENTER_PROBATION", "RECOMMEND_PROMOTION"} /\ ~package.withinPolicy
  \/ action = "RECOMMEND_PROMOTION" /\ active >= MaxActive

PlanFor(c, action, from) ==
  [action |-> action, from |-> candidate[c].state, revision |-> candidate[c].revision, advisory |-> from]

InShadow == {c \in Candidates : candidate[c].state = "SHADOW"}

\* plan_recruitment_advisory_transition: a READY plan, or none.
PlanAdvised(c, active) ==
  /\ advisory[c] # NoDocument
  /\ advisory[c].revision = candidate[c].revision /\ advisory[c].state = candidate[c].state
  /\ LET action == LifecycleAction(advisory[c].action, candidate[c].state)
     IN  /\ ~Blocked(action, advisory[c].package, Cardinality(InShadow), active)
         /\ draft' = [draft EXCEPT ![c] = PlanFor(c, action, advisory[c])]
  /\ UNCHANGED <<candidate, advisory, stints>>

\* A transition the operator plans without an advisory.
PlanTransition(c, action) ==
  /\ action \in DOMAIN Steps(candidate[c].state)
  /\ draft' = [draft EXCEPT ![c] = PlanFor(c, action, NoDocument)]
  /\ UNCHANGED <<candidate, advisory, stints>>

\* The plan was made for this record.  Variant: for a record of this state.
AppliesToState(plan, record) == plan.from = record.state
Applies(plan, record) == plan.revision = record.revision /\ plan.from = record.state

\* record_recruitment_transition, with the operator's authorization.
Record(c) ==
  /\ draft[c] # NoDocument /\ Applies(draft[c], candidate[c])
  /\ draft[c].action \in DOMAIN Steps(candidate[c].state)
  /\ candidate[c].revision < MaxRevision
  /\ LET state == Steps(candidate[c].state)[draft[c].action]
     IN  /\ candidate' = [candidate EXCEPT ![c] = [state |-> state, revision |-> @.revision + 1]]
         /\ stints' = [stints EXCEPT ![c] = IF state = "CANDIDATE" THEN {state} ELSE @ \cup {state}]
  /\ UNCHANGED <<advisory, draft>>

Actions == UNION {DOMAIN Steps(s) : s \in {"CANDIDATE", "SHADOW", "PROBATION", "PROMOTION_RECOMMENDED", "REJECTED"}}

RecruitmentNext ==
  \E c \in Candidates :
    \/ \E package \in Packages : Counsel(c, package)
    \/ \E active \in Actives : PlanAdvised(c, active)
    \/ \E action \in Actions : PlanTransition(c, action)
    \/ Record(c)

RecruitmentSpec == RecruitmentInit /\ [][RecruitmentNext]_recruitmentVars

---------------------------------------------------------------------------
(* Properties.                                                             *)

RecruitmentTypeOK ==
  \A c \in Candidates :
    /\ candidate[c].revision \in 0 .. MaxRevision /\ candidate[c].state \in stints[c]
    /\ advisory[c] # NoDocument => advisory[c].revision <= candidate[c].revision
    /\ draft[c] # NoDocument =>
         draft[c].revision <= candidate[c].revision /\ draft[c].action \in DOMAIN Steps(draft[c].from)

\* A candidate that is recommended has been in the shadow and on probation since
\* it was last a mere candidate, however often it was sent back or reopened.
NoShortcut ==
  \A c \in Candidates :
    candidate[c].state = "PROMOTION_RECOMMENDED" => {"SHADOW", "PROBATION"} \subseteq stints[c]

\* An advisory moves only the record it was given for, though a later record is in
\* the same state again; and it moves it forward on promotion-grade evidence that
\* is complete, has passed and stays within the budget.
AdviceStillHolds ==
  [][\A c \in Candidates :
       candidate'[c] # candidate[c] /\ draft[c].advisory # NoDocument =>
         LET given == draft[c].advisory
         IN  /\ given.revision = candidate[c].revision
             /\ candidate'[c].state \in {"PROBATION", "PROMOTION_RECOMMENDED"} \ {candidate[c].state} =>
                  /\ given.package.promotionGrade /\ given.package.criteria = "PASSED"
                  /\ given.package.withinBudget /\ given.package.withinPolicy]_recruitmentVars

\* A promotion is recommended after the shadow and probation, on advice given for
\* the very record it moves.
PromotionEarned == [](RecruitmentTypeOK /\ NoShortcut) /\ AdviceStillHolds

=============================================================================

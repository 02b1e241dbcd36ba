----------------------------- MODULE ReviewLoop -----------------------------
(***************************************************************************)
(* The lifecycle of one workstream as the shadow control cycle decides it: *)
(* the state table of ues/lifecycle.py, the reconciliation of an observed  *)
(* binding with the previous one (ues/reconciliation.py), and the cycle    *)
(* over it (ues/control_loop.py).                                          *)
(*                                                                         *)
(* A cycle observes the pull request's head and the latest CI and review   *)
(* evidence, discards what belongs to another head, and decides on one     *)
(* action or one stop gate.  It writes nothing: the controller that acts   *)
(* on a decision and moves the lane to the decision's next state is        *)
(* outside the code, and so are the writer, the CI and the reviewer.       *)
(* Between a decision and its action the head may move, back to an         *)
(* earlier commit too, and late results of an earlier head arrive.         *)
(***************************************************************************)
EXTENDS Naturals

CONSTANTS
    Shas,           \* commits
    Base,           \* the commit the lane starts from
    WaitingClasses, \* waiting classes the provider's sessions meet
    FailureClasses, \* failure classes a CI run or a session meets
    Circumstances,  \* what cycles may find besides the evidence
    KeepBlocked,    \* whether the binding of a cycle that was blocked before the lane
                    \* was looked at is the next cycle's previous one
    MaxTrouble,     \* bound: pushes, CI failures, findings and interruptions
    None

ASSUME LoopAssumption ==
    /\ Base \in Shas
    /\ MaxTrouble \in Nat /\ KeepBlocked \in BOOLEAN
    /\ None \notin Shas \cup WaitingClasses \cup FailureClasses

VARIABLES
    head,       \* the pull request's head
    ciSeen,     \* the latest CI result the provider reports
    reviewSeen, \* the latest review result
    due,        \* reviews that were asked for and not answered
    passed,     \* history: commits that have passed CI
    asked,      \* history: commits a review was asked for
    approved,   \* history: commits a review has passed
    lane,       \* the WorkstreamBinding of the last cycle
    decision,   \* its LifecycleResolution, until it is acted upon
    trouble

vars == <<head, ciSeen, reviewSeen, due, passed, asked, approved, lane, decision, trouble>>

evidence == <<ciSeen, reviewSeen, due, passed, asked, approved>>

-----------------------------------------------------------------------------
(* Records *)

Interrupted == {"AWAITING_USER_FEEDBACK", "FAILED", "PAUSED"}

States == {"WRITER_ACTIVE", "CANDIDATE_PUBLISHED", "CI_RUNNING", "CI_CLASSIFIED",
           "REVIEWER_ACTIVE", "REVIEW_RESULT", "CORRECTION_REQUIRED",
           "SAME_WRITER_CONTINUATION", "NEW_SHA", "PRIOR_REVIEW_STALE", "RE_REVIEW",
           "PARENT_REVIEW_PENDING"} \cup Interrupted

Actions == {"PUBLISH_CANDIDATE", "RUN_EXACT_HEAD_CI", "CLASSIFY_CI", "START_EXACT_SHA_REVIEW",
            "CAPTURE_REVIEW_RESULT", "ROUTE_FINDINGS_TO_SAME_WRITER", "CONTINUE_SAME_WRITER",
            "VERIFY_CANDIDATE_SHA", "INVALIDATE_PRIOR_REVIEW", "START_RE_REVIEW",
            "REQUEST_PARENT_REVIEW", "CONTINUE_SAME_SESSION", "RECONCILE_CI_EVIDENCE",
            "RECONCILE_REVIEW_EVIDENCE", "RECOVER_SAME_LINEAGE", "RESUME_PAUSED_LANE",
            "VERIFY_ACTION_IN_FLIGHT"}

\* The stop gates a cycle may end in.
Gates == {"PARENT_AUTHORITY_REQUIRED", "PARENT_REQUIRED_NEW_TASK", "OWNER_AUTHORITY_REQUIRED",
          "SHARED_CONTRACT_REQUIRED", "UNCLASSIFIED_WAITING", "UNCLASSIFIED_FAILURE",
          "PAUSE_REQUIRES_AUTHORITY", "CI_FAILURE_CLASSIFICATION_REQUIRED", "INCOMPLETE_BINDING",
          "INVALID_BINDING", "AMBIGUOUS_LANE_BINDING", "AMBIGUOUS_PROVIDER_SESSION",
          "ACTOR_BINDING_REQUIRED", "AMBIGUOUS_ACTOR_BINDING", "EVIDENCE_INCOMPLETE",
          "BINDING_DRIFT_RECONCILIATION_REQUIRED"}

ASSUME NoneAssumption == None \notin States \cup Actions \cup Gates

CI == [sha : Shas, outcome : {"PASS", "FAILURE"}, class : FailureClasses \cup {None},
       stale : BOOLEAN]
Review == [sha : Shas, outcome : {"PASS", "FINDINGS"}, stale : BOOLEAN]

\* class: waiting_class or error_class of an interrupted lane; resume: resume_state.
Lane == [state : States, head : Shas, ci : CI \cup {None}, review : Review \cup {None},
         class : WaitingClasses \cup FailureClasses \cup {None}, resume : States \cup {None}]

\* A resolution: an action and the state it leads to, or a stop gate.
Action(a, next) == [action |-> a, gate |-> None, next |-> next]
Gate(g) == [action |-> None, gate |-> g, next |-> None]

-----------------------------------------------------------------------------
(* ues/lifecycle.py *)

\* The transitions that depend on nothing but the state.
Simple ==
    [WRITER_ACTIVE            |-> Action("PUBLISH_CANDIDATE", "CANDIDATE_PUBLISHED"),
     CANDIDATE_PUBLISHED      |-> Action("RUN_EXACT_HEAD_CI", "CI_RUNNING"),
     CI_RUNNING               |-> Action("CLASSIFY_CI", "CI_CLASSIFIED"),
     REVIEWER_ACTIVE          |-> Action("CAPTURE_REVIEW_RESULT", "REVIEW_RESULT"),
     CORRECTION_REQUIRED      |-> Action("CONTINUE_SAME_WRITER", "SAME_WRITER_CONTINUATION"),
     SAME_WRITER_CONTINUATION |-> Action("VERIFY_CANDIDATE_SHA", "NEW_SHA"),
     NEW_SHA                  |-> Action("INVALIDATE_PRIOR_REVIEW", "PRIOR_REVIEW_STALE"),
     PRIOR_REVIEW_STALE       |-> Action("RUN_EXACT_HEAD_CI", "CI_RUNNING"),
     RE_REVIEW                |-> Action("START_RE_REVIEW", "REVIEWER_ACTIVE")]

ExternalEffects ==
    {"PUBLISH_CANDIDATE", "RUN_EXACT_HEAD_CI", "START_EXACT_SHA_REVIEW",
     "ROUTE_FINDINGS_TO_SAME_WRITER", "CONTINUE_SAME_WRITER", "START_RE_REVIEW",
     "CONTINUE_SAME_SESSION", "RECOVER_SAME_LINEAGE", "RESUME_PAUSED_LANE"}

\* CI_CLASSIFIED.  Before it, a mutant: a stale review sends the lane back to the CI.
RerunIfReviewStale(l) ==
    IF l.ci = None THEN Gate("CI_FAILURE_CLASSIFICATION_REQUIRED")
    ELSE IF l.ci.outcome = "PASS" /\ (l.review = None \/ ~l.review.stale)
         THEN Action("START_EXACT_SHA_REVIEW", "REVIEWER_ACTIVE")
         ELSE Action("RUN_EXACT_HEAD_CI", "CI_RUNNING")

AfterFailedCI(class) ==
    CASE class = "CANDIDATE_DEFECT" -> Action("CONTINUE_SAME_WRITER", "CORRECTION_REQUIRED")
      [] class = "RECOVERABLE" -> Action("RUN_EXACT_HEAD_CI", "CI_RUNNING")
      [] class = "OWNER_REQUIRED" -> Gate("OWNER_AUTHORITY_REQUIRED")
      [] class \in {"PARENT_REQUIRED", "SESSION_CONTINUATION_UNAVAILABLE"} ->
            Gate("PARENT_AUTHORITY_REQUIRED")
      [] OTHER -> Gate("CI_FAILURE_CLASSIFICATION_REQUIRED")

AfterCI(l) ==
    IF l.ci = None THEN Gate("CI_FAILURE_CLASSIFICATION_REQUIRED")
    ELSE IF l.ci.outcome = "FAILURE" THEN AfterFailedCI(l.ci.class)
    ELSE IF l.review # None /\ l.review.stale
         THEN Action("START_RE_REVIEW", "RE_REVIEW")
         ELSE Action("START_EXACT_SHA_REVIEW", "REVIEWER_ACTIVE")

\* REVIEW_RESULT.  Before it, a mutant: any result is taken for a pass.
AnyResultPasses(l) ==
    IF l.review = None THEN Gate("INVALID_BINDING")
                       ELSE Action("REQUEST_PARENT_REVIEW", "PARENT_REVIEW_PENDING")

AfterReview(l) ==
    IF l.review = None THEN Gate("INVALID_BINDING")
    ELSE IF l.review.outcome = "PASS"
         THEN Action("REQUEST_PARENT_REVIEW", "PARENT_REVIEW_PENDING")
         ELSE Action("ROUTE_FINDINGS_TO_SAME_WRITER", "CORRECTION_REQUIRED")

\* AWAITING_USER_FEEDBACK.
Waiting(l) ==
    CASE l.class \in {"POLICY_RESOLVABLE", "ENVIRONMENT_MISMATCH", "TOOL_LIMIT"} ->
            IF l.resume = None THEN Gate("INCOMPLETE_BINDING")
                               ELSE Action("CONTINUE_SAME_SESSION", l.resume)
      [] l.class = "CI_DEPENDENT" -> Action("RECONCILE_CI_EVIDENCE", "CI_CLASSIFIED")
      [] l.class = "REVIEW_DEPENDENT" -> Action("RECONCILE_REVIEW_EVIDENCE", "REVIEW_RESULT")
      [] l.class = "SHARED_CONTRACT_REQUIRED" -> Gate("SHARED_CONTRACT_REQUIRED")
      [] l.class = "SCOPE_OR_NEW_TASK_REQUIRED" -> Gate("PARENT_REQUIRED_NEW_TASK")
      [] l.class = "OWNER_DECISION_REQUIRED" -> Gate("OWNER_AUTHORITY_REQUIRED")
      [] OTHER -> Gate("UNCLASSIFIED_WAITING")

\* FAILED.
Failed(l) ==
    CASE l.class = "RECOVERABLE" ->
            IF l.resume = None THEN Gate("INCOMPLETE_BINDING")
                               ELSE Action("RECOVER_SAME_LINEAGE", l.resume)
      [] l.class = "CANDIDATE_DEFECT" -> Action("CONTINUE_SAME_WRITER", "CORRECTION_REQUIRED")
      [] l.class = "SESSION_CONTINUATION_UNAVAILABLE" -> Gate("PARENT_REQUIRED_NEW_TASK")
      [] l.class = "PARENT_REQUIRED" -> Gate("PARENT_AUTHORITY_REQUIRED")
      [] l.class = "OWNER_REQUIRED" -> Gate("OWNER_AUTHORITY_REQUIRED")
      [] OTHER -> Gate("UNCLASSIFIED_FAILURE")

\* PAUSED.  Before it, a mutant: without a resume state nothing is decided.
PausedSilently(l) ==
    IF l.resume = None THEN Gate(None) ELSE Action("RESUME_PAUSED_LANE", l.resume)

Paused(l) ==
    IF l.resume = None THEN Gate("PAUSE_REQUIRES_AUTHORITY")
                       ELSE Action("RESUME_PAUSED_LANE", l.resume)

\* resolve_next_action.
ResolveNextAction(l) ==
    CASE l.state \in DOMAIN Simple -> Simple[l.state]
      [] l.state = "CI_CLASSIFIED" -> AfterCI(l)
      [] l.state = "REVIEW_RESULT" -> AfterReview(l)
      [] l.state = "PARENT_REVIEW_PENDING" -> Gate("PARENT_AUTHORITY_REQUIRED")
      [] l.state = "AWAITING_USER_FEEDBACK" -> Waiting(l)
      [] l.state = "FAILED" -> Failed(l)
      [] l.state = "PAUSED" -> Paused(l)

-----------------------------------------------------------------------------
(* ues/reconciliation.py *)

\* What a cycle may find besides the evidence is its circumstance.  _structural_issues:
\* the binding lacks a part or names one twice.
StructuralGate(c) == IF c = "structural" THEN "INCOMPLETE_BINDING" ELSE None

\* _drift_issues: its identity or its actors differ from the previous binding's.
DriftGate(c) == IF c = "drift" THEN "BINDING_DRIFT_RECONCILIATION_REQUIRED" ELSE None

\* reconcile_portfolio: another binding is of the same lane, or of the same session.
PortfolioGate(c) ==
    CASE c = "duplicate" -> "AMBIGUOUS_LANE_BINDING"
      [] c = "session"   -> "AMBIGUOUS_PROVIDER_SESSION"
      [] OTHER           -> None

\* The gates before the lane is looked at.
EarlyGates(c) == {PortfolioGate(c), StructuralGate(c), DriftGate(c)} \ {None}

ASSUME CircumstancesAssumption ==
    /\ "none" \in Circumstances
    /\ \A c \in Circumstances :
          \/ EarlyGates(c) # {}
          \/ c \in {"none", "in_flight", "profile", "unproven_actor", "ambiguous_actor", "no_pr"}

\* _provider_actor_role: the external effects that address a writer's or a reviewer's
\* session.
AddressesActor(a) == a \in ExternalEffects \ {"PUBLISH_CANDIDATE", "RUN_EXACT_HEAD_CI"}

\* resolve_actor_binding and _actor_issues: the session addressed is not proven, or ambiguous.
ActorGate(a, c) ==
    CASE AddressesActor(a) /\ c = "ambiguous_actor" -> "AMBIGUOUS_ACTOR_BINDING"
      [] AddressesActor(a) /\ c = "unproven_actor"  -> "ACTOR_BINDING_REQUIRED"
      [] OTHER -> None

\* _ci_evidence_issues and _review_evidence_issues: there is evidence for this head and
\* it was never invalidated.  Before the first, a mutant: evidence is evidence.
AnyEvidence(e, h) == e # None
Exact(e, h) == e # None /\ e.sha = h /\ ~e.stale

\* _action_issues, as the stop gate reconcile_workstream makes of them (None: no issue).
IssueGate(l, a, c) ==
    LET needsPR == {"RUN_EXACT_HEAD_CI", "START_EXACT_SHA_REVIEW", "CAPTURE_REVIEW_RESULT",
                    "START_RE_REVIEW", "REQUEST_PARENT_REVIEW", "RECONCILE_REVIEW_EVIDENCE"}
        needsCI == {"CLASSIFY_CI", "RECONCILE_CI_EVIDENCE", "START_EXACT_SHA_REVIEW",
                    "START_RE_REVIEW"}
        needsReview == {"REQUEST_PARENT_REVIEW", "RECONCILE_REVIEW_EVIDENCE",
                        "ROUTE_FINDINGS_TO_SAME_WRITER"}
    IN  IF c = "profile" THEN "EVIDENCE_INCOMPLETE"
        ELSE IF ActorGate(a, c) # None THEN ActorGate(a, c)
        ELSE IF \/ c = "no_pr" /\ a \in needsPR
                \/ a \in needsCI /\ ~Exact(l.ci, l.head)
                \/ a \in needsReview /\ ~Exact(l.review, l.head)
             THEN "INCOMPLETE_BINDING" ELSE None

Stale(e, h) == IF e # None /\ e.sha # h THEN [e EXCEPT !.stale = TRUE] ELSE e

\* _invalidate_mismatch: evidence for another head is stale, and a lane that rests on
\* such a review goes back.
InvalidateMismatch(l) ==
    LET rests == {"REVIEW_RESULT", "PARENT_REVIEW_PENDING", "REVIEWER_ACTIVE"} IN
    [l EXCEPT !.review = Stale(@, l.head), !.ci = Stale(@, l.head),
              !.state = IF l.review # None /\ l.review.sha # l.head /\ @ \in rests
                          THEN "PRIOR_REVIEW_STALE" ELSE @]

\* _invalidate_sha_move, for a binding b whose head differs from the previous one's; the
\* evidence it does not bring is the previous one's.
InvalidateShaMove(b, previous) ==
    IF b.head = previous.head THEN b
    ELSE [b EXCEPT !.state = "NEW_SHA",
                   !.review = IF @ = None THEN previous.review ELSE @,
                   !.ci = IF @ = None THEN previous.ci ELSE @]

\* reconcile_workstream for a binding b in circumstances c (and reconcile_portfolio's
\* checks before it): the binding that results and its resolution.
Reconcile(b, previous, c) ==
    LET l == InvalidateMismatch(InvalidateShaMove(b, previous))
        d == IF c = "in_flight" THEN Action("VERIFY_ACTION_IN_FLIGHT", l.state)
                                ELSE ResolveNextAction(l)
        g == IF d.action = None THEN None ELSE IssueGate(l, d.action, c)
    IN  IF EarlyGates(c) # {}
        THEN [lane |-> b, decision |-> Gate(CHOOSE e \in EarlyGates(c) : TRUE)]
        ELSE [lane |-> l, decision |-> IF g = None THEN d ELSE Gate(g)]

-----------------------------------------------------------------------------
(* The cycle *)

Init ==
    /\ head = Base
    /\ lane = [state |-> "WRITER_ACTIVE", head |-> head, ci |-> None, review |-> None,
               class |-> None, resume |-> None]
    /\ decision = None
    /\ ciSeen = None
    /\ reviewSeen = None
    /\ due = {} /\ passed = {} /\ asked = {} /\ approved = {}
    /\ trouble = 0

\* run_shadow_cycle: the observation brings the latest evidence or what the lane had.  Which
\* binding is previous_by_lane of the next cycle is the caller's choice: the last one that
\* was reconciled, or the last one that was returned (KeepBlocked).
RunShadowCycle(c, ci, review) ==
    LET b == [lane EXCEPT !.head = head, !.ci = ci, !.review = review]
        r == Reconcile(b, lane, c)
    IN  /\ lane' = IF EarlyGates(c) = {} \/ KeepBlocked THEN r.lane ELSE lane
        /\ decision' = r.decision
        /\ UNCHANGED <<head, evidence, trouble>>

CleanCycle == RunShadowCycle("none", ciSeen, reviewSeen)

-----------------------------------------------------------------------------
(* Outside the code: the controller, the writer, the CI and the reviewer *)

\* The decision is acted upon.  A review result is captured once there is one.
Act ==
    /\ decision # None
    /\ decision.action # None
    /\ decision.action = "CAPTURE_REVIEW_RESULT" =>
          reviewSeen # None /\ reviewSeen.sha = lane.head
    /\ lane' = [lane EXCEPT !.state = decision.next,
                            !.class = IF decision.next \in Interrupted THEN @ ELSE None,
                            !.resume = IF decision.next \in Interrupted THEN @ ELSE None]
    /\ decision' = None
    /\ LET start == decision.action \in {"START_EXACT_SHA_REVIEW", "START_RE_REVIEW"} IN
          /\ asked' = IF start THEN asked \cup {lane.head} ELSE asked
          /\ due' = IF start THEN due \cup {lane.head} ELSE due
    /\ UNCHANGED <<head, ciSeen, reviewSeen, passed, approved, trouble>>

Trouble == trouble < MaxTrouble /\ trouble' = trouble + 1

Push(s) ==
    /\ s # head
    /\ Trouble
    /\ head' = s
    /\ UNCHANGED <<evidence, lane, decision>>

\* A run for the head, or a late one for the head of the last cycle.
FinishCI(s, outcome, class) ==
    /\ s \in {head, lane.head}
    /\ IF outcome = "PASS" THEN class = None /\ UNCHANGED trouble ELSE Trouble
    /\ ciSeen' = [sha |-> s, outcome |-> outcome, class |-> class, stale |-> FALSE]
    /\ passed' = IF outcome = "PASS" THEN passed \cup {s} ELSE passed
    /\ UNCHANGED <<head, reviewSeen, due, asked, approved, lane, decision>>

FinishReview(s, outcome) ==
    /\ s \in due
    /\ IF outcome = "PASS" THEN UNCHANGED trouble ELSE Trouble
    /\ due' = due \ {s}
    /\ reviewSeen' = [sha |-> s, outcome |-> outcome, stale |-> FALSE]
    /\ approved' = IF outcome = "PASS" THEN approved \cup {s} ELSE approved
    /\ UNCHANGED <<head, ciSeen, passed, asked, lane, decision>>

\* The session waits, fails or is paused; where to resume is proven or not.
Interrupt(state, class, resume) ==
    /\ lane.state \notin Interrupted
    /\ resume \in {lane.state, None}
    /\ Trouble
    /\ lane' = [lane EXCEPT !.state = state, !.class = class, !.resume = resume]
    /\ decision' = None
    /\ UNCHANGED <<head, evidence>>

Next ==
    \/ \E c \in Circumstances, ci \in {lane.ci, ciSeen}, review \in {lane.review, reviewSeen} :
          RunShadowCycle(c, ci, review)
    \/ Act
    \/ \E s \in Shas : Push(s)
    \/ \E s \in Shas :
          \/ FinishCI(s, "PASS", None)
          \/ \E class \in FailureClasses \cup {None} : FinishCI(s, "FAILURE", class)
    \/ \E s \in Shas, outcome \in {"PASS", "FINDINGS"} : FinishReview(s, outcome)
    \/ \E resume \in States \cup {None} :
          \/ \E class \in WaitingClasses : Interrupt("AWAITING_USER_FEEDBACK", class, resume)
          \/ \E class \in FailureClasses : Interrupt("FAILED", class, resume)
          \/ Interrupt("PAUSED", None, resume)

Spec == Init /\ [][Next]_vars

\* Cycles recur, and not every one of them meets an obstacle; the controller acts
\* on what they decide beside verifying an action in flight; the reviewer answers and the
\* CI eventually passes the head.
FairSpec ==
    /\ Spec
    /\ SF_vars(CleanCycle)
    /\ SF_vars(Act /\ decision.action # "VERIFY_ACTION_IN_FLIGHT")
    /\ SF_vars(FinishCI(head, "PASS", None))
    /\ \A s \in Shas : WF_vars(FinishReview(s, "PASS"))

-----------------------------------------------------------------------------
(* Properties *)

\* Types; and a decision is never silent: it names an action or a stop gate.
TypeOK ==
    /\ head \in Shas
    /\ ciSeen \in CI \cup {None}
    /\ reviewSeen \in Review \cup {None}
    /\ due \subseteq Shas /\ passed \subseteq Shas
    /\ asked \subseteq Shas /\ approved \subseteq Shas
    /\ lane \in Lane
    /\ decision # None => (decision.action = None) # (decision.gate = None)
    /\ trouble \in 0..MaxTrouble

\* A review is asked for only for a commit that has passed CI, whatever moves, arrives
\* late or interrupts the lane between the CI result and the request.
ReviewOnlyAfterPass == asked \subseteq passed

\* A lane that a cycle leaves to the parent's decision rests on a passed review and a
\* passed CI run of the head that cycle has observed.
ParentPendingIsReviewed ==
    /\ decision # None
    /\ decision.gate = "PARENT_AUTHORITY_REQUIRED"
    /\ lane.state = "PARENT_REVIEW_PENDING"
    => lane.head \in passed \cap approved

\* An interruption that only an authority can end.
Parked == lane.state \in Interrupted /\ Reconcile(lane, lane, "none").decision.gate # None

\* Every lane reaches the parent's decision on its final head, or is parked: no sequence of
\* transitions goes round in circles.
ParentOrParked ==
    \/ <>[](lane.state = "PARENT_REVIEW_PENDING" /\ lane.head = head)
    \/ <>[]Parked
=============================================================================

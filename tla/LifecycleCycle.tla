--------------------------- MODULE LifecycleCycle ---------------------------
(***************************************************************************)
(* The current-authority lifecycle cycle of one workstream: a job is woken *)
(* (ues/event_wakeup.py), reads the provider's sessions, the pull request  *)
(* and the sessions' activities, plans a recovery for the writer's and the *)
(* reviewer's lineage (ues/recovery_catalog.py) and sends what is planned  *)
(* (ues/lifecycle_runtime.py, _v2, _current and _observed).                *)
(*                                                                         *)
(* Everything is read once and used later: sessions ask, finish and are    *)
(* answered by others, the head moves and CI ends while a job is between   *)
(* its reads and its messages.  Jobs of one project do not overlap; the    *)
(* provider's health fallback, a cycle without authority in another        *)
(* concurrency group, overlaps them and closes the lanes it observes.      *)
(* The claim of an operation and the records after it are one step each    *)
(* here; OperationClaim has them write by write.  Lanes with a generation  *)
(* request take LineageGeneration's path instead.                          *)
(***************************************************************************)
EXTENDS Naturals

CONSTANTS
    Shas, Base,   \* commits, and the pull request's first head
    Events,       \* wakeup events
    External,     \* those of type EXTERNAL_RECONCILIATION_REQUEST
    Wakeups,      \* the jobs that are started: with or without authority, and for which event
    Reports,      \* what a session may report, and the state it is then in
    MaxMoves,     \* bound: moves of the provider's sessions and of the pull request
    MaxFaults,    \* bound: failed reads and writes, cancelled jobs, fallback cycles
    None

ASSUME CycleAssumption ==
    /\ Base \in Shas
    /\ External \subseteq Events
    /\ Wakeups \subseteq [authority : BOOLEAN, event : Events \cup {None}]
    /\ Reports \subseteq [role : {"WRITER", "REVIEWER"}, verdict : {"PASS", "FINDINGS", "UNKNOWN"},
                          state : {"IN_PROGRESS", "COMPLETED", "FAILED"}, sha : Shas \cup {None},
                          status : {"COMPLETE", "CONTEXT_EXHAUSTED", None}]
    /\ MaxMoves \in Nat /\ MaxFaults \in Nat
    /\ None \notin Shas \cup Events

VARIABLES
    head,     \* the pull request's head
    passed,   \* commits whose required CI evidence is PASS
    sess,     \* the provider session of each role
    lanes,    \* the lane record of each role
    ops,      \* the operation record of each message
    ingress,  \* recent_event_fingerprints of the event lane; the events fit its window
    job,      \* the running cycle
    late,     \* messages the provider accepted and has yet to deliver
    sent,     \* history: provider calls made for each message
    served,   \* history: events for which a cycle has run to its end
    moves, faults

vars == <<head, passed, sess, lanes, ops, ingress, job, late, sent, served, moves, faults>>

world == <<head, passed, sess, moves>>
store == <<lanes, ops, ingress>>

-----------------------------------------------------------------------------
(* Records *)

Roles == {"WRITER", "REVIEWER"}
Paired(r) == IF r = "WRITER" THEN "REVIEWER" ELSE "WRITER"

DirectContinuation == {"AWAITING_USER_FEEDBACK", "IN_PROGRESS"}

\* The latest structured handoff; n tells its activity from others, sha is reviewed_sha (the
\* candidate a writer claims never changes the action: the pull request's head does).
NoHandoff == [n |-> 0, status |-> None, verdict |-> "UNKNOWN", sha |-> None]

\* question: the newest agent message; replied: a user message is as new or newer.
NewSession == [state |-> "IN_PROGRESS", question |-> 0, replied |-> TRUE, handoff |-> NoHandoff]

\* open: activation_mode is ACTIVE_AUTO_SAFE; unknown: unknown_write_state is set.
NewLane == [open |-> FALSE, unknown |-> FALSE, lease |-> FALSE]

\* A message is its effect identity: the action, the lane and the trigger.
Answer(r, q)  == [action |-> "waiting-answer", to |-> r, trigger |-> q]
Correction(n) == [action |-> "review-findings-correction", to |-> "WRITER", trigger |-> n]
ReviewOf(s)   == [action |-> "exact-sha-review-request", to |-> "REVIEWER", trigger |-> s]

Messages == {Answer(r, q) : r \in Roles, q \in 1..MaxMoves}
              \cup {Correction(n) : n \in 1..MaxMoves} \cup {ReviewOf(s) : s \in Shas}

\* seen: what the cycle has read of each session and how it is bound; sha, ci: of the pull
\* request; role: the lineage being observed or planned; msg: the message being sent; blind:
\* its lane could not be read when it was planned.
Unseen == [state |-> None, question |-> 0, replied |-> FALSE, handoff |-> NoHandoff,
           binding |-> "UNBOUND"]
Idle == [pc |-> "idle", authority |-> FALSE, event |-> None, role |-> "WRITER",
         seen |-> [r \in Roles |-> Unseen], sha |-> None, ci |-> FALSE, msg |-> None,
         blind |-> FALSE]

Init ==
    /\ head = Base
    /\ passed = {}
    /\ sess = [r \in Roles |-> NewSession]
    /\ lanes = [r \in Roles |-> NewLane]
    /\ ops = [m \in Messages |-> "MISSING"]
    /\ ingress = {}
    /\ job = Idle
    /\ late = {}
    /\ sent = [m \in Messages |-> 0]
    /\ served = {}
    /\ moves = 0
    /\ faults = 0

-----------------------------------------------------------------------------
(* ues/recovery_catalog.py *)

Replace(o) ==
    IF o.budget /\ o.prompt /\ o.alone THEN "CREATE_NEXT_SESSION_GENERATION_SAME_LINEAGE"
                                       ELSE "PREPARE_SAME_LINEAGE_REPLACEMENT"

\* A writer's COMPLETED session.
PlanWriter(o) ==
    IF o.handoff.status = "CONTEXT_EXHAUSTED" /\ o.work THEN Replace(o)
    ELSE IF o.work /\ o.noops = "claimed" THEN "RECONCILE_AUTHORITATIVE_WRITER_DELTA_EVIDENCE"
    ELSE IF o.work /\ o.noops = "proven" THEN Replace(o)
    ELSE IF o.sha # None /\ o.ci = "MISSING" THEN "DIAGNOSE_AND_REMEDIATE_CI_TRIGGER"
    ELSE IF o.sha # None /\ o.ci = "PASS" THEN "ROUTE_CURRENT_SHA_TO_REVIEWER_LINEAGE"
    ELSE IF o.sha # None THEN "VALIDATE_EXACT_WRITER_CANDIDATE"
    ELSE IF o.work THEN Replace(o)
    ELSE "CLOSE_WRITER_LINEAGE"

\* A reviewer's COMPLETED session; a handoff for another commit was handled before.
PlanReviewer(o) ==
    CASE o.handoff.verdict = "PASS" /\ o.handoff.sha # None -> "MARK_CURRENT_SHA_REVIEW_PASS"
      [] o.handoff.verdict = "FINDINGS" -> "ROUTE_STRUCTURED_FINDINGS_TO_WRITER_LINEAGE"
      [] OTHER -> "PARENT_ADJUDICATE_UNSTRUCTURED_COMPLETED_REVIEW"

PlanWaiting(o) ==
    IF o.replied THEN "WAIT_FOR_AGENT_ON_SAME_SESSION"
    ELSE IF o.response THEN "CONTINUE_SAME_SESSION"
    ELSE "RESOLVE_WAITING_INPUT_CONTENT_OR_POLICY"

\* A proven binding whose handoff is not for another commit.
PlanSession(o) ==
    CASE o.state = "AWAITING_USER_FEEDBACK" -> PlanWaiting(o)
      [] o.state = "IN_PROGRESS" -> "OBSERVE_SAME_SESSION_PROGRESS"
      [] o.state \in {"QUEUED", "PLANNING"} -> "WAIT_ACTIVE_SAME_SESSION"
      [] o.state = "AWAITING_PLAN_APPROVAL" -> "APPROVE_PLAN_OR_PARENT_RECONCILE_SAME_SESSION"
      [] o.state = "PAUSED" -> "RECONCILE_PAUSED_SAME_SESSION"
      [] o.state = "COMPLETED" ->
            IF o.role = "WRITER" THEN PlanWriter(o) ELSE PlanReviewer(o)
      [] o.state = "FAILED" ->
            IF o.work THEN Replace(o) ELSE "CLOSE_FAILED_LINEAGE_NO_REPLACEMENT"
      [] OTHER -> "ROOT_CAUSE_RECONCILIATION_REQUIRED"

StaleReview(o) == o.sha # None /\ o.handoff.sha # None /\ o.handoff.sha # o.sha

PlanUnbound(o) ==
    IF o.work /\ o.required /\ o.alone /\ o.budget /\ o.prompt
      THEN "CREATE_OR_ADOPT_SAME_LOGICAL_LINEAGE_GENERATION"
      ELSE "RECONCILE_BINDING_OR_PREPARE_SAME_LINEAGE_REPLACEMENT"

PlanStale(o) ==
    IF o.role = "REVIEWER" /\ o.state = "COMPLETED" /\ o.work /\ o.budget /\ o.prompt /\ o.alone
      THEN "CREATE_NEXT_SESSION_GENERATION_SAME_LINEAGE"
      ELSE "INVALIDATE_STALE_REVIEW_AND_ROUTE_CURRENT_SHA"

PlanBound(o) ==
    IF o.binding = "UNBOUND" THEN PlanUnbound(o)
    ELSE IF StaleReview(o) THEN PlanStale(o)
    ELSE PlanSession(o)

\* plan_recovery.  Before it, a mutant: a missing binding is looked at first.
PlanUnboundFirst(o) ==
    IF o.binding # "UNBOUND" /\ o.unknown THEN "AUTHORITATIVE_POST_WRITE_RECONCILIATION"
    ELSE PlanBound(o)

PlanRecovery(o) ==
    IF o.drift THEN "RECONCILE_GITHUB_LINEAGE_BRANCH_DRIFT"
    ELSE IF o.binding = "AMBIGUOUS" THEN "RECONCILE_EXACT_LINEAGE_BINDING"
    ELSE IF o.unknown THEN "AUTHORITATIVE_POST_WRITE_RECONCILIATION"
    ELSE IF o.intent = "acknowledged"
           THEN "RECONCILE_EXTERNAL_INTENT_ACK_TO_PROVIDER_SESSION_BINDING"
    ELSE IF o.intent = "observed" THEN "RECONCILE_EXTERNAL_INTENT_NO_EFFECT"
    ELSE IF o.intent = "signalled"
           THEN "WAIT_FOR_AUTHORITATIVE_PROVIDER_OBSERVATION_AFTER_EXTERNAL_INTENT"
    ELSE PlanBound(o)

-----------------------------------------------------------------------------
(* A wakeup: ues/event_wakeup.py *)

Fault == faults < MaxFaults /\ faults' = faults + 1

Goto(pc) == job' = [job EXCEPT !.pc = pc]

\* A job starts, with or without a current authority envelope and a wakeup event.  An event
\* may be delivered again until a cycle has run to its end for it (bound: a later delivery
\* runs as a job without an event would, or is coalesced).
Start(w) ==
    /\ job.pc = "idle"
    /\ w.event \notin served
    /\ job' = [Idle EXCEPT !.authority = w.authority, !.event = w.event,
                           !.pc = IF w.event = None THEN "inventory" ELSE "register"]
    /\ UNCHANGED <<world, store, late, sent, served, faults>>

\* _duplicate_event_result: may the cycle go on?  Before it, a mutant: no event may.
CoalesceAll(event) == FALSE
ContinueDuplicate(event) == event \in External

Seen(event) == event \in ingress

\* register_wakeup: a new event is registered; a registered one ends the job unless it is
\* an external request.  A write that fails, although it was performed, ends the job.
RegisterWakeup ==
    /\ job.pc = "register"
    /\ \/ /\ ~Seen(job.event)
          /\ ingress' = ingress \cup {job.event}
          /\ \/ Goto("inventory") /\ UNCHANGED faults
             \/ job' = Idle /\ Fault
       \/ /\ Seen(job.event)
          /\ IF ContinueDuplicate(job.event) THEN Goto("inventory") ELSE job' = Idle
          /\ UNCHANGED <<ingress, faults>>
    /\ UNCHANGED <<world, lanes, ops, late, sent, served>>

\* _degraded_wakeup_after_cas_exhaustion: the write has lost three races and the event is
\* still not registered; the cycle goes on without it.
RegisterDegraded ==
    /\ job.pc = "register"
    /\ ~Seen(job.event)
    /\ Fault
    /\ Goto("inventory")
    /\ UNCHANGED <<world, store, late, sent, served>>

-----------------------------------------------------------------------------
(* What the cycle reads: the first loop of run in ues/lifecycle_runtime_v2.py *)

\* _provider_inventory.
ReadInventory ==
    /\ job.pc = "inventory"
    /\ job' = [job EXCEPT !.pc = "pr",
                          !.seen = [r \in Roles |-> [Unseen EXCEPT !.state = sess[r].state]]]
    /\ UNCHANGED <<world, store, late, sent, served, faults>>

\* The inventory is not available: the wrapper of ues/rp_authority_runtime.py runs the whole
\* cycle again, the registration of its event included (JobFails: its last attempt).
InventoryUnavailable ==
    /\ job.pc = "inventory"
    /\ Fault
    /\ Goto(IF job.event = None THEN "inventory" ELSE "register")
    /\ UNCHANGED <<world, store, late, sent, served>>

\* _workstream_pr_state_current: the head, and the required CI evidence of that commit.
\* Before it, a mutant: the evidence of any commit.
ReadAnyCI ==
    /\ job.pc = "pr"
    /\ job' = [job EXCEPT !.pc = "observe", !.sha = head, !.ci = passed # {}]
    /\ UNCHANGED <<world, store, late, sent, served, faults>>

ReadPR ==
    /\ job.pc = "pr"
    /\ job' = [job EXCEPT !.pc = "observe", !.sha = head, !.ci = head \in passed]
    /\ UNCHANGED <<world, store, late, sent, served, faults>>

\* _waiting_state: the newest agent message, and whether a user message is as new; the
\* executor looks at it only if the inventory has the session waiting.
WaitingState(r) ==
    IF job.seen[r].state = "AWAITING_USER_FEEDBACK"
      THEN [question |-> sess[r].question, replied |-> sess[r].replied]
      ELSE [question |-> 0, replied |-> FALSE]

\* One lineage: its session is matched, its activities are listed, and the observation is
\* persisted, which puts the lane into SHADOW.
ObserveLane ==
    LET r == job.role
        w == WaitingState(r)
        see(b) == [job.seen EXCEPT ![r] =
                     IF b = "PROVEN"
                       THEN [state |-> @.state, handoff |-> sess[r].handoff, binding |-> b,
                             question |-> w.question, replied |-> w.replied]
                       ELSE [@ EXCEPT !.binding = b]]
    IN  /\ job.pc = "observe"
        /\ \E b \in {"PROVEN", "UNBOUND", "AMBIGUOUS"} :
              /\ IF b = "PROVEN" THEN UNCHANGED faults ELSE Fault
              /\ job' = [job EXCEPT !.seen = see(b), !.role = Paired(r),
                                    !.pc = IF r = "WRITER" THEN "observe" ELSE "plan"]
        /\ lanes' = [lanes EXCEPT ![r].open = FALSE]
        /\ UNCHANGED <<world, ops, ingress, late, sent, served>>

-----------------------------------------------------------------------------
(* What it does about it: the second loop *)

\* _waiting_response: the envelope, where there is one, carries an answer for either role.
WaitingResponse == job.authority

\* The observation plan_recovery is given, with what was read of the lane's unknown write.
\* This path never creates a session: the duplicate check is reported as not made.
Observation(r, unknown) ==
    LET v == job.seen[r] IN
    [role |-> r, state |-> v.state, replied |-> v.replied, handoff |-> v.handoff,
     binding |-> v.binding, sha |-> job.sha, ci |-> IF job.ci THEN "PASS" ELSE "FAIL",
     unknown |-> unknown, response |-> WaitingResponse, drift |-> FALSE, intent |-> "none",
     noops |-> "none", work |-> TRUE, budget |-> FALSE, prompt |-> TRUE, required |-> FALSE,
     alone |-> FALSE]

\* The message of a lineage r with this plan (_execute_recovery), None if there is none.
MessageFor(r, action) ==
    LET v == job.seen[r]
        w == job.seen[Paired(r)]
        continues == w.binding = "PROVEN" /\ w.state \in DirectContinuation
    IN  CASE action = "CONTINUE_SAME_SESSION" /\ v.question > 0 -> Answer(r, v.question)
          [] action = "ROUTE_STRUCTURED_FINDINGS_TO_WRITER_LINEAGE" /\ continues ->
                Correction(v.handoff.n)
          [] action = "ROUTE_CURRENT_SHA_TO_REVIEWER_LINEAGE" /\ continues -> ReviewOf(job.sha)
          [] OTHER -> None

\* _legacy_recovery_with_current_authority: without an authority event nothing is sent.
WithAuthority(m) == IF job.authority THEN m ELSE None

\* The next lineage, or the end of the cycle.  Before it, a mutant: an effect ends the cycle.
EndAfterFirst ==
    IF job.role = "WRITER" /\ job.msg = None
      THEN job' = [job EXCEPT !.pc = "plan", !.role = "REVIEWER"] /\ UNCHANGED served
      ELSE job' = Idle /\ served' = served \cup ({job.event} \ {None})

NextLineage ==
    IF job.role = "WRITER"
      THEN /\ job' = [job EXCEPT !.pc = "plan", !.role = "REVIEWER", !.msg = None,
                                 !.blind = FALSE]
           /\ UNCHANGED served
      ELSE job' = Idle /\ served' = served \cup ({job.event} \ {None})

\* The recovery planned for the lineage r from this much of its lane, and executed.
PlanFor(r, unknown, blind) ==
    LET m == WithAuthority(MessageFor(r, PlanRecovery(Observation(r, unknown)))) IN
    /\ job.pc = "plan"
    /\ IF m # None
         THEN /\ job' = [job EXCEPT !.pc = "authorize", !.msg = m, !.blind = blind]
              /\ UNCHANGED served
         ELSE NextLineage
    /\ UNCHANGED <<world, store, late, sent>>

\* Mutant of Plan: an unknown write is not looked at.
PlanUnawares == PlanFor(job.role, FALSE, FALSE) /\ UNCHANGED faults

\* The lane is read again (_state_snapshot).
Plan == PlanFor(job.role, lanes[job.role].unknown, FALSE) /\ UNCHANGED faults

\* The lane cannot be read: the snapshot is empty and its unknown write is not seen (a lane
\* without one is planned as if it had been read).  Such reads are not among the faults.
PlanUnread ==
    /\ lanes[job.role].unknown
    /\ PlanFor(job.role, FALSE, TRUE)
    /\ UNCHANGED faults

-----------------------------------------------------------------------------
(* send_same_lineage_message *)

To == job.msg.to

Authorize ==
    /\ job.pc = "authorize"
    /\ lanes' = [lanes EXCEPT ![To].open = TRUE]
    /\ Goto("claim")
    /\ UNCHANGED <<world, ops, ingress, late, sent, served, faults>>

\* claim_operation.  Before it, a mutant: whatever is not confirmed is sent again.
ClaimUnconfirmed ==
    /\ job.pc = "claim"
    /\ IF lanes[To].open /\ ~lanes[To].lease /\ ops[job.msg] # "CONFIRMED"
         THEN /\ ops' = [ops EXCEPT ![job.msg] = "IN_FLIGHT"]
              /\ lanes' = [lanes EXCEPT ![To].lease = TRUE]
              /\ Goto("send")
         ELSE Goto("restore") /\ UNCHANGED <<ops, lanes>>
    /\ UNCHANGED <<world, ingress, late, sent, served, faults>>

Claim ==
    /\ job.pc = "claim"
    /\ IF lanes[To].open /\ ~lanes[To].lease /\ ops[job.msg] = "MISSING"
         THEN /\ ops' = [ops EXCEPT ![job.msg] = "IN_FLIGHT"]
              /\ lanes' = [lanes EXCEPT ![To].lease = TRUE]
              /\ Goto("send")
         ELSE Goto("restore") /\ UNCHANGED <<ops, lanes>>
    /\ UNCHANGED <<world, ingress, late, sent, served, faults>>

Delivered(m) == sess' = [sess EXCEPT ![m.to].replied = TRUE]

\* JulesClient.send_message: the session is read again and refuses the message, or it is
\* posted and then proven by its activity, or not, with the message delivered, lost or late.
SendMessage(m, Proven, Raised) ==
    \/ /\ sess[m.to].state \notin DirectContinuation
       /\ Raised
       /\ UNCHANGED <<sess, late, sent, faults>>
    \/ /\ sess[m.to].state \in DirectContinuation
       /\ sent' = [sent EXCEPT ![m] = @ + 1]
       /\ \/ Delivered(m) /\ Proven /\ UNCHANGED <<late, faults>>
          \/ Delivered(m) /\ Raised /\ Fault /\ UNCHANGED late
          \/ Raised /\ Fault /\ UNCHANGED <<sess, late>>
          \/ late' = late \cup {m} /\ Raised /\ Fault /\ UNCHANGED sess

\* Whatever it raises is recorded as an unknown write, a refusal before the POST included.
Send ==
    /\ job.pc = "send"
    /\ SendMessage(job.msg, Goto("confirm"), Goto("unknown"))
    /\ UNCHANGED <<head, passed, moves, store, served>>

\* record_authoritative_readback: the lane's marker and lease are cleared.
Confirm ==
    /\ job.pc = "confirm"
    /\ ops' = [ops EXCEPT ![job.msg] = "CONFIRMED"]
    /\ lanes' = [lanes EXCEPT ![To].unknown = FALSE, ![To].lease = FALSE]
    /\ Goto("restore")
    /\ UNCHANGED <<world, ingress, late, sent, served, faults>>

\* record_unknown_write: the lease stays.
RecordUnknown ==
    /\ job.pc = "unknown"
    /\ ops' = [ops EXCEPT ![job.msg] = "UNKNOWN"]
    /\ lanes' = [lanes EXCEPT ![To].unknown = TRUE]
    /\ Goto("restore")
    /\ UNCHANGED <<world, ingress, late, sent, served, faults>>

RestoreShadow ==
    /\ job.pc = "restore"
    /\ lanes' = [lanes EXCEPT ![To].open = FALSE]
    /\ NextLineage
    /\ UNCHANGED <<world, ops, ingress, late, sent, faults>>

\* A read or a write of the job fails, or the job is cancelled: what it raises leaves the
\* executor through its finally, a cancellation does not.
JobFails ==
    /\ job.pc # "idle"
    /\ Fault
    /\ job' = Idle
    /\ \/ UNCHANGED lanes
       \/ job.pc \in {"claim", "confirm", "unknown"} /\ lanes' = [lanes EXCEPT ![To].open = FALSE]
    /\ UNCHANGED <<world, ops, ingress, late, sent, served>>

-----------------------------------------------------------------------------
(* Outside the cycle *)

\* The health fallback of the provider observer's workflow observes a lane.
FallbackObserves(r) ==
    /\ lanes[r].open
    /\ Fault
    /\ lanes' = [lanes EXCEPT ![r].open = FALSE]
    /\ UNCHANGED <<world, ops, ingress, job, late, sent, served>>

LeaseExpires(r) ==
    /\ lanes[r].lease
    /\ job.msg = None
    /\ lanes' = [lanes EXCEPT ![r].lease = FALSE]
    /\ UNCHANGED <<world, ops, ingress, job, late, sent, served, faults>>

DeliverLate(m) ==
    /\ m \in late
    /\ late' = late \ {m}
    /\ Delivered(m)
    /\ UNCHANGED <<head, passed, moves, store, job, sent, served, faults>>

outside == <<store, job, late, sent, served, faults>>

Move == moves < MaxMoves /\ moves' = moves + 1

Ask(r) ==
    /\ sess[r].state = "IN_PROGRESS"
    /\ Move
    /\ sess' = [sess EXCEPT ![r].state = "AWAITING_USER_FEEDBACK", ![r].question = moves + 1,
                            ![r].replied = FALSE]
    /\ UNCHANGED <<head, passed, outside>>

\* The agent takes an answer up, the cycle's or the owner's.
Resume(r) ==
    /\ sess[r].state = "AWAITING_USER_FEEDBACK"
    /\ sess' = [sess EXCEPT ![r].state = "IN_PROGRESS", ![r].replied = TRUE]
    /\ UNCHANGED <<head, passed, moves, outside>>

\* The handoff that is found in a session's messages after one more: a message without a
\* valid block of the lineage is passed over for the one before.
LatestHandoff(s, h) ==
    IF h.status = None
      THEN s.handoff
      ELSE [n |-> moves + 1, status |-> h.status, verdict |-> h.verdict, sha |-> h.sha]

\* A session hands off, ends or both.
HandOff(h) ==
    /\ sess[h.role].state = "IN_PROGRESS"
    /\ Move
    /\ sess' = [sess EXCEPT ![h.role].state = h.state,
                           ![h.role].handoff = LatestHandoff(sess[h.role], h)]
    /\ UNCHANGED <<head, passed, outside>>

Push(s) ==
    /\ s # head
    /\ Move
    /\ head' = s
    /\ UNCHANGED <<passed, sess, outside>>

\* The required CI evidence of the head becomes PASS.
PassCI ==
    /\ head \notin passed
    /\ passed' = passed \cup {head}
    /\ UNCHANGED <<head, sess, moves, outside>>

-----------------------------------------------------------------------------
Step ==
    \/ RegisterWakeup \/ RegisterDegraded \/ ReadInventory \/ ReadPR \/ ObserveLane \/ Plan
    \/ Authorize \/ Claim \/ Send \/ Confirm \/ RecordUnknown \/ RestoreShadow

Next ==
    \/ \E w \in Wakeups : Start(w)
    \/ Step
    \/ PlanUnread
    \/ JobFails \/ InventoryUnavailable
    \/ \E r \in Roles :
          FallbackObserves(r) \/ LeaseExpires(r) \/ Ask(r) \/ Resume(r)
    \/ \E m \in Messages : DeliverLate(m)
    \/ \E h \in Reports : HandOff(h)
    \/ \E s \in Shas : Push(s)
    \/ PassCI

Spec == Init /\ [][Next]_vars

\* Jobs with an authority envelope are started again and again, and for an external request
\* until one has run to its end; a job goes on; leases expire.
FairSpec ==
    /\ Spec
    /\ SF_vars(Start([authority |-> TRUE, event |-> None]))
    /\ \A e \in External : SF_vars(Start([authority |-> TRUE, event |-> e]))
    /\ WF_vars(Step)
    /\ SF_vars(\E r \in Roles : LeaseExpires(r))

-----------------------------------------------------------------------------
(* Properties *)

\* A question is answered, a review of a commit asked for and the findings of a handoff
\* passed on at most once, however often jobs are woken, fail or are cancelled.
SentOnce == \A m \in Messages : sent[m] <= 1

\* A review is asked for only of a commit whose own CI evidence was PASS, although the head
\* and the CI move between the cycle's reads and its message.
ReviewOfPassed == \A s \in Shas : sent[ReviewOf(s)] > 0 => s \in passed

\* A cycle that could read the lane sends no answer over an unresolved unknown write, the one
\* it has left itself while it planned the paired lineage included.  (One that could not
\* read it does: nothing after the plan looks at the marker.)
NoAnswerOverReadUnknown ==
    [][\A r \in Roles, q \in 1..MaxMoves :
          sent'[Answer(r, q)] # sent[Answer(r, q)] => ~lanes[r].unknown \/ job.blind]_vars

\* What may stand against an effect, and the lineage's observation with only that against it.
Obstacles == {"none", "unknown", "drift", "ambiguous", "signalled", "acknowledged", "observed",
              "no work", "no budget", "no prompt", "not required", "not alone"}

Against(o, x, bound, noops) ==
    [o EXCEPT !.binding = IF x = "ambiguous" THEN "AMBIGUOUS" ELSE bound, !.noops = noops,
              !.unknown = x = "unknown", !.drift = x = "drift",
              !.intent = IF x \in {"signalled", "acknowledged", "observed"} THEN x ELSE "none",
              !.work = x # "no work", !.budget = x # "no budget", !.prompt = x # "no prompt",
              !.required = x # "not required", !.alone = x # "not alone"]

\* The catalog's promise, for every session and pull request a cycle plans with: a plan that
\* writes to the provider is made only when no write is unknown, no external intent is open
\* and the lineage is neither ambiguous nor drifted, and one that creates a session only
\* with work left, a budget, a task specification and a duplicate check.
CatalogIsSafe ==
    job.pc = "plan" =>
      LET o == Observation(job.role, lanes[job.role].unknown) IN
      \A x \in Obstacles, bound \in {"PROVEN", "UNBOUND"}, noops \in {"none", "claimed", "proven"} :
        LET a == PlanRecovery(Against(o, x, bound, noops))
            creates == a \in {"CREATE_NEXT_SESSION_GENERATION_SAME_LINEAGE",
                              "CREATE_OR_ADOPT_SAME_LOGICAL_LINEAGE_GENERATION"}
            writes == creates \/ a \in {"CONTINUE_SAME_SESSION",
                                        "ROUTE_STRUCTURED_FINDINGS_TO_WRITER_LINEAGE",
                                        "ROUTE_CURRENT_SHA_TO_REVIEWER_LINEAGE"}
        IN  /\ writes => x \in {"none", "no work", "no budget", "no prompt", "not required",
                                "not alone"}
            /\ creates => x \in {"none", "not required"}

\* A question that nothing in the cycle will answer: its answer was claimed and its outcome
\* is not known, the lane has another unknown write, or an earlier handoff of the session is
\* for another commit.
Parked(r) ==
    LET s == sess[r] IN
    \/ ops[Answer(r, s.question)] \in {"IN_FLIGHT", "UNKNOWN"}
    \/ lanes[r].unknown
    \/ s.handoff.sha \notin {None, head}

Open(r) == sess[r].state = "AWAITING_USER_FEEDBACK" /\ ~sess[r].replied

\* Every question is eventually answered, or parked where a reconciler or the parent decides.
QuestionsEnd == \A r \in Roles : []<>(~Open(r) \/ Parked(r))

\* A cycle eventually runs to its end for every external request, although the job that has
\* registered it may fail.
ExternalServed == \A e \in External : []<>(e \in served)
=============================================================================

-------------------------- MODULE WorkflowDispatch --------------------------
(***************************************************************************)
(* The dispatch of an evidence workflow that the parent has authorized for *)
(* a pull request: _handle_current_dispatches of                           *)
(* ues/lifecycle_runtime_current.py, dispatch_workflow_once and            *)
(* reconcile_unknown_workflow_dispatch of ues/workflow_dispatch.py, and    *)
(* the bounded POST and its readbacks in ues/providers/_github_dispatch.py.*)
(*                                                                         *)
(* The POST names a branch, its effect a workflow run of whatever commit   *)
(* the branch has then; GitHub lists the run some time later.  The         *)
(* dispatch is proved by the one run of the expected commit that was not   *)
(* listed before the POST.  The lifecycle jobs of a project are serialised *)
(* by their concurrency group: there is one job at a time, and the next    *)
(* one finds what a cancelled one has left.                                *)
(***************************************************************************)
EXTENDS Naturals, Sequences, FiniteSets

CONSTANTS
    Shas, Base,     \* commits of the branch, and the one it starts from
    Requests,       \* what the parent may ask for: workflow, inputs and purpose
    Allowed,        \* the requests whose workflow inputs the adapter allows
    MaxRuns,        \* bound: runs of the workflow on the branch
    MaxMoves,       \* bound: pushes and changes of the request
    MaxFaults,      \* bound: cancelled jobs, failed writes and failed reads of the state
    None

ASSUME DispatchAssumption ==
    /\ Base \in Shas
    /\ Allowed \subseteq Requests
    /\ MaxRuns \in Nat \ {0} /\ MaxMoves \in Nat /\ MaxFaults \in Nat
    /\ None \notin Shas \X Requests

VARIABLES
    head,       \* the branch's commit
    request,    \* the request in the current authority
    runs,       \* the commit of each workflow run, in the order of creation
    listed,     \* the runs GitHub lists
    lane,       \* the effect lane's record
    ops,        \* the OperationRecord of each dispatch
    posts,      \* how often each dispatch was posted (history)
    job,        \* the lifecycle job
    moves,      \* pushes and changed requests so far
    faults      \* faults so far

vars == <<head, request, runs, listed, lane, ops, posts, job, moves, faults>>

github == <<head, runs, listed>>
outside == <<head, request, moves>>

Ids == 1..MaxRuns

\* The target of the effect identity: the operation is keyed by it.
Ops == Shas \X Requests

\* before: recovery.before_run_ids of the UNKNOWN receipt, None without it; run: the
\* run_id of the authoritative readback.
NoOperation == [state |-> "MISSING", before |-> None, run |-> 0]

\* inflight: lease and action_in_flight; open: ACTIVE_AUTO_SAFE.
NoLane == [unknown |-> None, inflight |-> None, open |-> FALSE]

Idle == [pc |-> "idle", sha |-> None, req |-> None, before |-> None, run |-> 0, inner |-> FALSE]

Init ==
    /\ head = Base
    /\ request \in Requests
    /\ runs = <<>>
    /\ listed = {}
    /\ lane = NoLane
    /\ ops = [o \in Ops |-> NoOperation]
    /\ posts = [o \in Ops |-> 0]
    /\ job = Idle
    /\ moves = 0
    /\ faults = 0

-----------------------------------------------------------------------------
(* Control *)

At(l) == job.pc = l
Op == <<job.sha, job.req>>
Goto(l) == job' = [job EXCEPT !.pc = l]
Stop == job' = Idle

\* dispatch_workflow_once restores SHADOW in its finally; the reconciler has none.
Leave == IF job.inner THEN Goto("restore") ELSE Stop

Fault == faults < MaxFaults /\ faults' = faults + 1

\* One read and compare-and-swap; a write that is reported as failed may have been
\* performed.
Write(v, new, Ok, Fail) ==
    \/ v' = new /\ Ok /\ UNCHANGED faults
    \/ Fault /\ v' \in {new, v} /\ Fail

-----------------------------------------------------------------------------
(* _handle_current_dispatches for one workstream *)

\* The pull request's head is read.
Start ==
    /\ At("idle")
    /\ job' = [Idle EXCEPT !.pc = "verify", !.sha = head, !.req = request]
    /\ UNCHANGED <<outside, runs, listed, lane, ops, posts, faults>>

\* verify_exact_head, then the lane: an unknown write is reconciled, anything else is
\* dispatched, also a lane that could not be read.
Verify ==
    /\ At("verify")
    /\ \/ head # job.sha /\ Stop /\ UNCHANGED faults
       \/ /\ head = job.sha
          /\ Goto(IF lane.unknown # None THEN "reconcile" ELSE "ensure")
          /\ UNCHANGED faults
       \/ head = job.sha /\ Fault /\ Goto("ensure")
    /\ UNCHANGED <<outside, runs, listed, lane, ops, posts>>

-----------------------------------------------------------------------------
(* dispatch_workflow_once *)

\* _ensure_effect_lane: a lane with an unresolved effect is refused, else it is opened.
\* Before it, a mutant: only the marker of an unknown write is looked at.
EnsureIgnoringInFlight ==
    /\ At("ensure")
    /\ IF lane.unknown # None
         THEN Stop /\ UNCHANGED <<lane, faults>>
         ELSE Write(lane, [lane EXCEPT !.open = TRUE],
                    job' = [job EXCEPT !.pc = "claim", !.inner = TRUE], Stop)
    /\ UNCHANGED <<outside, runs, listed, ops, posts>>

EnsureEffectLane ==
    /\ At("ensure")
    /\ IF lane.unknown # None \/ lane.inflight # None
         THEN Stop /\ UNCHANGED <<lane, faults>>
         ELSE Write(lane, [lane EXCEPT !.open = TRUE],
                    job' = [job EXCEPT !.pc = "claim", !.inner = TRUE], Stop)
    /\ UNCHANGED <<outside, runs, listed, ops, posts>>

\* claim_operation up to its lease: an operation that was ever claimed is not safe to
\* execute.  No other job holds the lane's lease.
AcquireLease ==
    /\ At("claim")
    /\ IF lane.open /\ ops[Op].state = "MISSING"
         THEN Write(lane, [lane EXCEPT !.inflight = Op], Goto("claimop"), Leave)
         ELSE Leave /\ UNCHANGED <<lane, faults>>
    /\ UNCHANGED <<outside, runs, listed, ops, posts>>

ClaimOperation ==
    /\ At("claimop")
    /\ Write(ops, [ops EXCEPT ![Op].state = "IN_FLIGHT"], Goto("mark"), Goto("release"))
    /\ UNCHANGED <<outside, runs, listed, lane, posts>>

\* The lane's operation_key and receipt, which no step here reads back.
MarkLane ==
    /\ At("mark")
    /\ \/ Goto("preflight") /\ UNCHANGED faults
       \/ Fault /\ Leave
    /\ UNCHANGED <<outside, runs, listed, lane, ops, posts>>

ReleaseLease ==
    /\ At("release")
    /\ Write(lane, [lane EXCEPT !.inflight = None], Leave, Leave)
    /\ UNCHANGED <<outside, runs, listed, ops, posts>>

-----------------------------------------------------------------------------
(* dispatch_workflow_bounded *)

\* The inputs are validated, then the branch is read again.  A request that is not
\* allowed raises a ValueError, which dispatch_workflow_once does not catch: the claim
\* stays IN_FLIGHT.  A branch that has moved raises a ProviderError.
Preflight ==
    /\ At("preflight")
    /\ \/ job.req \notin Allowed /\ Goto("restore")
       \/ job.req \in Allowed /\ head = job.sha /\ Goto("before")
       \/ job.req \in Allowed /\ head # job.sha /\ Goto("unknown")
    /\ UNCHANGED <<outside, runs, listed, lane, ops, posts, faults>>

\* The runs that are listed before the POST.
ListBefore ==
    /\ At("before")
    /\ job' = [job EXCEPT !.pc = "post", !.before = listed]
    /\ UNCHANGED <<outside, runs, listed, lane, ops, posts, faults>>

\* Any of the reads raises a ProviderError that is no WriteOutcomeUnknown: the set of
\* earlier runs is not part of what is recorded.  (A listing after the POST that is merely
\* malformed keeps it, as one without the run does.)
ReadFails ==
    /\ job.pc \in {"preflight", "before", "after"} /\ job.req \in Allowed
    /\ job' = [job EXCEPT !.pc = "unknown", !.before = None]
    /\ UNCHANGED <<outside, runs, listed, lane, ops, posts, faults>>

\* GitHub starts a run of the branch's commit.
Dispatched == Len(runs) < MaxRuns /\ runs' = Append(runs, head)

\* The POST: accepted; without an answer; answered with an error.
Post ==
    /\ At("post")
    /\ \/ Dispatched /\ Goto("after")
       \/ (Dispatched \/ UNCHANGED runs) /\ Goto("unknown")
       \/ /\ Dispatched \/ UNCHANGED runs
          /\ job' = [job EXCEPT !.pc = "unknown", !.before = None]
    /\ posts' = [posts EXCEPT ![Op] = @ + 1]
    /\ UNCHANGED <<outside, listed, lane, ops, faults>>

\* _dispatch_candidates.  Before it, a mutant: the runs listed before the POST count, too.
CandidatesOfCommit(before, sha) == {i \in listed : runs[i] = sha}
Candidates(before, sha) == {i \in listed \ before : runs[i] = sha}

\* _read_exact_dispatch_run, for the one candidate.
ReadExactRun(found) == job' = [job EXCEPT !.pc = "confirm", !.run = CHOOSE i \in found : TRUE]

\* The listed runs after the POST, and the exact run when there is one.
ListAfter ==
    LET found == Candidates(job.before, job.sha) IN
    /\ At("after")
    /\ IF Cardinality(found) = 1 THEN ReadExactRun(found) ELSE Goto("unknown")
    /\ UNCHANGED <<outside, runs, listed, lane, ops, posts, faults>>

-----------------------------------------------------------------------------
(* record_unknown_write and record_authoritative_readback *)

RecordUnknown ==
    /\ At("unknown")
    /\ Write(ops, [ops EXCEPT ![Op] = [@ EXCEPT !.state = "UNKNOWN", !.before = job.before]],
             Goto("unknownlane"), Leave)
    /\ UNCHANGED <<outside, runs, listed, lane, posts>>

RecordUnknownLane ==
    /\ At("unknownlane")
    /\ Write(lane, [lane EXCEPT !.unknown = Op], Leave, Leave)
    /\ UNCHANGED <<outside, runs, listed, ops, posts>>

RecordReadback ==
    /\ At("confirm")
    /\ Write(ops, [ops EXCEPT ![Op] = [@ EXCEPT !.state = "CONFIRMED", !.run = job.run]],
             Goto("confirmlane"), Leave)
    /\ UNCHANGED <<outside, runs, listed, lane, posts>>

RecordReadbackLane ==
    /\ At("confirmlane")
    /\ Write(lane, [lane EXCEPT !.unknown = None,
                      !.inflight = IF @ = Op THEN None ELSE @], Leave, Leave)
    /\ UNCHANGED <<outside, runs, listed, ops, posts>>

\* _restore_shadow.
RestoreShadow ==
    /\ At("restore")
    /\ Write(lane, [lane EXCEPT !.open = FALSE], Stop, Stop)
    /\ UNCHANGED <<outside, runs, listed, ops, posts>>

-----------------------------------------------------------------------------
(* reconcile_unknown_workflow_dispatch *)

\* The operation the marker names, when it is the one the request and the head now ask
\* for and its receipt has the set of earlier runs.  Before it, a mutant: the lane must
\* have no effect in flight either.
ReconcilableWhenIdle(o) ==
    /\ lane.unknown = o /\ lane.inflight = None
    /\ ops[o].state \in {"UNKNOWN", "IN_FLIGHT"}
    /\ ops[o].before # None

Reconcilable(o) ==
    /\ lane.unknown = o
    /\ ops[o].state \in {"UNKNOWN", "IN_FLIGHT"}
    /\ ops[o].before # None

\* reconcile_workflow_dispatch_bounded: exactly one new run of the commit is listed, or
\* the outcome stays unknown.
ReconcileBounded(before) ==
    LET found == Candidates(before, job.sha) IN
    IF Cardinality(found) = 1 THEN ReadExactRun(found) ELSE Stop

\* The operation is confirmed by it.  Nothing is posted.
Reconcile ==
    /\ At("reconcile")
    /\ \/ Reconcilable(Op) /\ ReconcileBounded(ops[Op].before) /\ UNCHANGED faults
       \/ ~Reconcilable(Op) /\ Stop /\ UNCHANGED faults
       \/ Fault /\ Stop
    /\ UNCHANGED <<outside, runs, listed, lane, ops, posts>>

-----------------------------------------------------------------------------
(* The environment *)

\* The job is cancelled or dies.
Crash ==
    /\ ~At("idle")
    /\ Fault
    /\ Stop
    /\ UNCHANGED <<outside, runs, listed, lane, ops, posts>>

\* GitHub lists a run it has started.
Appear(i) ==
    /\ i \in DOMAIN runs \ listed
    /\ listed' = listed \cup {i}
    /\ UNCHANGED <<outside, runs, lane, ops, posts, job, faults>>

\* Somebody else starts the workflow on the branch.
DispatchByHand ==
    /\ Dispatched
    /\ UNCHANGED <<outside, listed, lane, ops, posts, job, faults>>

Push(s) ==
    /\ moves < MaxMoves /\ moves' = moves + 1
    /\ s # head /\ head' = s
    /\ UNCHANGED <<request, runs, listed, lane, ops, posts, job, faults>>

\* The parent authorizes another request for the workstream.
Authorize(q) ==
    /\ moves < MaxMoves /\ moves' = moves + 1
    /\ q # request /\ request' = q
    /\ UNCHANGED <<head, runs, listed, lane, ops, posts, job, faults>>

-----------------------------------------------------------------------------
Step ==
    \/ Verify \/ EnsureEffectLane \/ AcquireLease \/ ClaimOperation \/ MarkLane \/ ReleaseLease
    \/ Preflight \/ ListBefore \/ ReadFails \/ Post \/ ListAfter
    \/ RecordUnknown \/ RecordUnknownLane \/ RecordReadback \/ RecordReadbackLane
    \/ RestoreShadow \/ Reconcile

Next ==
    \/ Start
    \/ Step
    \/ Crash
    \/ \E i \in Ids : Appear(i)
    \/ DispatchByHand
    \/ \E s \in Shas : Push(s)
    \/ \E q \in Requests : Authorize(q)

Spec == Init /\ [][Next]_vars

\* A job runs to its end, and the parent's events start another.
FairSpec == Spec /\ WF_vars(Start) /\ WF_vars(Step)

-----------------------------------------------------------------------------
(* Properties *)

\* The run that confirms a dispatch is listed and of the dispatch's commit, and no run
\* confirms two dispatches (_dispatch_candidates and before_run_ids, over listings that
\* lag, pushes between the reads and the POST, and runs that somebody else has started).
EvidenceIsExact ==
    \A o \in Ops : ops[o].state = "CONFIRMED" =>
        /\ ops[o].run \in listed
        /\ runs[ops[o].run] = o[1]
        /\ \A p \in Ops \ {o} : ops[p].state = "CONFIRMED" => ops[p].run # ops[o].run

\* A POST is only made when every earlier POST on the lane is CONFIRMED, and never twice
\* for one dispatch: a cancelled job, a failed write or an UNKNOWN outcome closes the lane
\* to the next job (_ensure_effect_lane and claim_operation).
SettledBeforeNext ==
    [][\A o \in Ops : posts[o] > 0 /\ posts' # posts =>
            ops[o].state = "CONFIRMED" /\ posts'[o] = posts[o]]_vars

\* An UNKNOWN dispatch whose one new run is listed, for the head and the request of the
\* current authority, does not stay so: it is confirmed unless one of them changes
\* (reconcile_unknown_workflow_dispatch).
Resolvable(o) ==
    /\ lane.unknown = o /\ o = <<head, request>>
    /\ ops[o].state = "UNKNOWN" /\ ops[o].before # None
    /\ Cardinality(Candidates(ops[o].before, o[1])) = 1

UnknownSettles == \A o \in Ops : []<>~Resolvable(o)
=============================================================================

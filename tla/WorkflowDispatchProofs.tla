----------------------- MODULE WorkflowDispatchProofs -----------------------
(***************************************************************************)
(* Proofs about WorkflowDispatch, for any commits, requests, runs, moves   *)
(* and faults.                                                             *)
(***************************************************************************)
EXTENDS WorkflowDispatch, TLAPS, FiniteSetTheorems

\* The steps of a job that has claimed its operation and not confirmed it.
Claimed == {"mark", "preflight", "before", "post", "after", "unknown", "unknownlane"}

Active == {"verify", "ensure", "reconcile", "claim", "claimop", "release", "confirm",
           "confirmlane", "restore"} \cup Claimed

Jobs == [pc : Active \cup {"idle"}, sha : Shas \cup {None}, req : Requests \cup {None},
         before : (SUBSET Nat) \cup {None}, run : Nat, inner : BOOLEAN]

Operations == [state : {"MISSING", "IN_FLIGHT", "UNKNOWN", "CONFIRMED"},
               before : (SUBSET Nat) \cup {None}, run : Nat]

Lanes == [unknown : Ops \cup {None}, inflight : Ops \cup {None}, open : BOOLEAN]

\* Types, as far as the proofs need them; a job that is not idle has an operation.
Typed ==
    /\ head \in Shas /\ request \in Requests
    /\ runs \in Seq(Shas)
    /\ listed \subseteq DOMAIN runs
    /\ lane \in Lanes
    /\ ops \in [Ops -> Operations]
    /\ posts \in [Ops -> Nat]
    /\ job \in Jobs
    /\ job.pc \in Active => job.sha \in Shas /\ job.req \in Requests

Confirmed(o) == ops[o].state = "CONFIRMED"

\* A posted dispatch is confirmed or is the lane's action in flight; so at most one is not
\* confirmed, and the lane shows which.
Settled ==
    \A o \in Ops :
        /\ posts[o] > 0 => Confirmed(o) \/ lane.inflight = o
        /\ ops[o].state = "MISSING" => posts[o] = 0

\* The runs that have confirmed a dispatch are among those recorded as listed before the
\* POST of one that is not confirmed.
ReceiptsCover ==
    \A o \in Ops :
        ~Confirmed(o) /\ ops[o].before # None =>
            /\ posts[o] > 0
            /\ \A p \in Ops : Confirmed(p) => ops[p].run \in ops[o].before

\* What the job knows at its step about the lane and about its own operation.
JobFacts ==
    /\ job.pc = "claim" => lane.inflight = None
    /\ job.pc \in {"claimop", "release"} \cup Claimed => lane.inflight = Op
    /\ job.pc = "claimop" => ops[Op].state = "MISSING"
    /\ job.pc \in Claimed => ops[Op].state \in {"IN_FLIGHT", "UNKNOWN"}
    /\ job.pc \in {"release", "mark", "preflight", "before", "post"} => posts[Op] = 0
    /\ job.pc = "after" => posts[Op] > 0
    /\ job.pc = "confirmlane" => Confirmed(Op)

\* What it knows about the runs: those that were listed before the POST, and the one it has
\* found.
RunFacts ==
    /\ job.pc \in {"verify", "ensure", "claim", "claimop", "mark", "preflight", "before"} =>
          job.before = None
    /\ job.pc \in {"post", "after"} => \A p \in Ops : Confirmed(p) => ops[p].run \in job.before
    /\ job.pc = "unknown" /\ job.before # None =>
          /\ posts[Op] > 0
          /\ \A p \in Ops : Confirmed(p) => ops[p].run \in job.before
    /\ job.pc = "confirm" =>
          /\ posts[Op] > 0 /\ ~Confirmed(Op)
          /\ job.run \in listed /\ runs[job.run] = job.sha
          /\ \A p \in Ops : Confirmed(p) => ops[p].run # job.run

IInv == Typed /\ Settled /\ ReceiptsCover /\ JobFacts /\ RunFacts /\ EvidenceIsExact
-----------------------------------------------------------------------------
(* Facts about one state *)

\* The operation of a job that is not idle.
LEMMA OpTyped == Typed /\ job.pc \in Active => Op \in Ops
BY DEF Typed, Op, Ops

\* A set with one element has the element that is chosen from it.
LEMMA OneIsChosen ==
    ASSUME NEW S, Cardinality(S) = 1
    PROVE  (CHOOSE i \in S : TRUE) \in S
<1>1. S # {}
  BY FS_EmptySet
<1> QED
  BY <1>1

LEMMA InitIInv == Init => IInv
<1> SUFFICES ASSUME Init PROVE IInv
  OBVIOUS
<1>1. Typed
  BY DispatchAssumption DEF Init, Typed, Jobs, Operations, Lanes, NoLane, NoOperation, Idle, Active, Claimed
<1> QED
  BY <1>1 DEF Init, IInv, Settled, ReceiptsCover, JobFacts, RunFacts, EvidenceIsExact, Confirmed,
              NoOperation, NoLane, Idle, Active, Claimed

-----------------------------------------------------------------------------
(* Steps that only move the job *)

\* The job's own facts are all there is to show.
LEMMA JobStep ==
    ASSUME IInv, UNCHANGED <<head, request, runs, listed, lane, ops, posts>>,
           job' \in Jobs, job'.pc \in Active => job'.sha \in Shas /\ job'.req \in Requests,
           JobFacts', RunFacts'
    PROVE  IInv'
BY DEF IInv, Typed, Settled, ReceiptsCover, EvidenceIsExact, Confirmed, Ops

LEMMA StopKeeps ==
    ASSUME IInv, UNCHANGED <<head, request, runs, listed, lane, ops, posts>>, Stop
    PROVE  IInv'
BY JobStep DEF Stop, Idle, JobFacts, RunFacts, Active, Claimed, Jobs

LEMMA StartKeeps == ASSUME IInv, Start PROVE IInv'
BY JobStep DEF Start, outside, Idle, JobFacts, RunFacts, Active, Claimed, IInv, Typed, Jobs

LEMMA VerifyKeeps == ASSUME IInv, Verify PROVE IInv'
<1>1. UNCHANGED <<head, request, runs, listed, lane, ops, posts>>
  BY DEF Verify, outside
<1>2. CASE Stop
  BY <1>1, <1>2, StopKeeps
<1>3. ASSUME NEW l \in {"reconcile", "ensure"}, Goto(l), At("verify") PROVE IInv'
  BY <1>1, <1>3, JobStep DEF Goto, At, JobFacts, RunFacts, Active, Claimed, IInv, Typed, Jobs
<1> QED
  BY <1>2, <1>3 DEF Verify

LEMMA MarkLaneKeeps == ASSUME IInv, MarkLane PROVE IInv'
<1>1. UNCHANGED <<head, request, runs, listed, lane, ops, posts>> /\ At("mark")
  BY DEF MarkLane, outside
<1>2. CASE Goto("preflight")
  BY <1>1, <1>2, JobStep DEF Goto, At, Op, JobFacts, RunFacts, Active, Claimed, IInv, Typed, Jobs
<1>3. CASE Leave
  BY <1>1, <1>3, JobStep, StopKeeps
  DEF Leave, Goto, At, JobFacts, RunFacts, Active, Claimed, IInv, Typed, Jobs
<1> QED
  BY <1>2, <1>3 DEF MarkLane

LEMMA PreflightKeeps == ASSUME IInv, Preflight PROVE IInv'
<1>1. UNCHANGED <<head, request, runs, listed, lane, ops, posts>> /\ At("preflight")
  BY DEF Preflight, outside
<1>2. ASSUME NEW l \in {"restore", "before", "unknown"}, Goto(l) PROVE IInv'
  BY <1>1, <1>2, JobStep DEF Goto, At, Op, JobFacts, RunFacts, Active, Claimed, IInv, Typed, Jobs
<1> QED
  BY <1>2 DEF Preflight

LEMMA ListBeforeKeeps == ASSUME IInv, ListBefore PROVE IInv'
<1>1. UNCHANGED <<head, request, runs, listed, lane, ops, posts>> /\ At("before")
  BY DEF ListBefore, outside
<1>2. listed \subseteq Nat
  BY DEF IInv, Typed
<1>3. job' = [job EXCEPT !.pc = "post", !.before = listed]
  BY DEF ListBefore
<1>4. \A p \in Ops : Confirmed(p) => ops[p].run \in listed
  BY DEF IInv, EvidenceIsExact, Confirmed
<1>5. JobFacts' /\ RunFacts'
  BY <1>1, <1>3, <1>4 DEF At, Op, JobFacts, RunFacts, Active, Claimed, IInv, Typed, Jobs, Confirmed
<1> QED
  BY <1>1, <1>2, <1>3, <1>5, JobStep DEF Active, Claimed, IInv, Typed, Jobs, At

LEMMA ReadFailsKeeps == ASSUME IInv, ReadFails PROVE IInv'
BY JobStep DEF ReadFails, outside, Op, JobFacts, RunFacts, Active, Claimed, IInv, Typed, Jobs

\* The run that is found was not listed before the POST, so it has confirmed nothing yet.
LEMMA FoundKeeps ==
    ASSUME IInv, UNCHANGED <<head, request, runs, listed, lane, ops, posts>>,
           job.pc \in Active, ~Confirmed(Op), posts[Op] > 0, NEW before,
           \A p \in Ops : Confirmed(p) => ops[p].run \in before,
           Cardinality(Candidates(before, job.sha)) = 1,
           ReadExactRun(Candidates(before, job.sha))
    PROVE  IInv'
<1> DEFINE i == CHOOSE i \in Candidates(before, job.sha) : TRUE
<1>1. i \in Candidates(before, job.sha)
  BY OneIsChosen
<1>2. i \in listed /\ i \notin before /\ runs[i] = job.sha /\ i \in Nat
  BY <1>1 DEF Candidates, IInv, Typed
<1>3. job' = [job EXCEPT !.pc = "confirm", !.run = i]
  BY DEF ReadExactRun
<1> HIDE DEF i
<1>4. JobFacts' /\ RunFacts'
  BY <1>2, <1>3 DEF JobFacts, RunFacts, Claimed, Op, IInv, Typed, Jobs, Confirmed
<1> QED
  BY <1>2, <1>3, <1>4, JobStep DEF Active, IInv, Typed, Jobs

LEMMA ListAfterKeeps == ASSUME IInv, ListAfter PROVE IInv'
<1>1. UNCHANGED <<head, request, runs, listed, lane, ops, posts>> /\ At("after")
  BY DEF ListAfter, outside
<1>2. CASE Goto("unknown")
  BY <1>1, <1>2, JobStep
  DEF Goto, At, Op, JobFacts, RunFacts, Active, Claimed, IInv, Typed, Jobs, Confirmed
<1>3. CASE /\ Cardinality(Candidates(job.before, job.sha)) = 1
           /\ ReadExactRun(Candidates(job.before, job.sha))
  <2>1. /\ job.pc \in Active /\ ~Confirmed(Op) /\ posts[Op] > 0
        /\ \A p \in Ops : Confirmed(p) => ops[p].run \in job.before
    BY <1>1 DEF IInv, JobFacts, RunFacts, At, Active, Claimed, Confirmed
  <2> QED
    BY <1>1, <1>3, <2>1, FoundKeeps
<1> QED
  BY <1>2, <1>3 DEF ListAfter

LEMMA ReconcileKeeps == ASSUME IInv, Reconcile PROVE IInv'
<1>1. UNCHANGED <<head, request, runs, listed, lane, ops, posts>> /\ At("reconcile")
  BY DEF Reconcile, outside
<1>2. CASE Stop
  BY <1>1, <1>2, StopKeeps
<1>3. CASE Reconcilable(Op) /\ ReconcileBounded(ops[Op].before)
  <2>1. Op \in Ops /\ job.pc \in Active
    BY <1>1, OpTyped DEF IInv, At, Active
  <2>2. ~Confirmed(Op) /\ ops[Op].before # None
    BY <1>3 DEF Reconcilable, Confirmed
  <2>3. /\ posts[Op] > 0
        /\ \A p \in Ops : Confirmed(p) => ops[p].run \in ops[Op].before
    BY <2>1, <2>2 DEF IInv, ReceiptsCover
  <2> QED
    BY <1>1, <1>2, <1>3, <2>1, <2>2, <2>3, FoundKeeps DEF ReconcileBounded
<1> QED
  BY <1>2, <1>3 DEF Reconcile

LEMMA CrashKeeps == ASSUME IInv, Crash PROVE IInv'
BY StopKeeps DEF Crash, outside

-----------------------------------------------------------------------------
(* Steps that write the lane *)

\* The lane's action in flight is what the invariant says of the lane.
LEMMA LaneStep ==
    ASSUME IInv, UNCHANGED <<head, request, runs, listed, ops, posts>>,
           lane' \in Lanes,
           job' \in Jobs, job'.pc \in Active => job'.sha \in Shas /\ job'.req \in Requests,
           \A o \in Ops : posts[o] > 0 => Confirmed(o) \/ lane'.inflight = o,
           JobFacts', RunFacts'
    PROVE  IInv'
BY DEF IInv, Typed, Settled, ReceiptsCover, EvidenceIsExact, Confirmed, Ops

LEMMA EnsureEffectLaneKeeps == ASSUME IInv, EnsureEffectLane PROVE IInv'
<1>1. UNCHANGED <<head, request, runs, listed, ops, posts>> /\ At("ensure")
  BY DEF EnsureEffectLane, outside
<1>2. CASE Stop /\ UNCHANGED lane
  BY <1>1, <1>2, StopKeeps
<1>3. CASE ~(lane.unknown # None \/ lane.inflight # None)
  <2>1. lane' \in {lane, [lane EXCEPT !.open = TRUE]} /\ lane.inflight = None
    BY <1>3 DEF EnsureEffectLane, Write
  <2>2. lane'.inflight = None
    BY <2>1 DEF IInv, Typed, Lanes
  <2>3. lane' \in Lanes
    BY <2>1 DEF IInv, Typed, Lanes
  <2>4. \A o \in Ops : posts[o] > 0 => Confirmed(o) \/ lane'.inflight = o
    BY <2>1, <2>2 DEF IInv, Settled
  <2>5. CASE job' = [job EXCEPT !.pc = "claim", !.inner = TRUE]
    <3>1. JobFacts' /\ RunFacts'
      BY <1>1, <2>2, <2>5 DEF At, JobFacts, RunFacts, Claimed, IInv, Typed, Jobs
    <3> QED
      BY <1>1, <2>3, <2>4, <2>5, <3>1, LaneStep DEF IInv, Typed, Jobs, Active, At
  <2>6. CASE Stop
    <3>1. JobFacts' /\ RunFacts'
      BY <2>6 DEF Stop, Idle, JobFacts, RunFacts, Claimed
    <3> QED
      BY <1>1, <2>3, <2>4, <2>6, <3>1, LaneStep DEF Stop, Idle, Active, Claimed, Jobs
  <2> QED
    BY <1>3, <2>5, <2>6 DEF EnsureEffectLane, Write
<1> QED
  BY <1>2, <1>3 DEF EnsureEffectLane

\* The same for a step after which the job has left the effect.
LEMMA LaneLeave ==
    ASSUME IInv, UNCHANGED <<head, request, runs, listed, ops, posts>>, job.pc \in Active,
           lane' \in Lanes, \A o \in Ops : posts[o] > 0 => Confirmed(o) \/ lane'.inflight = o,
           Leave \/ Stop
    PROVE  IInv'
<1>1. CASE Stop
  <2>1. JobFacts' /\ RunFacts'
    BY <1>1 DEF Stop, Idle, JobFacts, RunFacts, Claimed
  <2> QED
    BY <1>1, <2>1, LaneStep DEF Stop, Idle, Active, Claimed, Jobs
<1>2. CASE Goto("restore")
  <2>1. JobFacts' /\ RunFacts'
    BY <1>2 DEF Goto, JobFacts, RunFacts, Claimed, IInv, Typed, Jobs
  <2> QED
    BY <1>2, <2>1, LaneStep DEF Goto, Active, IInv, Typed, Jobs
<1> QED
  BY <1>1, <1>2 DEF Leave

LEMMA AcquireLeaseKeeps == ASSUME IInv, AcquireLease PROVE IInv'
<1>1. UNCHANGED <<head, request, runs, listed, ops, posts>> /\ job.pc = "claim"
  BY DEF AcquireLease, outside, At
<1>2. job.pc \in Active /\ Op \in Ops
  BY <1>1, OpTyped DEF Active, IInv
<1>3. \A o \in Ops : posts[o] > 0 => Confirmed(o)
  BY <1>1, DispatchAssumption DEF IInv, Settled, JobFacts, Ops
<1>4. lane' \in Lanes
  BY <1>2 DEF AcquireLease, Write, IInv, Typed, Lanes
<1>5. CASE Leave
  BY <1>1, <1>2, <1>3, <1>4, <1>5, LaneLeave
<1>6. CASE /\ ops[Op].state = "MISSING"
           /\ lane' = [lane EXCEPT !.inflight = Op] /\ Goto("claimop")
  <2>1. lane'.inflight = Op /\ Op' = Op
    BY <1>6 DEF Op, Goto, IInv, Typed, Lanes, Jobs
  <2>2. JobFacts' /\ RunFacts'
    BY <1>1, <1>6, <2>1 DEF Goto, JobFacts, RunFacts, Claimed, IInv, Typed, Jobs
  <2> QED
    BY <1>1, <1>2, <1>3, <1>4, <1>6, <2>2, LaneStep DEF Goto, Active, IInv, Typed, Jobs
<1> QED
  BY <1>5, <1>6 DEF AcquireLease, Write

LEMMA ReleaseLeaseKeeps == ASSUME IInv, ReleaseLease PROVE IInv'
<1>1. UNCHANGED <<head, request, runs, listed, ops, posts>> /\ job.pc = "release"
  BY DEF ReleaseLease, outside, At
<1>2. job.pc \in Active /\ Op \in Ops
  BY <1>1, OpTyped DEF Active, IInv
<1>3. \A o \in Ops : posts[o] > 0 => Confirmed(o)
  BY <1>1, <1>2 DEF IInv, Settled, JobFacts, Typed
<1>4. lane' \in Lanes /\ Leave
  BY DEF ReleaseLease, Write, IInv, Typed, Lanes
<1> QED
  BY <1>1, <1>2, <1>3, <1>4, LaneLeave

LEMMA RecordUnknownLaneKeeps == ASSUME IInv, RecordUnknownLane PROVE IInv'
<1>1. UNCHANGED <<head, request, runs, listed, ops, posts>> /\ job.pc = "unknownlane"
  BY DEF RecordUnknownLane, outside, At
<1>2. job.pc \in Active /\ Op \in Ops
  BY <1>1, OpTyped DEF Active, Claimed, IInv
<1>3. lane' \in Lanes /\ lane'.inflight = lane.inflight /\ Leave
  BY <1>2 DEF RecordUnknownLane, Write, IInv, Typed, Lanes
<1>4. \A o \in Ops : posts[o] > 0 => Confirmed(o) \/ lane'.inflight = o
  BY <1>3 DEF IInv, Settled
<1> QED
  BY <1>1, <1>2, <1>3, <1>4, LaneLeave

\* Only the operation that was confirmed is taken from the lane.
LEMMA RecordReadbackLaneKeeps == ASSUME IInv, RecordReadbackLane PROVE IInv'
<1>1. UNCHANGED <<head, request, runs, listed, ops, posts>> /\ job.pc = "confirmlane"
  BY DEF RecordReadbackLane, outside, At
<1>2. job.pc \in Active /\ Op \in Ops /\ Confirmed(Op)
  BY <1>1, OpTyped DEF Active, IInv, JobFacts
<1>3. /\ lane' \in Lanes /\ Leave
      /\ lane.inflight # Op => lane'.inflight = lane.inflight
  BY <1>2 DEF RecordReadbackLane, Write, IInv, Typed, Lanes
<1>4. \A o \in Ops : posts[o] > 0 => Confirmed(o) \/ lane'.inflight = o
  BY <1>2, <1>3 DEF IInv, Settled
<1> QED
  BY <1>1, <1>2, <1>3, <1>4, LaneLeave

LEMMA RestoreShadowKeeps == ASSUME IInv, RestoreShadow PROVE IInv'
<1>1. UNCHANGED <<head, request, runs, listed, ops, posts>> /\ job.pc \in Active
  BY DEF RestoreShadow, outside, At, Active
<1>2. lane' \in Lanes /\ lane'.inflight = lane.inflight /\ Stop
  BY DEF RestoreShadow, Write, IInv, Typed, Lanes
<1>3. \A o \in Ops : posts[o] > 0 => Confirmed(o) \/ lane'.inflight = o
  BY <1>2 DEF IInv, Settled
<1> QED
  BY <1>1, <1>2, <1>3, LaneLeave

-----------------------------------------------------------------------------
(* Steps that write the job's operation *)

LEMMA JobTyped ==
    /\ Idle \in Jobs
    /\ \A l \in Active : job \in Jobs => [job EXCEPT !.pc = l] \in Jobs
<1>1. Idle \in Jobs
  BY DEF Jobs, Idle
<1> QED
  BY <1>1 DEF Jobs

LEMMA OpWrite ==
    ASSUME Typed, NEW o \in Ops, NEW new \in Operations, ops' \in {ops, [ops EXCEPT ![o] = new]}
    PROVE  /\ ops' \in [Ops -> Operations]
           /\ \A p \in Ops \ {o} : ops'[p] = ops[p]
           /\ ops'[o] \in {ops[o], new}
BY DEF Typed

LEMMA ClaimOperationKeeps == ASSUME IInv, ClaimOperation PROVE IInv'
<1>1. UNCHANGED <<head, request, runs, listed, lane, posts>> /\ job.pc = "claimop"
  BY DEF ClaimOperation, outside, At
<1>2. Op \in Ops /\ ops[Op].state = "MISSING" /\ posts[Op] = 0 /\ lane.inflight = Op
  BY <1>1, OpTyped DEF Active, IInv, JobFacts, Settled
<1> DEFINE new == [ops[Op] EXCEPT !.state = "IN_FLIGHT"]
<1>3. ops[Op] \in Operations /\ new \in Operations /\ new.state = "IN_FLIGHT"
        /\ new.run = ops[Op].run /\ new.before = ops[Op].before
  BY <1>2 DEF IInv, Typed, Operations
<1>4. /\ ops' \in {ops, [ops EXCEPT ![Op] = new]}
      /\ \/ job' = [job EXCEPT !.pc = "mark"] /\ ops' = [ops EXCEPT ![Op] = new]
         \/ job' = [job EXCEPT !.pc = "release"]
  BY DEF ClaimOperation, Write, Goto
<1> HIDE DEF new
<1>5. /\ ops' \in [Ops -> Operations]
      /\ \A p \in Ops \ {Op} : ops'[p] = ops[p]
      /\ ops'[Op] \in {ops[Op], new}
  BY <1>2, <1>3, <1>4, OpWrite DEF IInv
<1>6. job'.pc = "mark" => ops'[Op].state = "IN_FLIGHT"
  BY <1>2, <1>3, <1>4 DEF IInv, Typed, Jobs
<1>7. /\ \A o \in Ops : (Confirmed(o))' <=> Confirmed(o)
      /\ \A o \in Ops : ops'[o].run = ops[o].run /\ ops'[o].before = ops[o].before
      /\ \A o \in Ops : ops'[o].state = "MISSING" => ops[o].state = "MISSING"
  BY <1>2, <1>3, <1>5 DEF Confirmed
<1>8. Typed'
  BY <1>1, <1>4, <1>5 DEF IInv, Typed, Jobs, Active, Claimed
<1>9. Settled' /\ ReceiptsCover' /\ EvidenceIsExact'
  BY <1>1, <1>7 DEF IInv, Settled, ReceiptsCover, EvidenceIsExact, Confirmed
<1>10. Op' = Op /\ job'.before = None /\ job'.pc \in {"mark", "release"}
  BY <1>1, <1>4 DEF Op, IInv, Typed, Jobs, RunFacts
<1>11. JobFacts' /\ RunFacts'
  BY <1>1, <1>2, <1>6, <1>10 DEF JobFacts, RunFacts, Claimed
<1> QED
  BY <1>8, <1>9, <1>11 DEF IInv

\* The receipt carries the runs that were listed before the POST.
LEMMA RecordUnknownKeeps == ASSUME IInv, RecordUnknown PROVE IInv'
<1>1. UNCHANGED <<head, request, runs, listed, lane, posts>> /\ job.pc = "unknown"
  BY DEF RecordUnknown, outside, At
<1>2. /\ Op \in Ops /\ ~Confirmed(Op) /\ lane.inflight = Op
      /\ ops[Op].state \in {"IN_FLIGHT", "UNKNOWN"}
  BY <1>1, OpTyped DEF Active, Claimed, IInv, JobFacts, Confirmed
<1> DEFINE new == [ops[Op] EXCEPT !.state = "UNKNOWN", !.before = job.before]
<1>3. /\ new \in Operations /\ new.state = "UNKNOWN"
      /\ new.run = ops[Op].run /\ new.before = job.before
  BY <1>2 DEF IInv, Typed, Operations, Jobs
<1>4. /\ ops' \in {ops, [ops EXCEPT ![Op] = new]}
      /\ \/ job' = [job EXCEPT !.pc = "unknownlane"]
         \/ job' = [job EXCEPT !.pc = "restore"]
         \/ job' = Idle
  BY DEF RecordUnknown, Write, Goto, Leave, Stop
<1> HIDE DEF new
<1>5. /\ ops' \in [Ops -> Operations]
      /\ \A p \in Ops \ {Op} : ops'[p] = ops[p]
      /\ ops'[Op] \in {ops[Op], new}
  BY <1>2, <1>3, <1>4, OpWrite DEF IInv
<1>6. /\ \A o \in Ops : (Confirmed(o))' <=> Confirmed(o)
      /\ \A o \in Ops : ops'[o].run = ops[o].run
      /\ \A o \in Ops : ops'[o].state = "MISSING" => ops[o].state = "MISSING"
      /\ \A o \in Ops : ops'[o].before = ops[o].before \/ (o = Op /\ ops'[o].before = job.before)
      /\ ops'[Op].state \in {"IN_FLIGHT", "UNKNOWN"}
  BY <1>2, <1>3, <1>5 DEF Confirmed
<1>7. Typed'
  <2>1. job' \in Jobs
    BY <1>4, JobTyped DEF IInv, Typed, Active, Claimed
  <2>2. job'.pc \in Active => job'.sha = job.sha /\ job'.req = job.req
    BY <1>4 DEF IInv, Typed, Jobs, Idle, Active, Claimed
  <2>3. job.pc \in Active
    BY <1>1 DEF Active, Claimed
  <2> QED
    BY <1>1, <1>5, <2>1, <2>2, <2>3 DEF IInv, Typed
<1>8. Settled' /\ EvidenceIsExact'
  <2>1. Settled'
    BY <1>1, <1>6 DEF IInv, Settled
  <2>2. EvidenceIsExact'
    BY <1>1, <1>6 DEF IInv, EvidenceIsExact, Confirmed
  <2> QED
    BY <2>1, <2>2
<1>9. ReceiptsCover'
  <2> SUFFICES ASSUME NEW o \in Ops, ~(Confirmed(o))', ops'[o].before # None
               PROVE  /\ posts'[o] > 0
                      /\ \A p \in Ops : (Confirmed(p))' => ops'[p].run \in ops'[o].before
    BY DEF ReceiptsCover
  <2>1. CASE ops'[o].before = ops[o].before
    BY <1>1, <1>6, <2>1 DEF IInv, ReceiptsCover
  <2>2. CASE o = Op /\ ops'[o].before = job.before
    BY <1>1, <1>6, <2>2 DEF IInv, RunFacts
  <2> QED
    BY <1>6, <2>1, <2>2
<1>10. /\ job'.pc \in {"unknownlane", "restore", "idle"}
       /\ job'.pc = "unknownlane" => Op' = Op
  BY <1>4 DEF Op, IInv, Typed, Jobs, Idle
<1>11. JobFacts' /\ RunFacts'
  BY <1>1, <1>2, <1>6, <1>10 DEF JobFacts, RunFacts, Claimed
<1> QED
  BY <1>7, <1>8, <1>9, <1>11 DEF IInv

\* No other dispatch waits for its run: it would be the lane's action in flight.
LEMMA RecordReadbackKeeps == ASSUME IInv, RecordReadback PROVE IInv'
<1>1. UNCHANGED <<head, request, runs, listed, lane, posts>> /\ job.pc = "confirm"
  BY DEF RecordReadback, outside, At
<1>2. /\ Op \in Ops /\ ~Confirmed(Op) /\ posts[Op] > 0 /\ lane.inflight = Op
      /\ job.run \in listed /\ runs[job.run] = job.sha
      /\ \A p \in Ops : Confirmed(p) => ops[p].run # job.run
  BY <1>1, OpTyped DEF Active, IInv, RunFacts, Settled
<1>3. \A o \in Ops \ {Op} : posts[o] > 0 => Confirmed(o)
  BY <1>2 DEF IInv, Settled
<1> DEFINE new == [ops[Op] EXCEPT !.state = "CONFIRMED", !.run = job.run]
<1>4. /\ new \in Operations /\ new.state = "CONFIRMED"
      /\ new.run = job.run /\ new.before = ops[Op].before
  BY <1>2 DEF IInv, Typed, Operations, Jobs
<1>5. /\ ops' \in {ops, [ops EXCEPT ![Op] = new]}
      /\ \/ job' = [job EXCEPT !.pc = "confirmlane"] /\ ops' = [ops EXCEPT ![Op] = new]
         \/ job' = [job EXCEPT !.pc = "restore"]
         \/ job' = Idle
  BY DEF RecordReadback, Write, Goto, Leave, Stop
<1> HIDE DEF new
<1>6. /\ ops' \in [Ops -> Operations]
      /\ \A p \in Ops \ {Op} : ops'[p] = ops[p]
      /\ ops'[Op] \in {ops[Op], new}
  BY <1>2, <1>4, <1>5, OpWrite DEF IInv
<1>7. /\ \A o \in Ops : (Confirmed(o))' => Confirmed(o) \/ o = Op
      /\ \A o \in Ops : Confirmed(o) => (Confirmed(o))' /\ ops'[o].run = ops[o].run
      /\ ops'[Op].state = "CONFIRMED" => ops'[Op].run = job.run
      /\ \A o \in Ops : ops'[o].before = ops[o].before
      /\ \A o \in Ops : ops'[o].state = "MISSING" => ops[o].state = "MISSING"
  BY <1>2, <1>4, <1>6 DEF Confirmed
<1>8. Typed'
  <2>1. job' \in Jobs
    BY <1>5, JobTyped DEF IInv, Typed, Active, Claimed
  <2>2. job'.pc \in Active => job'.sha = job.sha /\ job'.req = job.req
    BY <1>5 DEF IInv, Typed, Jobs, Idle, Active, Claimed
  <2>3. job.pc \in Active
    BY <1>1 DEF Active, Claimed
  <2> QED
    BY <1>1, <1>6, <2>1, <2>2, <2>3 DEF IInv, Typed
<1>9. Settled'
  BY <1>1, <1>2, <1>3, <1>7 DEF IInv, Settled
<1>10. ReceiptsCover'
  <2> SUFFICES ASSUME NEW o \in Ops, ~(Confirmed(o))', ops'[o].before # None
               PROVE  /\ posts'[o] > 0
                      /\ \A p \in Ops : (Confirmed(p))' => ops'[p].run \in ops'[o].before
    BY DEF ReceiptsCover
  <2>1. ~Confirmed(o) /\ ops[o].before # None
    BY <1>7
  <2>2. /\ posts[o] > 0
        /\ \A p \in Ops : Confirmed(p) => ops[p].run \in ops[o].before
    BY <2>1 DEF IInv, ReceiptsCover
  <2>3. o = Op
    BY <1>3, <2>1, <2>2
  <2> QED
    BY <1>1, <1>7, <2>2, <2>3
<1>11. EvidenceIsExact'
  <2>1. Op[1] = job.sha
    BY DEF Op
  <2> QED
    BY <1>1, <1>2, <1>7, <2>1 DEF IInv, EvidenceIsExact, Confirmed
<1>12. /\ job'.pc \in {"confirmlane", "restore", "idle"}
       /\ job'.pc = "confirmlane" => Op' = Op /\ ops'[Op] = new
  BY <1>2, <1>5 DEF Op, IInv, Typed, Jobs, Idle
<1>13. JobFacts' /\ RunFacts'
  BY <1>4, <1>12 DEF JobFacts, RunFacts, Claimed, Confirmed
<1> QED
  BY <1>8, <1>9, <1>10, <1>11, <1>13 DEF IInv

-----------------------------------------------------------------------------
(* The POST and what happens on GitHub *)

\* A new run changes none of the earlier ones.
LEMMA RunsGrow ==
    ASSUME IInv, Dispatched \/ UNCHANGED runs
    PROVE  /\ runs' \in Seq(Shas)
           /\ DOMAIN runs \subseteq DOMAIN runs'
           /\ \A i \in DOMAIN runs : runs'[i] = runs[i]
<1>1. runs \in Seq(Shas) /\ head \in Shas
  BY DEF IInv, Typed
<1>2. CASE UNCHANGED runs
  BY <1>1, <1>2
<1>3. CASE runs' = Append(runs, head)
  BY <1>1, <1>3
<1> QED
  BY <1>2, <1>3 DEF Dispatched

\* What the invariant says of the operations and the lane does not look at newer runs.
LEMMA GithubStep ==
    ASSUME IInv, UNCHANGED <<lane, ops>>, head' \in Shas, request' \in Requests,
           runs' \in Seq(Shas), \A i \in DOMAIN runs : runs'[i] = runs[i],
           listed \subseteq listed', listed' \subseteq DOMAIN runs'
    PROVE  EvidenceIsExact' /\ (UNCHANGED <<posts, job>> => IInv')
<1>1. EvidenceIsExact'
  BY DEF IInv, Typed, EvidenceIsExact, Ops
<1>2. ASSUME UNCHANGED <<posts, job>> PROVE IInv'
  <2>1. Typed' /\ Settled' /\ ReceiptsCover'
    BY <1>2 DEF IInv, Typed, Settled, ReceiptsCover, Confirmed, Ops, Lanes, Operations
  <2>2. JobFacts' /\ RunFacts'
    BY <1>2 DEF IInv, Typed, JobFacts, RunFacts, Confirmed, Ops, Op
  <2> QED
    BY <1>1, <2>1, <2>2 DEF IInv
<1> QED
  BY <1>1, <1>2

LEMMA AppearKeeps == ASSUME IInv, NEW i \in Ids, Appear(i) PROVE IInv'
BY GithubStep DEF Appear, outside, IInv, Typed

LEMMA DispatchByHandKeeps == ASSUME IInv, DispatchByHand PROVE IInv'
BY GithubStep, RunsGrow DEF DispatchByHand, outside, IInv, Typed

LEMMA PushKeeps == ASSUME IInv, NEW s \in Shas, Push(s) PROVE IInv'
BY GithubStep DEF Push, IInv, Typed

LEMMA AuthorizeKeeps == ASSUME IInv, NEW q \in Requests, Authorize(q) PROVE IInv'
BY GithubStep DEF Authorize, IInv, Typed

\* The first POST of the operation: every other one that was posted is confirmed.
LEMMA AtPost ==
    ASSUME IInv, job.pc = "post"
    PROVE  /\ Op \in Ops /\ lane.inflight = Op /\ posts[Op] = 0
           /\ ops[Op].state \in {"IN_FLIGHT", "UNKNOWN"}
           /\ \A o \in Ops : posts[o] > 0 => Confirmed(o)
<1>1. /\ Op \in Ops /\ lane.inflight = Op /\ posts[Op] = 0
      /\ ops[Op].state \in {"IN_FLIGHT", "UNKNOWN"}
  BY OpTyped DEF IInv, JobFacts, Active, Claimed
<1> QED
  BY <1>1 DEF IInv, Settled, Typed

LEMMA PostKeeps == ASSUME IInv, Post PROVE IInv'
<1>1. UNCHANGED <<head, request, listed, lane, ops>> /\ job.pc = "post"
  BY DEF Post, outside, At
<1>2. /\ Op \in Ops /\ lane.inflight = Op /\ posts[Op] = 0
      /\ ops[Op].state \in {"IN_FLIGHT", "UNKNOWN"}
  BY <1>1, AtPost
<1>3. /\ runs' \in Seq(Shas)
      /\ DOMAIN runs \subseteq DOMAIN runs'
      /\ \A i \in DOMAIN runs : runs'[i] = runs[i]
  BY RunsGrow DEF Post
<1>4. EvidenceIsExact'
  BY <1>1, <1>3, GithubStep DEF IInv, Typed
<1>5. /\ posts' \in [Ops -> Nat] /\ posts'[Op] > 0
      /\ \A o \in Ops \ {Op} : posts'[o] = posts[o]
  BY <1>2 DEF Post, IInv, Typed
<1>6. \/ job' = [job EXCEPT !.pc = "after"]
      \/ job' = [job EXCEPT !.pc = "unknown"]
      \/ job' = [job EXCEPT !.pc = "unknown", !.before = None]
  BY DEF Post, Goto
<1>7. /\ job' \in Jobs /\ job'.pc \in {"after", "unknown"}
      /\ job'.sha = job.sha /\ job'.req = job.req /\ Op' = Op
      /\ job'.before = job.before \/ job'.before = None
      /\ job'.pc = "after" => job'.before = job.before
  BY <1>6 DEF IInv, Typed, Jobs, Op, Active, Claimed
<1>8. Typed'
  <2>1. job.sha \in Shas /\ job.req \in Requests
    BY <1>1 DEF IInv, Typed, Active, Claimed
  <2> QED
    BY <1>1, <1>3, <1>5, <1>7, <2>1 DEF IInv, Typed
<1>9. Settled'
  BY <1>1, <1>2, <1>5 DEF IInv, Settled, Confirmed
<1>10. ReceiptsCover'
  BY <1>1, <1>2, <1>5 DEF IInv, ReceiptsCover, Confirmed
<1>11. JobFacts'
  BY <1>1, <1>2, <1>5, <1>7 DEF JobFacts, Claimed
<1>12. RunFacts'
  BY <1>1, <1>2, <1>5, <1>7 DEF IInv, RunFacts, Confirmed
<1> QED
  BY <1>4, <1>8, <1>9, <1>10, <1>11, <1>12 DEF IInv

-----------------------------------------------------------------------------
(* The theorems *)

LEMMA NextKeeps == ASSUME IInv, [Next]_vars PROVE IInv'
<1>1. CASE Step
  BY <1>1, VerifyKeeps, EnsureEffectLaneKeeps, AcquireLeaseKeeps, ClaimOperationKeeps,
     MarkLaneKeeps, ReleaseLeaseKeeps, PreflightKeeps, ListBeforeKeeps, ReadFailsKeeps, PostKeeps,
     ListAfterKeeps, RecordUnknownKeeps, RecordUnknownLaneKeeps, RecordReadbackKeeps,
     RecordReadbackLaneKeeps, RestoreShadowKeeps, ReconcileKeeps
  DEF Step
<1>2. CASE UNCHANGED vars
  BY <1>2, JobStep DEF vars, IInv, Typed, JobFacts, RunFacts, Op, Confirmed
<1> QED
  BY <1>1, <1>2, StartKeeps, CrashKeeps, AppearKeeps, DispatchByHandKeeps, PushKeeps, AuthorizeKeeps
  DEF Next

\* The facts that the lane, the receipts and the job keep about the posted dispatches hold in
\* every state of a job that may be cancelled at any step.
THEOREM InvariantHolds == Spec => []IInv
<1>1. Init => IInv
  BY InitIInv
<1>2. IInv /\ [Next]_vars => IInv'
  BY NextKeeps
<1> QED
  BY <1>1, <1>2, PTL DEF Spec

\* The run that confirms a dispatch is listed, of the dispatch's commit and of no other
\* dispatch, whatever GitHub's listings leave out and whoever else starts runs
\* (_dispatch_candidates).
THEOREM EvidenceHolds == Spec => []EvidenceIsExact
<1>1. IInv => EvidenceIsExact
  BY DEF IInv
<1> QED
  BY <1>1, InvariantHolds, PTL

\* Only the POST counts as one.
LEMMA OnlyPostPosts == [Next]_vars /\ posts' # posts => Post
BY DEF Next, Step, vars, Start, Verify, EnsureEffectLane, AcquireLease, ClaimOperation, MarkLane,
       ReleaseLease, Preflight, ListBefore, ReadFails, ListAfter, RecordUnknown, RecordUnknownLane,
       RecordReadback, RecordReadbackLane, RestoreShadow, Reconcile, Crash, Appear, DispatchByHand,
       Push, Authorize

\* A POST is only made when every earlier one is CONFIRMED, and once for one dispatch
\* (_ensure_effect_lane and claim_operation).
THEOREM SettledFirst == Spec => SettledBeforeNext
<1>1. IInv /\ [Next]_vars =>
        [\A o \in Ops : posts[o] > 0 /\ posts' # posts =>
             ops[o].state = "CONFIRMED" /\ posts'[o] = posts[o]]_vars
  <2> SUFFICES ASSUME IInv, [Next]_vars, NEW o \in Ops, posts[o] > 0, posts' # posts
               PROVE  ops[o].state = "CONFIRMED" /\ posts'[o] = posts[o]
    OBVIOUS
  <2>1. Post
    BY OnlyPostPosts
  <2>2. job.pc = "post" /\ posts' = [posts EXCEPT ![Op] = @ + 1]
    BY <2>1 DEF Post, At
  <2>3. posts[Op] = 0 /\ Confirmed(o)
    BY <2>2, AtPost
  <2> QED
    BY <2>2, <2>3 DEF Confirmed, IInv, Typed
<1> QED
  BY <1>1, InvariantHolds, PTL DEF Spec, SettledBeforeNext
=============================================================================

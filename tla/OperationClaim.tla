--------------------------- MODULE OperationClaim ---------------------------
(***************************************************************************)
(* How UES lets at most one runner cause a provider effect: claim_operation,*)
(* record_unknown_write and record_authoritative_readback of               *)
(* ues/state_store.py, called by two executors: execute_waiting_answer_    *)
(* canary (ues/canary_orchestrator.py, Canary = TRUE) and                  *)
(* send_same_lineage_message (ues/lineage_effects.py, Canary = FALSE).     *)
(*                                                                         *)
(* One lane and the operations on it.  The lane and every operation are    *)
(* separate records of the state store, so a claim is a sequence of        *)
(* compare-and-swaps that other runners' steps come between and that a     *)
(* cancelled job leaves half done.  A read followed by a compare-and-swap  *)
(* on the version read is one step here (GitRefStore shows that a write    *)
(* takes effect only on the record it was computed from); the step may be  *)
(* performed, performed and reported as failed, or not performed.  The one *)
(* read whose version is kept over other steps, the operation record's     *)
(* during a claim, is kept in the model too.                               *)
(***************************************************************************)
EXTENDS Naturals

CONSTANTS
    Runners,       \* the jobs
    Ops,           \* operation keys: effects on the lane's provider session
    Digests,       \* request digests: the payloads a caller may ask for
    Canary,        \* TRUE: a lane in CANARY mode; FALSE: a lineage lane
    MaxEffects,    \* the canary grant's maximum_effect_count
    MaxVersion,    \* bound: versions of one operation record
    Reliable,      \* TRUE: only behaviours where no job is cancelled and no write fails
    None

ASSUME ClaimAssumption ==
    /\ Canary \in BOOLEAN
    /\ MaxEffects \in Nat
    /\ MaxVersion \in Nat
    /\ Reliable \in BOOLEAN
    /\ None \notin Runners \cup Ops \cup Digests

VARIABLES
    lane,         \* the WorkstreamRuntimeRecord: mode, lease, unknown_write_state
                  \* and the canary grant's consumed_count
    grantLive,    \* the canary grant has not expired
    ops,          \* the OperationRecord of each key; version 0 is MISSING
    run,          \* what each runner is doing
    applied,      \* has the provider performed the effect?
    late,         \* effects the provider accepted and has yet to perform
    dispatches,   \* history: provider calls made for each key and attempt
    payloads,     \* history: digests sent for each key
    spent,        \* history: provider calls made on each unit of the grant
    negatives     \* history: "not observed" readbacks recorded for each key

vars == <<lane, grantLive, ops, run, applied, late, dispatches, payloads, spent,
          negatives>>

provider == <<applied, late>>
history  == <<dispatches, payloads, spent>>

-----------------------------------------------------------------------------
Modes == {"SHADOW", "CANARY", "ACTIVE_AUTO_SAFE"}

\* The mode in which this lane's executor may act.
OpenMode == IF Canary THEN "CANARY" ELSE "ACTIVE_AUTO_SAFE"

\* A lease_id is new for every acquisition; the holder tells two of them apart
\* because a runner that acquires a lease never meets an older one of its own.
\* action_in_flight is set and cleared together with the lease.
Lease == [holder : Runners, key : Ops, live : BOOLEAN]
NoLease == [holder |-> None, key |-> None, live |-> FALSE]

Lane == [mode : Modes, lease : Lease \cup {NoLease}, unknown : Ops \cup {None},
         consumed : 0..MaxEffects]

OpStates == {"MISSING", "IN_FLIGHT", "UNKNOWN", "CONFIRMED", "RECONCILED_NOT_OBSERVED"}

Operation == [ver : 0..MaxVersion, state : OpStates, digest : Digests \cup {None},
              att : 0..MaxVersion]
Missing == [ver |-> 0, state |-> "MISSING", digest |-> None, att |-> 0]

PCs == {"idle", "authorize", "claim", "readop", "lease", "consume", "claimop", "mark",
        "send", "unknown", "unknownlane", "readback", "readbacklane", "release",
        "restore"}

\* record_authoritative_readback's observed: True, False, None.
Observations == {"seen", "absent", "unclear"}

\* role: an executor, or a reconciler that records a later readback; ver, att: the
\* operation record's version and attempt when the claim read it (att of the claim
\* once made); room: the grant had effects left when the claim read the lane;
\* unit: the unit of the grant this claim consumed; obs: the readback's outcome;
\* lost: the lease of this claim expired or was cleared by another runner.
Run == [pc : PCs, role : {"executor", "reconciler"}, key : Ops \cup {None},
        digest : Digests \cup {None}, ver : 0..MaxVersion, att : 0..MaxVersion,
        room : BOOLEAN, unit : 0..MaxEffects, obs : Observations,
        lost : BOOLEAN]
Idle == [pc |-> "idle", role |-> "executor", key |-> None, digest |-> None, ver |-> 0,
         att |-> 0, room |-> FALSE, unit |-> 0, obs |-> "unclear", lost |-> FALSE]

Init ==
    /\ lane = [mode |-> IF Canary THEN "CANARY" ELSE "SHADOW", lease |-> NoLease,
               unknown |-> None, consumed |-> 0]
    /\ grantLive = Canary
    /\ ops = [k \in Ops |-> Missing]
    /\ run = [r \in Runners |-> Idle]
    /\ applied = [k \in Ops |-> FALSE]
    /\ late = [k \in Ops |-> FALSE]
    /\ dispatches = [k \in Ops |-> [a \in 1..MaxVersion |-> 0]]
    /\ payloads = [k \in Ops |-> {}]
    /\ spent = [u \in 0..MaxEffects |-> 0]
    /\ negatives = [k \in Ops |-> 0]

-----------------------------------------------------------------------------
(* Control *)

Key(r) == run[r].key
At(r, l) == run[r].pc = l

Become(r, rec) == run' = [run EXCEPT ![r] = rec]
Goto(r, l) == Become(r, [run[r] EXCEPT !.pc = l])

\* The executor returns or raises: a lineage executor leaves through its finally.
Done(r) ==
    IF Canary \/ run[r].role = "reconciler"
      THEN Become(r, Idle)
      ELSE Goto(r, "restore")

\* One compare-and-swap on the lane.  Ok and Fail are what the caller does next.
LaneWrite(new, Ok, Fail) ==
    \/ lane' = new /\ Ok
    \/ ~Reliable /\ lane' = new /\ Fail
    \/ ~Reliable /\ UNCHANGED lane /\ Fail

\* One compare-and-swap on an operation record, whose version it increments.
OpWrite(k, new, Ok, Fail) ==
    \/ /\ ops[k].ver < MaxVersion
       /\ ops' = [ops EXCEPT ![k] = [new EXCEPT !.ver = ops[k].ver + 1]]
       /\ Ok \/ (~Reliable /\ Fail)
    \/ ~Reliable /\ UNCHANGED ops /\ Fail

-----------------------------------------------------------------------------
(* The executors up to the claim *)

\* execute_waiting_answer_canary, once its policy, binding and start checks passed.
StartCanary(r, k, d) ==
    /\ Canary
    /\ At(r, "idle")
    /\ Become(r, [Idle EXCEPT !.pc = "claim", !.key = k, !.digest = d])
    /\ UNCHANGED <<lane, grantLive, ops, provider, history, negatives>>

\* send_same_lineage_message.
StartLineage(r, k, d) ==
    /\ ~Canary
    /\ At(r, "idle")
    /\ Become(r, [Idle EXCEPT !.pc = "authorize", !.key = k, !.digest = d])
    /\ UNCHANGED <<lane, grantLive, ops, provider, history, negatives>>

\* _authorize_lane.  It runs before the executor's try: a failure it reports is
\* not followed by _restore_lane_shadow, even if the mode was changed.
Authorize(r) ==
    /\ At(r, "authorize")
    /\ LaneWrite([lane EXCEPT !.mode = OpenMode], Goto(r, "claim"), Become(r, Idle))
    /\ UNCHANGED <<grantLive, ops, provider, history, negatives>>

-----------------------------------------------------------------------------
(* claim_operation *)

\* The lane is read once; its mode and grant are judged from this record.
ClaimReadLane(r) ==
    /\ At(r, "claim")
    /\ \/ /\ lane.mode = OpenMode
          /\ Become(r, [run[r] EXCEPT !.pc = "readop",
                                      !.room = lane.consumed < MaxEffects])
       \/ Done(r)       \* SHADOW_MODE, SHADOW_STATE_UNAVAILABLE
    /\ UNCHANGED <<lane, grantLive, ops, provider, history, negatives>>

\* Mutants of SafeToExecute: an UNKNOWN outcome is retried; the digest is ignored.
SafeAfterUnknown(op, d) ==
    op.state = "MISSING" \/ (op.digest = d /\ op.state \in {"UNKNOWN", "RECONCILED_NOT_OBSERVED"})
SafeForAnyPayload(op, d) == op.state \in {"MISSING", "RECONCILED_NOT_OBSERVED"}

\* evaluate_idempotency of the record read.
SafeToExecute(op, d) ==
    \/ op.state = "MISSING"
    \/ op.digest = d /\ op.state = "RECONCILED_NOT_OBSERVED"

\* evaluate_canary_grant / evaluate_active_auto_safe_authority.  The executors pass
\* an authorization that is complete and expires ten minutes later.
Authorized(r) == Canary => run[r].room /\ grantLive

ClaimReadOp(r) ==
    /\ At(r, "readop")
    /\ \/ /\ SafeToExecute(ops[Key(r)], run[r].digest)
          /\ Authorized(r)
          /\ Become(r, [run[r] EXCEPT !.pc = "lease", !.ver = ops[Key(r)].ver,
                                      !.att = ops[Key(r)].att])
       \/ Done(r)       \* a denial, or the record could not be read
    /\ UNCHANGED <<lane, grantLive, ops, provider, history, negatives>>

\* Mutant of AcquireLease: the expiry is not looked at.
AcquireAnyLease(r) ==
    /\ At(r, "lease")
    /\ lane' = [lane EXCEPT !.lease = [holder |-> r, key |-> Key(r), live |-> TRUE]]
    /\ Become(r, [run[r] EXCEPT !.pc = IF Canary THEN "consume" ELSE "claimop"])
    /\ UNCHANGED <<grantLive, ops, provider, history, negatives>>

\* acquire_lease: over no lease or an expired one.
AcquireLease(r) ==
    /\ At(r, "lease")
    /\ \/ /\ ~lane.lease.live
          /\ LaneWrite([lane EXCEPT !.lease = [holder |-> r, key |-> Key(r), live |-> TRUE]],
                       Become(r, [run[r] EXCEPT !.lost = FALSE,
                                    !.pc = IF Canary THEN "consume" ELSE "claimop"]),
                       Done(r))
       \/ /\ lane.lease.live
          /\ Done(r)
          /\ UNCHANGED lane
    /\ UNCHANGED <<grantLive, ops, provider, history, negatives>>

\* Mutants of ConsumeCanary: the grant's limit is not checked again under the lease;
\* a consumption that failed is not noticed.
ConsumeUnlimited(r) ==
    /\ At(r, "consume")
    /\ lane.lease.holder = r
    /\ lane' = [lane EXCEPT !.consumed = @ + 1]
    /\ Become(r, [run[r] EXCEPT !.pc = "claimop", !.unit = lane.consumed + 1])
    /\ UNCHANGED <<grantLive, ops, provider, history, negatives>>
ConsumeUnnoticed(r) ==
    /\ At(r, "consume")
    /\ Goto(r, "claimop")
    /\ UNCHANGED <<lane, grantLive, ops, provider, history, negatives>>

\* _consume_canary: wants its own lease (expired or not) and an unconsumed grant.
ConsumeCanary(r) ==
    /\ At(r, "consume")
    /\ \/ /\ lane.lease.holder = r
          /\ lane.consumed < MaxEffects
          /\ LaneWrite([lane EXCEPT !.consumed = @ + 1],
                       Become(r, [run[r] EXCEPT !.pc = "claimop", !.unit = lane.consumed + 1]),
                       Goto(r, "release"))
       \/ /\ lane.lease.holder # r \/ lane.consumed >= MaxEffects
          /\ Goto(r, "release")
          /\ UNCHANGED lane
    /\ UNCHANGED <<grantLive, ops, provider, history, negatives>>

\* Mutant of ClaimOperation: the record is written over whatever version is there.
ClaimAnyVersion(r) ==
    /\ At(r, "claimop")
    /\ OpWrite(Key(r),
               [ops[Key(r)] EXCEPT !.state = "IN_FLIGHT", !.digest = run[r].digest,
                                   !.att = run[r].att + 1],
               Become(r, [run[r] EXCEPT !.pc = "mark", !.att = run[r].att + 1]),
               Goto(r, "release"))
    /\ UNCHANGED <<lane, grantLive, provider, history, negatives>>

\* The durable IN_FLIGHT record, on the version the claim read before the lease.
ClaimOperation(r) ==
    /\ At(r, "claimop")
    /\ \/ /\ ops[Key(r)].ver = run[r].ver
          /\ OpWrite(Key(r),
                     [ops[Key(r)] EXCEPT !.state = "IN_FLIGHT", !.digest = run[r].digest,
                                         !.att = run[r].att + 1],
                     Become(r, [run[r] EXCEPT !.pc = "mark", !.att = run[r].att + 1]),
                     Goto(r, "release"))
       \/ /\ ops[Key(r)].ver # run[r].ver
          /\ Goto(r, "release")
          /\ UNCHANGED ops
    /\ UNCHANGED <<lane, grantLive, provider, history, negatives>>

\* The lane's operation_key and receipt are refreshed (both outside this model).
\* If the lane cannot be read the claim stands; if the write fails it does not,
\* and the lease and the IN_FLIGHT record stay (CLAIMED_RECONCILE_WORKSTREAM_REQUIRED).
MarkLane(r) ==
    /\ At(r, "mark")
    /\ Goto(r, "send") \/ Done(r)
    /\ UNCHANGED <<lane, grantLive, ops, provider, history, negatives>>

\* Mutant of ReleaseLease: whoever holds the lease loses it.
ReleaseAnyLease(r) ==
    /\ At(r, "release")
    /\ LaneWrite([lane EXCEPT !.lease = NoLease], Done(r), Done(r))
    /\ UNCHANGED <<grantLive, ops, provider, history, negatives>>

\* release_lease after a failed claim; its errors are swallowed.
ReleaseLease(r) ==
    /\ At(r, "release")
    /\ \/ /\ lane.lease.holder = r
          /\ LaneWrite([lane EXCEPT !.lease = NoLease], Done(r), Done(r))
       \/ /\ lane.lease.holder # r
          /\ Done(r)
          /\ UNCHANGED lane
    /\ UNCHANGED <<grantLive, ops, provider, history, negatives>>

-----------------------------------------------------------------------------
(* The provider call and what is recorded of it *)

CountDispatch(r) ==
    /\ dispatches' = [dispatches EXCEPT ![Key(r)][run[r].att] = @ + 1]
    /\ payloads' = [payloads EXCEPT ![Key(r)] = @ \cup {run[r].digest}]
    /\ spent' = [spent EXCEPT ![run[r].unit] = @ + 1]

\* send_message returns a receipt that proves delivery.
SendDelivered(r) ==
    /\ At(r, "send")
    /\ CountDispatch(r)
    /\ applied' = [applied EXCEPT ![Key(r)] = TRUE]
    /\ Become(r, [run[r] EXCEPT !.pc = "readback", !.obs = "seen"])
    /\ UNCHANGED <<lane, grantLive, ops, late, negatives>>

\* Mutant of SendUnproven: an unproven receipt is taken for a delivery.
SendPresumed(r) ==
    /\ At(r, "send")
    /\ CountDispatch(r)
    /\ Become(r, [run[r] EXCEPT !.pc = "readback", !.obs = "seen"])
    /\ UNCHANGED <<lane, grantLive, ops, provider, negatives>>

\* It raises, or its receipt proves nothing: the effect did not happen, did
\* happen, or will.
SendUnproven(r) ==
    /\ At(r, "send")
    /\ CountDispatch(r)
    /\ \/ UNCHANGED provider
       \/ applied' = [applied EXCEPT ![Key(r)] = TRUE] /\ UNCHANGED late
       \/ late' = [late EXCEPT ![Key(r)] = TRUE] /\ UNCHANGED applied
    /\ Goto(r, "unknown")
    /\ UNCHANGED <<lane, grantLive, ops, negatives>>

ProviderPerformsLate(k) ==
    /\ late[k]
    /\ applied' = [applied EXCEPT ![k] = TRUE]
    /\ late' = [late EXCEPT ![k] = FALSE]
    /\ UNCHANGED <<lane, grantLive, ops, run, history, negatives>>

\* record_unknown_write, the operation record: whatever state it is in.
RecordUnknown(r) ==
    /\ At(r, "unknown")
    /\ OpWrite(Key(r), [ops[Key(r)] EXCEPT !.state = "UNKNOWN"],
               Goto(r, "unknownlane"), Done(r))
    /\ UNCHANGED <<lane, grantLive, provider, history, negatives>>

\* record_unknown_write, the lane.
RecordUnknownLane(r) ==
    /\ At(r, "unknownlane")
    /\ LaneWrite([lane EXCEPT !.unknown = Key(r)], Done(r), Done(r))
    /\ UNCHANGED <<grantLive, ops, provider, history, negatives>>

\* Mutant of ReadbackState: an inconclusive readback confirms.
ReadbackUnlessAbsent(observed) ==
    IF observed = "absent" THEN "RECONCILED_NOT_OBSERVED" ELSE "CONFIRMED"

ReadbackState(observed) ==
    CASE observed = "seen"    -> "CONFIRMED"
      [] observed = "absent"  -> "RECONCILED_NOT_OBSERVED"
      [] observed = "unclear" -> "UNKNOWN"

\* record_authoritative_readback, the operation record.
RecordReadback(r) ==
    /\ At(r, "readback")
    /\ \/ /\ ops[Key(r)].state \in {"IN_FLIGHT", "UNKNOWN"}
          /\ OpWrite(Key(r), [ops[Key(r)] EXCEPT !.state = ReadbackState(run[r].obs)],
                     Goto(r, "readbacklane"), Done(r))
       \/ /\ ops[Key(r)].state \notin {"IN_FLIGHT", "UNKNOWN"}
          /\ Done(r)
          /\ UNCHANGED ops
    /\ negatives' = [negatives EXCEPT ![Key(r)] =
         IF run[r].obs = "absent" /\ ops' # ops THEN @ + 1 ELSE @]
    /\ UNCHANGED <<lane, grantLive, provider, history>>

\* The lane after a readback: the unknown-write marker goes whichever operation it
\* names, the lease only if it is this operation's.
AfterReadback(r) ==
    IF run[r].obs = "unclear"
      THEN [lane EXCEPT !.unknown = Key(r)]
      ELSE [lane EXCEPT !.unknown = None,
                        !.lease = IF @.key = Key(r) THEN NoLease ELSE @]

\* Everybody but r who counted on the lease in lane no longer has it.
Dispossess(r, f) ==
    [s \in Runners |-> IF s # r /\ lane'.lease.holder # s /\ lane.lease.holder = s
                         THEN [f[s] EXCEPT !.lost = TRUE] ELSE f[s]]

\* record_authoritative_readback, the lane.
RecordReadbackLane(r) ==
    /\ At(r, "readbacklane")
    /\ lane' = AfterReadback(r) \/ (~Reliable /\ UNCHANGED lane)
    /\ run' = Dispossess(r, [run EXCEPT ![r] =
         IF Canary \/ @.role = "reconciler" THEN Idle ELSE [@ EXCEPT !.pc = "restore"]])
    /\ UNCHANGED <<grantLive, ops, provider, history, negatives>>

\* _restore_lane_shadow in the lineage executor's finally; its bounded retry ends
\* with the mode narrowed or with an error.
RestoreShadow(r) ==
    /\ At(r, "restore")
    /\ LaneWrite([lane EXCEPT !.mode = "SHADOW"], Become(r, Idle), Become(r, Idle))
    /\ UNCHANGED <<grantLive, ops, provider, history, negatives>>

\* A reconciler has read the provider: reconcile_waiting_answer_operation may learn
\* any of the three, terminal recovery of a lineage only that the effect is there.
Reconcile(r, k) ==
    /\ At(r, "idle")
    /\ ops[k].state # "MISSING"
    /\ \E o \in Observations :
          /\ o = "seen" => applied[k]
          /\ o = "absent" => ~applied[k]
          /\ o # "seen" => Canary
          /\ Become(r, [Idle EXCEPT !.pc = "readback", !.role = "reconciler", !.key = k,
                                    !.obs = o])
    /\ UNCHANGED <<lane, grantLive, ops, provider, history, negatives>>

-----------------------------------------------------------------------------
(* The environment *)

\* The job is cancelled or dies; a new one takes its place.
Crash(r) ==
    /\ ~Reliable
    /\ ~At(r, "idle")
    /\ Become(r, Idle)
    /\ UNCHANGED <<lane, grantLive, ops, provider, history, negatives>>

\* ttl_seconds pass.
ExpireLease ==
    /\ lane.lease.live
    /\ lane' = [lane EXCEPT !.lease.live = FALSE]
    /\ run' = [run EXCEPT ![lane.lease.holder].lost = run[lane.lease.holder].pc # "idle"]
    /\ UNCHANGED <<grantLive, ops, provider, history, negatives>>

ExpireGrant ==
    /\ grantLive
    /\ grantLive' = FALSE
    /\ UNCHANGED <<lane, ops, run, provider, history, negatives>>

\* The project owner closes the canary lane or opens it again.
SetMode(m) ==
    /\ Canary
    /\ lane.mode # m
    /\ lane' = [lane EXCEPT !.mode = m]
    /\ UNCHANGED <<grantLive, ops, run, provider, history, negatives>>

\* What a runner does next once it has started.
Step(r) ==
    \/ Authorize(r) \/ ClaimReadLane(r) \/ ClaimReadOp(r) \/ AcquireLease(r)
    \/ ConsumeCanary(r) \/ ClaimOperation(r) \/ MarkLane(r) \/ ReleaseLease(r)
    \/ SendDelivered(r) \/ SendUnproven(r)
    \/ RecordUnknown(r) \/ RecordUnknownLane(r)
    \/ RecordReadback(r) \/ RecordReadbackLane(r)
    \/ RestoreShadow(r)

Next ==
    \/ \E r \in Runners :
          \/ \E k \in Ops, d \in Digests : StartCanary(r, k, d) \/ StartLineage(r, k, d)
          \/ \E k \in Ops : Reconcile(r, k)
          \/ Step(r)
          \/ Crash(r)
    \/ \E k \in Ops : ProviderPerformsLate(k)
    \/ \E m \in {"SHADOW", "CANARY"} : SetMode(m)
    \/ ExpireLease
    \/ ExpireGrant

Spec == Init /\ [][Next]_vars

-----------------------------------------------------------------------------
(* Properties *)

\* Types of the records and of the history.
TypeOK ==
    /\ lane \in Lane
    /\ grantLive \in BOOLEAN
    /\ ops \in [Ops -> Operation]
    /\ run \in [Runners -> Run]
    /\ applied \in [Ops -> BOOLEAN]
    /\ late \in [Ops -> BOOLEAN]
    /\ dispatches \in [Ops -> [1..MaxVersion -> Nat]]
    /\ payloads \in [Ops -> SUBSET Digests]
    /\ spent \in [0..MaxEffects -> Nat]
    /\ negatives \in [Ops -> Nat]

\* No provider call is ever repeated blindly: each attempt recorded on the operation
\* makes at most one call, and attempt n exists only after n - 1 authoritative
\* readbacks found the effect absent, whatever crashed, expired or failed to be
\* written on the way.
NoBlindRetry ==
    \A k \in Ops : \A a \in 1..MaxVersion :
        /\ dispatches[k][a] <= 1
        /\ dispatches[k][a] > 0 => a <= 1 + negatives[k]

\* Each provider call of a canary lane consumed a unit of the grant of its own:
\* the effects dispatched never exceed maximum_effect_count.
GrantBound ==
    Canary => spent[0] = 0 /\ \A u \in 1..MaxEffects : spent[u] <= 1

\* All calls made for an effect carry one payload: a changed prompt for the same
\* effect is a collision, never a second send.
OnePayload == \A k \in Ops : \A d, e \in payloads[k] : d = e

\* The parts of an executor that the lane's lease protects.
Protected(r) == run[r].pc \in {"consume", "claimop", "mark", "send"}

\* Two executors are never both between acquiring the lane's lease and the end of
\* their provider call, unless one of them outlived its lease or had it cleared by a
\* readback of its operation.
LeaseExclusion ==
    \A r, s \in Runners :
        Protected(r) /\ Protected(s) /\ r # s => run[r].lost \/ run[s].lost

\* CONFIRMED is only ever recorded of an effect the provider performed, given that what a
\* reconciler has seen of the provider is so (Reconcile).
ConfirmedIsTrue == \A k \in Ops : ops[k].state = "CONFIRMED" => applied[k]

\* No runner is at work.
Quiet == \A r \in Runners : At(r, "idle")

\* When nobody is at work, an operation left UNKNOWN is marked on its lane, which is
\* where recovery looks for it, at least if no job was cancelled and no write failed.
UnknownIsMarked ==
    Quiet => \A k \in Ops : ops[k].state = "UNKNOWN" => lane.unknown # None
=============================================================================

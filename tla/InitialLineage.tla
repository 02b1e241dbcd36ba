--------------------------- MODULE InitialLineage ---------------------------
(***************************************************************************)
(* How a logical lineage gets its first physical session: the guarded      *)
(* creation of ues/initial_lineage_effects.py as the initial-lineage       *)
(* runtime drives it, the two reconcilers of a creation whose outcome was  *)
(* not recorded (ues/initial_lineage_reconciliation.py, from the intention *)
(* on the lane; ues/stale_initial_lineage_reconciliation.py, from the      *)
(* operation the lane names), and the passive observation that adopts a    *)
(* session from a confirmed receipt (ues/lineage_generation.py over        *)
(* ues/lineage_registry.py).                                               *)
(*                                                                         *)
(* A task specification stands for its transition key, the marker the key  *)
(* puts in the session's title and its operation: each of them digests the *)
(* specification.  The parent may authorize another specification for the  *)
(* same lane before a later job.  Every write is one compare-and-swap;     *)
(* jobs are cancelled and writes fail between them, MaxFaults times in all.*)
(***************************************************************************)
EXTENDS Naturals, Sequences, FiniteSets

CONSTANTS
    Executors,      \* jobs with current authority, serialised or not
    Observers,      \* jobs without authority: they only observe
    Specs,          \* task specifications the parent may authorize
    MaxSessions,    \* bound: sessions the provider ever creates for the lane
    MaxFaults,      \* bound: cancelled jobs and failed writes
    MaxAttempts,    \* provider inventory snapshots of one job (at most 3 in the code)
    ReconcilesStale, \* the project's lifecycle jobs reconcile stale creations: those of RP01
                    \* to RP04 (ues/rp_authority_runtime.py) do, those of CEP and GS do not
    None

ASSUME InitialAssumption ==
    /\ MaxSessions \in Nat \ {0}
    /\ MaxFaults \in Nat
    /\ MaxAttempts \in Nat \ {0}
    /\ ReconcilesStale \in BOOLEAN
    /\ None \notin Specs \cup Executors \cup Observers

VARIABLES
    lane,       \* the lineage lane's WorkstreamRuntimeRecord
    ops,        \* the OperationRecord of each specification's creation
    account,    \* the TASK-BUDGET-ACCOUNTING record
    sessions,   \* the provider's sessions and the marker in each title
    late,       \* creations the provider has accepted and has yet to perform
    run,        \* what each job is doing
    faults      \* faults so far

vars == <<lane, ops, account, sessions, late, run, faults>>

store    == <<lane, ops, account>>
provider == <<sessions, late>>

Runners == Executors \cup Observers
Sessions == 1..MaxSessions

\* A stale observation may move the lane from one session to another, a generation each.
MaxGeneration == MaxSessions

-----------------------------------------------------------------------------
(* Records *)

Lease == [holder : Runners, key : Specs, live : BOOLEAN]
NoLease == [holder |-> None, key |-> None, live |-> FALSE]

\* operation_receipt: the operation, its state there, and the session its
\* post-condition names.
Receipt == [key : Specs, state : {"IN_FLIGHT", "UNKNOWN", "CONFIRMED"}, fp : Sessions \cup {0}]
NoReceipt == [key |-> None, state |-> "NONE", fp |-> 0]

\* gen, fp, tkey, pending: evidence_bindings, where tkey is the transition key and the
\* task spec digest; opkey: operation_key; unknown: unknown_write_state's operation;
\* lease: lease and action_in_flight; open: ACTIVE_AUTO_SAFE, otherwise SHADOW.
Lane == [exists : BOOLEAN, gen : 0..MaxGeneration, fp : Sessions \cup {0}, tkey : Specs \cup {None},
         pending : Specs \cup {None}, opkey : Specs \cup {None},
         receipt : Receipt \cup {NoReceipt}, unknown : Specs \cup {None},
         lease : Lease \cup {NoLease}, open : BOOLEAN]

NoLane == [exists |-> FALSE, gen |-> 0, fp |-> 0, tkey |-> None, pending |-> None,
           opkey |-> None, receipt |-> NoReceipt, unknown |-> None, lease |-> NoLease,
           open |-> FALSE]

OpStates == {"MISSING", "IN_FLIGHT", "UNKNOWN", "CONFIRMED"}

PCs == {"idle", "inventory", "snapshot", "ensure", "assess", "pending", "authorize",
        "claim", "lease", "claimop", "mark", "release", "send", "unknown", "unknownlane",
        "confirm", "confirmlane", "bind", "account", "restore", "stale", "upsert"}

\* then: the step after the inventory; listed: the inventory; tries: its attempts;
\* policy: the effect is authorized by the state the policy was resolved from;
\* key, spec, fp: the operation, the transition and the session being recorded;
\* executing: the job is inside execute_initial_lineage_generation's try.
Run == [pc : PCs, then : PCs, spec : Specs \cup {None}, key : Specs \cup {None},
        fp : Sessions \cup {0}, listed : SUBSET Sessions, tries : 0..MaxAttempts,
        policy : BOOLEAN, executing : BOOLEAN]
Idle == [pc |-> "idle", then |-> "idle", spec |-> None, key |-> None, fp |-> 0,
         listed |-> {}, tries |-> 0, policy |-> FALSE, executing |-> FALSE]

Init ==
    /\ lane = NoLane
    /\ ops = [s \in Specs |-> "MISSING"]
    /\ account = [count |-> 0, seen |-> {}]
    /\ sessions = <<>>
    /\ late = {}
    /\ run = [r \in Runners |-> Idle]
    /\ faults = 0

-----------------------------------------------------------------------------
(* Control *)

At(r, l) == run[r].pc = l
Become(r, rec) == run' = [run EXCEPT ![r] = rec]
Goto(r, l) == Become(r, [run[r] EXCEPT !.pc = l])
Stop(r) == Become(r, Idle)

\* execute_initial_lineage_generation returns or raises inside its try:
\* _restore_lane_shadow is in its finally.  A reconciler simply ends.
Leave(r) == IF run[r].executing THEN Goto(r, "restore") ELSE Stop(r)

\* One read and compare-and-swap of a record v.  A write that is reported as failed
\* (also: one that has lost the version race as often as it may) may have been performed.
Write(v, new, Ok, Fail) ==
    \/ v' = new /\ Ok /\ UNCHANGED faults
    \/ faults < MaxFaults /\ faults' = faults + 1 /\ v' \in {new, v} /\ Fail

\* The same when the record already is as wanted: it is only read.
ReadOnly(Ok, Fail) ==
    \/ Ok /\ UNCHANGED faults
    \/ faults < MaxFaults /\ faults' = faults + 1 /\ Fail

\* The listed sessions whose title carries the marker of s.  Before it, a mutant: those of
\* the right repository and branch.
MatchingBranch(listed, s) == listed
Matching(listed, s) == {i \in listed : sessions[i] = s}

-----------------------------------------------------------------------------
(* The provider inventory that every path reads first *)

\* The operation of a stale creation (_operation_identity): the lane is unbound and
\* names an operation that is still ambiguous.
StaleKey == IF lane.opkey # None THEN lane.opkey ELSE lane.receipt.key
\* Before it, a mutant: an operation marked UNKNOWN is left to the other reconciler.
IsStaleInFlight ==
    /\ lane.exists /\ lane.gen = 0 /\ lane.fp = 0
    /\ StaleKey # None
    /\ ops[StaleKey] = "IN_FLIGHT"

IsStale ==
    /\ lane.exists /\ lane.gen = 0 /\ lane.fp = 0
    /\ StaleKey # None
    /\ ops[StaleKey] \in {"IN_FLIGHT", "UNKNOWN"}

\* The initial-lineage runtime's job for a lane whose authorized specification is s.
StartRun(r, s) ==
    /\ At(r, "idle")
    /\ Become(r, [Idle EXCEPT !.pc = "inventory", !.then = "snapshot", !.spec = s])
    /\ UNCHANGED <<store, provider, faults>>

\* reconcile_project_stale_initial_lineages, which run of ues/rp_authority_runtime.py calls
\* first, and nothing else calls.
StartStale(r) ==
    /\ ReconcilesStale
    /\ At(r, "idle")
    /\ IsStale
    /\ Become(r, [Idle EXCEPT !.pc = "inventory", !.then = "stale"])
    /\ UNCHANGED <<store, provider, faults>>

\* The enumeration may lag behind.
ListSessions(r, listed) ==
    /\ At(r, "inventory")
    /\ Become(r, [run[r] EXCEPT !.pc = run[r].then, !.listed = listed, !.tries = 0])
    /\ UNCHANGED <<store, provider, faults>>

\* It fails before anything was written: the snapshot is read again, a bounded number
\* of times.  Before it, a mutant: the attempts are counted from one.
RetryOnceMore(r) ==
    IF run[r].tries < MaxAttempts + 1
      THEN Become(r, [run[r] EXCEPT !.tries = @ + 1])
      ELSE Stop(r)

RetryInventory(r) ==
    IF run[r].tries + 1 < MaxAttempts
      THEN Become(r, [run[r] EXCEPT !.tries = @ + 1])
      ELSE Stop(r)

\* _provider_inventory_with_retry.
InventoryUnavailable(r) ==
    /\ At(r, "inventory") /\ run[r].then = "snapshot"
    /\ RetryInventory(r)
    /\ UNCHANGED <<store, provider, faults>>

\* _run_stale_initial_reconciliation_with_retry.
StaleInventoryUnavailable(r) ==
    /\ At(r, "inventory") /\ run[r].then = "stale"
    /\ RetryInventory(r)
    /\ UNCHANGED <<store, provider, faults>>

-----------------------------------------------------------------------------
(* initial_lineage_runtime.run for one lane *)

\* resolve_execution_policy on a lane record: an effect in an unresolved state withdraws
\* the authorization.  Authority and budget are given.
EffectAuthorized(l) ==
    /\ l.unknown = None
    /\ l.lease = NoLease
    /\ l.receipt.state \notin {"IN_FLIGHT", "UNKNOWN"}

\* _pending_initial_state: a marker and an intention.
PendingInitial == lane.unknown # None /\ lane.pending # None

\* reconcile_unknown_initial_lineage, for such a lane: the operation is confirmed when
\* exactly one session carries the intention's marker.
ReconcileUnknown(r) ==
    LET known == Matching(run[r].listed, lane.pending) IN
    /\ At(r, "snapshot")
    /\ PendingInitial
    /\ IF Cardinality(known) = 1
         THEN Become(r, [run[r] EXCEPT !.pc = "confirm", !.key = lane.unknown,
                           !.spec = lane.pending, !.fp = CHOOSE i \in known : TRUE])
         ELSE Stop(r)
    /\ UNCHANGED <<store, provider, faults>>

\* Any other lane: nothing when the lane is unbound and its specification already has a
\* session, or the source or the baseline is not exact; else the create.
Snapshot(r) ==
    /\ At(r, "snapshot")
    /\ ~PendingInitial
    /\ \/ Stop(r)
       \/ /\ lane.gen # 0 \/ Matching(run[r].listed, run[r].spec) = {}
          /\ Become(r, [run[r] EXCEPT !.pc = "ensure", !.key = run[r].spec,
                          !.policy = EffectAuthorized(lane)])
    /\ UNCHANGED <<store, provider, faults>>

\* The same when the lane cannot be read: it counts as a lane without a record.
SnapshotUnread(r) ==
    /\ At(r, "snapshot")
    /\ faults < MaxFaults
    /\ faults' = faults + 1
    /\ Matching(run[r].listed, run[r].spec) = {}
    /\ Become(r, [run[r] EXCEPT !.pc = "ensure", !.key = run[r].spec, !.policy = TRUE])
    /\ UNCHANGED <<store, provider>>

\* _ensure_initial_lane.
EnsureInitialLane(r) ==
    /\ At(r, "ensure")
    /\ IF lane.exists
         THEN ReadOnly(Goto(r, "assess"), Stop(r)) /\ UNCHANGED lane
         ELSE Write(lane, [NoLane EXCEPT !.exists = TRUE], Goto(r, "assess"), Stop(r))
    /\ UNCHANGED <<ops, account, provider>>

\* assess_initial_lineage_creation.  Before it, a mutant: the authorization the policy
\* withdrew is not looked at.
AllowedBlindly(l, job) ==
    /\ l.gen = 0 /\ l.fp = 0
    /\ l.unknown = None
    /\ Matching(job.listed, job.spec) = {}

CreationAllowed(l, job) ==
    /\ l.gen = 0 /\ l.fp = 0
    /\ job.policy
    /\ l.unknown = None /\ l.lease = NoLease
    /\ Matching(job.listed, job.spec) = {}

\* _snapshot and the assessment; a bound lane is left alone, whether its specification is
\* this one or another.
Assess(r) ==
    /\ At(r, "assess")
    /\ IF CreationAllowed(lane, run[r]) THEN Goto(r, "pending") ELSE Stop(r)
    /\ UNCHANGED <<store, provider, faults>>

\* _persist_pending_initial: another specification's intention is replaced unless its
\* outcome is unknown or in flight.
PersistPending(r) ==
    /\ At(r, "pending")
    /\ \/ /\ lane.pending = run[r].spec
          /\ ReadOnly(Goto(r, "authorize"), Stop(r))
          /\ UNCHANGED lane
       \/ /\ lane.pending \notin {None, run[r].spec}
          /\ lane.unknown # None \/ lane.lease # NoLease
          /\ Stop(r)
          /\ UNCHANGED <<lane, faults>>
       \/ /\ lane.pending # run[r].spec
          /\ lane.pending = None \/ (lane.unknown = None /\ lane.lease = NoLease)
          /\ Write(lane, [lane EXCEPT !.pending = run[r].spec, !.open = FALSE],
                   Goto(r, "authorize"), Stop(r))
    /\ UNCHANGED <<ops, account, provider>>

\* _authorize_lane, before the try.
Authorize(r) ==
    /\ At(r, "authorize")
    /\ Write(lane, [lane EXCEPT !.open = TRUE],
             Become(r, [run[r] EXCEPT !.pc = "claim", !.executing = TRUE]), Stop(r))
    /\ UNCHANGED <<ops, account, provider>>

-----------------------------------------------------------------------------
(* claim_operation *)

\* evaluate_idempotency: a claimed operation is never executed again.  Before it, a
\* mutant: a confirmed one is.
SafeUnlessAmbiguous(k) == ops[k] \in {"MISSING", "CONFIRMED"}
SafeToExecute(k) == ops[k] = "MISSING"

\* The lane and the operation are read.
ClaimRead(r) ==
    /\ At(r, "claim")
    /\ IF lane.open /\ SafeToExecute(run[r].key)
         THEN ReadOnly(Goto(r, "lease"), Leave(r))
         ELSE Leave(r) /\ UNCHANGED faults
    /\ UNCHANGED <<store, provider>>

AcquireLease(r) ==
    /\ At(r, "lease")
    /\ IF lane.lease.live
         THEN Leave(r) /\ UNCHANGED <<lane, faults>>
         ELSE Write(lane,
                    [lane EXCEPT !.lease = [holder |-> r, key |-> run[r].key, live |-> TRUE]],
                    Goto(r, "claimop"), Leave(r))
    /\ UNCHANGED <<ops, account, provider>>

\* The IN_FLIGHT record, on the version that was read before the lease.
ClaimOperation(r) ==
    /\ At(r, "claimop")
    /\ IF SafeToExecute(run[r].key)
         THEN Write(ops, [ops EXCEPT ![run[r].key] = "IN_FLIGHT"],
                    Goto(r, "mark"), Goto(r, "release"))
         ELSE Goto(r, "release") /\ UNCHANGED <<ops, faults>>
    /\ UNCHANGED <<lane, account, provider>>

\* The lane's operation_key and receipt.  A failed write leaves the claim to be
\* reconciled; when the lane cannot be read the claim stands without them.
MarkLane(r) ==
    /\ At(r, "mark")
    /\ \/ Write(lane,
                [lane EXCEPT !.opkey = run[r].key,
                   !.receipt = [key |-> run[r].key, state |-> "IN_FLIGHT", fp |-> 0]],
                Goto(r, "send"), Leave(r))
       \/ /\ faults < MaxFaults
          /\ faults' = faults + 1
          /\ Goto(r, "send")
          /\ UNCHANGED lane
    /\ UNCHANGED <<ops, account, provider>>

ReleaseLease(r) ==
    /\ At(r, "release")
    /\ IF lane.lease.holder = r
         THEN Write(lane, [lane EXCEPT !.lease = NoLease], Leave(r), Leave(r))
         ELSE Leave(r) /\ UNCHANGED <<lane, faults>>
    /\ UNCHANGED <<ops, account, provider>>

-----------------------------------------------------------------------------
(* create_session *)

Create(s) ==
    /\ Len(sessions) < MaxSessions
    /\ sessions' = Append(sessions, s)

\* It returns a receipt for the repository and branch that were asked for.
CreateConfirmed(r) ==
    /\ At(r, "send")
    /\ Create(run[r].spec)
    /\ Become(r, [run[r] EXCEPT !.pc = "confirm", !.fp = Len(sessions) + 1])
    /\ UNCHANGED <<store, late, faults>>

\* What create_session may leave when it raises: no session (its source is another
\* repository's, the request is refused or lost), a session that its readbacks have not
\* proven, or a request that is performed later.
CreateSessionRaises(s) ==
    \/ UNCHANGED provider
    \/ Create(s) /\ UNCHANGED late
    \/ late' = late \cup {s} /\ UNCHANGED sessions

\* It raises, or its receipt is for another repository or branch.
CreateUnproven(r) ==
    /\ At(r, "send")
    /\ CreateSessionRaises(run[r].spec)
    /\ Goto(r, "unknown")
    /\ UNCHANGED <<store, faults>>

ProviderCreatesLate(s) ==
    /\ s \in late
    /\ Create(s)
    /\ late' = late \ {s}
    /\ UNCHANGED <<store, run, faults>>

-----------------------------------------------------------------------------
(* record_unknown_write and record_authoritative_readback *)

RecordUnknown(r) ==
    /\ At(r, "unknown")
    /\ Write(ops, [ops EXCEPT ![run[r].key] = "UNKNOWN"], Goto(r, "unknownlane"), Leave(r))
    /\ UNCHANGED <<lane, account, provider>>

\* The lane's marker and receipt (whose post-condition only a CONFIRMED one is read for).
RecordUnknownLane(r) ==
    /\ At(r, "unknownlane")
    /\ Write(lane,
             [lane EXCEPT !.unknown = run[r].key,
                !.receipt = [key |-> run[r].key, state |-> "UNKNOWN", fp |-> 0]],
             Leave(r), Leave(r))
    /\ UNCHANGED <<ops, account, provider>>

RecordReadback(r) ==
    /\ At(r, "confirm")
    /\ IF ops[run[r].key] \in {"IN_FLIGHT", "UNKNOWN"}
         THEN Write(ops, [ops EXCEPT ![run[r].key] = "CONFIRMED"],
                    Goto(r, "confirmlane"), Leave(r))
         ELSE Leave(r) /\ UNCHANGED <<ops, faults>>
    /\ UNCHANGED <<lane, account, provider>>

RecordReadbackLane(r) ==
    /\ At(r, "confirmlane")
    /\ Write(lane,
             [lane EXCEPT !.unknown = None,
                !.receipt = [key |-> run[r].key, state |-> "CONFIRMED", fp |-> run[r].fp],
                !.lease = IF @.key = run[r].key THEN NoLease ELSE @],
             Goto(r, "bind"), Leave(r))
    /\ UNCHANGED <<ops, account, provider>>

-----------------------------------------------------------------------------
(* Binding and accounting *)

\* What _persist_initial_binding writes.
Bound(l, s, f) ==
    [l EXCEPT !.gen = 1, !.fp = f, !.tkey = s, !.pending = None, !.unknown = None,
              !.open = FALSE]

\* _persist_initial_binding: a lane that is bound to this session for this transition
\* is left as it is, a lane bound otherwise is a conflict.
PersistBinding(r) ==
    LET same == lane.fp = run[r].fp /\ lane.tkey = run[r].spec
    IN  /\ At(r, "bind")
        /\ \/ /\ lane.gen = 1 /\ same
              /\ ReadOnly(Goto(r, "account"), Goto(r, "unknown"))
              /\ UNCHANGED lane
           \/ /\ lane.gen # 0 /\ ~(lane.gen = 1 /\ same)
              /\ Goto(r, "unknown")
              /\ UNCHANGED <<lane, faults>>
           \/ /\ lane.gen = 0
              /\ Write(lane, Bound(lane, run[r].spec, run[r].fp),
                       Goto(r, "account"), Goto(r, "unknown"))
        /\ UNCHANGED <<ops, account, provider>>

\* record_confirmed_generation.  An executor then reads the lane once more and raises if
\* it has changed; nothing is written.
RecordConfirmedGeneration(r) ==
    /\ At(r, "account")
    /\ IF run[r].key \in account.seen
         THEN ReadOnly(Leave(r), Goto(r, "unknown")) /\ UNCHANGED account
         ELSE Write(account, [count |-> account.count + 1, seen |-> account.seen \cup {run[r].key}],
                    Leave(r), Goto(r, "unknown"))
    /\ UNCHANGED <<lane, ops, provider>>

\* _restore_lane_shadow.
RestoreShadow(r) ==
    /\ At(r, "restore")
    /\ IF lane.open
         THEN Write(lane, [lane EXCEPT !.open = FALSE], Stop(r), Stop(r))
         ELSE ReadOnly(Stop(r), Stop(r)) /\ UNCHANGED lane
    /\ UNCHANGED <<ops, account, provider>>

-----------------------------------------------------------------------------
(* reconcile_stale_initial_lineage_lane *)

\* The operation's identity is read again; it is refused while the operation's lease is
\* live and unless exactly one session carries its marker.
ReconcileStale(r) ==
    LET k == StaleKey
        found == Matching(run[r].listed, k)
        leased == lane.lease.key = k /\ lane.lease.live
    IN  /\ At(r, "stale")
        /\ IF IsStale /\ ~leased /\ Cardinality(found) = 1
             THEN Become(r, [run[r] EXCEPT !.pc = "confirm", !.key = k, !.spec = k,
                               !.fp = CHOOSE i \in found : TRUE])
             ELSE Stop(r)
        /\ UNCHANGED <<store, provider, faults>>

-----------------------------------------------------------------------------
(* Passive observation *)

\* recover_lineage_policy_from_state: the session the lane is bound to or, failing that,
\* the one a confirmed creation receipt names (_confirmed_receipt_binding).
RecoveredSession(l) ==
    IF l.fp # 0 THEN l.fp
    ELSE IF l.receipt.state = "CONFIRMED" THEN l.receipt.fp ELSE 0

\* match_lineage_session finds that session (f) among the provider's, or not (0).
Observe(r, f) ==
    /\ At(r, "idle")
    /\ f \in {0, RecoveredSession(lane)}
    /\ Become(r, [Idle EXCEPT !.pc = "upsert", !.fp = f])
    /\ UNCHANGED <<store, provider, faults>>

\* upsert_lineage_observation on a lane: the evidence is written anew, without the
\* intention and the transition.  A session the lane is not bound to opens a generation:
\* the first when the lane is unbound.  (_legacy_branch_only_adoption never applies:
\* every binding here came with a known fingerprint.)  Before it, mutants: the transition
\* is kept; a session that is not listed any more unbinds the lane.
ObservedKeepsTransition(l, f) ==
    LET moved == f \notin {0, l.fp} IN
    [l EXCEPT !.exists = TRUE, !.gen = IF moved THEN @ + 1 ELSE @,
              !.fp = IF moved THEN f ELSE @, !.pending = None, !.open = FALSE]

ObservedOrUnbound(l, f) ==
    [l EXCEPT !.exists = TRUE, !.gen = IF f # 0 THEN 1 ELSE 0, !.fp = f,
              !.tkey = None, !.pending = None, !.open = FALSE]

Observed(l, f) ==
    LET moved == f \notin {0, l.fp} IN
    [l EXCEPT !.exists = TRUE, !.gen = IF moved THEN @ + 1 ELSE @,
              !.fp = IF moved THEN f ELSE @,
              !.tkey = None, !.pending = None, !.open = FALSE]

Upsert(r) ==
    /\ At(r, "upsert")
    /\ Observed(lane, run[r].fp).gen <= MaxGeneration
    /\ Write(lane, Observed(lane, run[r].fp), Stop(r), Stop(r))
    /\ UNCHANGED <<ops, account, provider>>

-----------------------------------------------------------------------------
(* The environment *)

\* The job is cancelled or dies.
Crash(r) ==
    /\ faults < MaxFaults
    /\ faults' = faults + 1
    /\ ~At(r, "idle")
    /\ Stop(r)
    /\ UNCHANGED <<store, provider>>

ExpireLease ==
    /\ lane.lease.live
    /\ lane' = [lane EXCEPT !.lease.live = FALSE]
    /\ UNCHANGED <<ops, account, provider, run, faults>>

\* What a job that has read its inventory does next.
Step(r) ==
    \/ ReconcileUnknown(r) \/ Snapshot(r) \/ SnapshotUnread(r)
    \/ EnsureInitialLane(r) \/ Assess(r)
    \/ PersistPending(r) \/ Authorize(r)
    \/ ClaimRead(r) \/ AcquireLease(r) \/ ClaimOperation(r) \/ MarkLane(r) \/ ReleaseLease(r)
    \/ CreateConfirmed(r) \/ CreateUnproven(r)
    \/ RecordUnknown(r) \/ RecordUnknownLane(r) \/ RecordReadback(r) \/ RecordReadbackLane(r)
    \/ PersistBinding(r) \/ RecordConfirmedGeneration(r) \/ RestoreShadow(r)
    \/ ReconcileStale(r) \/ Upsert(r)

ListAll(r, l) == run[r].then = l /\ ListSessions(r, DOMAIN sessions)

Next ==
    \/ \E r \in Executors :
          \/ \E s \in Specs : StartRun(r, s)
          \/ StartStale(r)
          \/ \E listed \in SUBSET DOMAIN sessions : ListSessions(r, listed)
          \/ InventoryUnavailable(r)
          \/ StaleInventoryUnavailable(r)
    \/ \E r \in Runners :
          \/ \E f \in Sessions \cup {0} : Observe(r, f)
          \/ Step(r)
          \/ Crash(r)
    \/ \E s \in late : ProviderCreatesLate(s)
    \/ ExpireLease

Spec == Init /\ [][Next]_vars

\* Every step of a job is a request with a timeout.  Lifecycle jobs recur: each of them
\* reconciles stale creations (where ReconcilesStale) and observes the lane; those of the
\* initial lineage recur; the provider's enumeration catches up; leases expire.
FairSpec ==
    /\ Spec
    /\ WF_vars(ExpireLease)
    /\ \A r \in Runners : WF_vars(Step(r))
    /\ \A r \in Executors :
          /\ SF_vars(StartStale(r))
          /\ SF_vars(ListAll(r, "stale"))
          /\ SF_vars(ListAll(r, "snapshot"))
          /\ SF_vars(RecoveredSession(lane) # 0 /\ Observe(r, RecoveredSession(lane)))

-----------------------------------------------------------------------------
(* Properties *)

\* Types of the records.
TypeOK ==
    /\ lane \in Lane \cup {NoLane}
    /\ ops \in [Specs -> OpStates]
    /\ account \in [count : Nat, seen : SUBSET Specs]
    /\ sessions \in Seq(Specs)
    /\ late \subseteq Specs
    /\ run \in [Runners -> Run]
    /\ faults \in 0..MaxFaults

Requested == late \cup {sessions[i] : i \in DOMAIN sessions}

\* The provider is asked at most once for the session of a task specification, however
\* often the specification is authorized again, whoever crashes and however late the
\* provider performs the request.
OneSessionPerSpec ==
    /\ \A i, j \in DOMAIN sessions : sessions[i] = sessions[j] => i = j
    /\ \A i \in DOMAIN sessions : sessions[i] \notin late

\* With jobs serialised and at most one fault, another specification is requested only
\* when the outcome of every earlier creation of the lane has been read back.
RequestStep ==
    \A s \in Requested' \ Requested :
        \A u \in Requested : ops[u] = "CONFIRMED"

UnresolvedBlocksCreation == [][RequestStep]_vars

\* A lane that names a specification is bound to the session created for it, and its
\* operation has been claimed.
BoundToItsSpec ==
    lane.tkey # None =>
        /\ lane.gen = 1 /\ lane.fp # 0
        /\ sessions[lane.fp] = lane.tkey
        /\ ops[lane.tkey] # "MISSING"

\* Once bound, by its executor, a reconciler or an observation, the lane is never unbound,
\* and a generation keeps its session.
KeepStep ==
    /\ lane.gen > 0 => lane'.gen \in {lane.gen, lane.gen + 1} /\ lane'.fp # 0
    /\ lane.gen > 0 /\ lane'.gen = lane.gen => lane'.fp = lane.fp

FirstSessionKept == [][KeepStep]_vars

\* The budget counts every specification once, and only one whose session was created.
CountedOnce ==
    /\ account.count = Cardinality(account.seen)
    /\ account.seen \subseteq {sessions[i] : i \in DOMAIN sessions}

\* The operation was confirmed and the lane never heard of it: the readback's second
\* write was lost, so no reconciler takes the creation up again.
LostReadback ==
    /\ lane.gen = 0
    /\ lane.receipt.state # "CONFIRMED"
    /\ \E s \in Specs : ops[s] = "CONFIRMED"

\* In a project that reconciles stale creations, a session that was created becomes the
\* lane's, whatever step one fault hits, with one exception: the readback that is confirmed
\* and not on the lane.  (In another, the session of a job that was cancelled after
\* create_session, or whose intention an observation has overwritten, waits for the parent's
\* adjudication of its marker.)
CreatedIsBound == ReconcilesStale => (Len(sessions) > 0 ~> lane.gen > 0 \/ LostReadback)
=============================================================================

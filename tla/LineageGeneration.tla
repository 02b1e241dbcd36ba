------------------------- MODULE LineageGeneration -------------------------
(***************************************************************************)
(* How a logical lineage moves to its next physical session: the guarded   *)
(* creation of ues/binding_safe_generation.py, its reconciliation          *)
(* (ues/generation_reconciliation.py), and the passive observation that    *)
(* every lifecycle job makes of the same lane (ues/lineage_observation.py  *)
(* over ues/lineage_registry.py).                                          *)
(*                                                                         *)
(* An executor persists the transition it intends, claims the creation,    *)
(* creates the session with the transition's marker in its title, and then *)
(* binds the session to the lane, counts it and removes the intention.     *)
(* When the outcome is not known, a later job looks for the marker among   *)
(* the provider's sessions.  Each of these writes is a compare-and-swap of *)
(* its own (one step here, as in OperationClaim, whose claim protocol is   *)
(* used in a shortened form): jobs are cancelled and writes fail between   *)
(* them.  Executors are serialised per project by the workflows'           *)
(* concurrency groups or not (Executors); the provider's health fallback   *)
(* runs in a group of its own and only observes (Observers).               *)
(***************************************************************************)
EXTENDS Naturals, Sequences, FiniteSets

CONSTANTS
    Executors,      \* lifecycle jobs with current authority
    Observers,      \* jobs without authority: they only observe
    Causes,         \* replacement cause and candidate of a requested transition
    MaxGeneration,  \* bound: generations of the lineage
    LastRequested,  \* bound: the last generation a transition is requested from
    MaxSessions,    \* bound: sessions the provider ever creates for it
    Window,         \* operation keys the accounting record remembers (512 in the code)
    Messages,       \* TRUE: the lane's session is also sent messages
    MaxFaults,      \* bound: cancelled jobs, failed writes and failed reads of the state
    None

ASSUME LineageAssumption ==
    /\ MaxGeneration \in Nat \ {0}
    /\ LastRequested \in Nat
    /\ MaxSessions \in Nat \ {0}
    /\ Window \in Nat \ {0}
    /\ Messages \in BOOLEAN
    /\ MaxFaults \in Nat
    /\ None \notin Executors \cup Observers \cup Causes

VARIABLES
    lane,       \* the lineage lane's WorkstreamRuntimeRecord
    ops,        \* the OperationRecord of each effect
    account,    \* the TASK-BUDGET-ACCOUNTING record
    sessions,   \* the provider's sessions of this lineage and the marker in each title
    delivered,  \* the messages the provider has delivered
    late,       \* requests the provider has accepted and has yet to perform
    run,        \* what each job is doing
    faults      \* faults so far

vars == <<lane, ops, account, sessions, delivered, late, run, faults>>

store    == <<lane, ops, account>>
provider == <<sessions, delivered, late>>

Runners == Executors \cup Observers

-----------------------------------------------------------------------------
(* Identities *)

Sessions == 1..MaxSessions

\* generation_transition_key digests these fields (and constants of the lane); a job
\* that could not read the lane takes it for one at generation 0 without a session (0).
Transition == [from : 0..(MaxGeneration - 1), pred : Sessions \cup {0}, cause : Causes]

Target(t) == t.from + 1

\* The operation key of an effect: of the creation of a generation with a given
\* predecessor, whatever its cause; of the message to a session (gen = 0; it also
\* names what triggered the message, one trigger per session here).
Key == [gen : 0..MaxGeneration, pred : Sessions \cup {0}]

CreationKey(t) == [gen |-> Target(t), pred |-> t.pred]
MessageKey(s) == [gen |-> 0, pred |-> s]
IsCreation(k) == k.gen > 0

\* Session 1 is there from the start, created by the initial lineage.
NoMarker == [from |-> 0, pred |-> 0, cause |-> None]

\* The sessions whose title carries the marker of t.
Marked(t) == {s \in DOMAIN sessions : sessions[s] = t}

-----------------------------------------------------------------------------
(* Records *)

Lease == [holder : Runners, key : Key, live : BOOLEAN]
NoLease == [holder |-> None, key |-> None, live |-> FALSE]

\* gen, fp, tkey, pending: evidence_bindings; unknown: unknown_write_state's
\* operation_key; lease: lease and action_in_flight, which are set and cleared
\* together; open: activation_mode ACTIVE_AUTO_SAFE, otherwise SHADOW.
Lane == [gen : 1..MaxGeneration, fp : Sessions, tkey : Transition \cup {None},
         pending : Transition \cup {None}, unknown : Key \cup {None},
         lease : Lease \cup {NoLease}, open : BOOLEAN]

OpStates == {"MISSING", "IN_FLIGHT", "UNKNOWN", "CONFIRMED"}

\* The request digest of a creation is its transition's (the title holds the marker).
Operation == [state : OpStates, digest : Transition \cup {None}]

\* None stands for an absent transition or operation.
ASSUME NoneAssumption == None \notin Transition \cup Key

PCs == {"idle", "pending", "authorize", "claim", "lease", "claimop", "mark", "release", "send",
        "unknown", "unknownlane", "confirm", "confirmlane", "restore", "bind",
        "account", "clear", "before", "upsert", "preserve"}

\* key, t, fp: the effect, its transition and its session once known; then: where
\* the job goes on from record_unknown_write and from the executor's finally;
\* match: the session match_lineage_session has found; saw, sawUnknown: the lane's
\* pending transition and marker before the observation.
Run == [pc : PCs, key : Key \cup {None}, t : Transition \cup {None},
        fp : Sessions \cup {0}, then : PCs, match : Sessions \cup {0},
        saw : Transition \cup {None}, sawUnknown : Key \cup {None}]
Idle == [pc |-> "idle", key |-> None, t |-> None, fp |-> 0, then |-> "idle",
         match |-> 0, saw |-> None, sawUnknown |-> None]

Init ==
    /\ lane = [gen |-> 1, fp |-> 1, tkey |-> None, pending |-> None, unknown |-> None,
               lease |-> NoLease, open |-> FALSE]
    /\ ops = [k \in Key |-> [state |-> "MISSING", digest |-> None]]
    /\ account = [count |-> 0, seen |-> <<>>]
    /\ sessions = <<NoMarker>>
    /\ delivered = {}
    /\ late = {}
    /\ run = [r \in Runners |-> Idle]
    /\ faults = 0

-----------------------------------------------------------------------------
(* Control *)

At(r, l) == run[r].pc = l
Become(r, rec) == run' = [run EXCEPT ![r] = rec]
Goto(r, l) == Become(r, [run[r] EXCEPT !.pc = l])
Stop(r) == Become(r, Idle)

\* The create or send returns or raises: _restore_lane_shadow is in its finally.
\* l is what the caller does afterwards.
Leave(r, l) == Become(r, [run[r] EXCEPT !.pc = "restore", !.then = l])

\* record_unknown_write of r's operation, and then l.
NoteUnknown(r, l) == Become(r, [run[r] EXCEPT !.pc = "unknown", !.then = l])

Resume(r, l) ==
    CASE l = "idle"    -> Stop(r)
      [] l = "restore" -> Leave(r, "idle")
      [] l = "unknown" -> NoteUnknown(r, "idle")
      [] l = "bind"    -> Goto(r, "bind")

\* A request to the state store fails, or a job is cancelled.
Fault == faults < MaxFaults /\ faults' = faults + 1

\* One read and compare-and-swap of a record v (lane, operation or accounting).
\* Ok and Fail are what the caller does next; a failed write may have been performed.
Write(v, new, Ok, Fail) ==
    \/ v' = new /\ Ok /\ UNCHANGED faults
    \/ Fault /\ v' \in {new, v} /\ Fail

\* The same when the record already is as wanted: it is only read.
ReadOnly(Ok, Fail) == (Ok /\ UNCHANGED faults) \/ (Fault /\ Fail)

-----------------------------------------------------------------------------
(* The intention: execute_binding_safe_generation up to the create *)

\* _state_snapshot: the transition for a cause starts from the lane's generation and
\* session, or, when the lane could not be read, from an empty snapshot.
FromHere(c) == [from |-> lane.gen, pred |-> lane.fp, cause |-> c]
FromNothing(c) == [from |-> 0, pred |-> 0, cause |-> c]

Intend(r, t) == Become(r, [Idle EXCEPT !.pc = "pending", !.t = t, !.key = CreationKey(t)])

\* assess_generation_transition on that snapshot.  What else it assesses is given:
\* authority, budget, bindings and the absence of an active duplicate.  The check
\* for a transition that is already bound never holds here: a transition names the
\* generation it starts from.
StartGeneration(r, c) ==
    /\ At(r, "idle")
    /\ lane.gen < MaxGeneration /\ lane.gen <= LastRequested
    /\ lane.unknown = None
    /\ Intend(r, FromHere(c))
    /\ UNCHANGED <<store, provider, faults>>

\* The same on an empty snapshot: neither the lane's generation nor its unknown write is
\* seen (the policy, resolved from an earlier read, may have been as blind).
StartGenerationUnread(r, c) ==
    /\ Fault
    /\ At(r, "idle")
    /\ Intend(r, FromNothing(c))
    /\ UNCHANGED <<store, provider>>

\* The lifecycle cycle of a lane whose authority names a replacement cause: the executor
\* is called unless the session is to be reused, or the source, the starting ref, the
\* commit or the prompt is missing.
RequestGeneration(r) ==
    \E c \in Causes : StartGeneration(r, c) \/ StartGenerationUnread(r, c)

\* persist_pending_generation_transition: another transition's intention is replaced
\* unless its outcome is unknown or in flight.
PersistPending(r) ==
    /\ At(r, "pending")
    /\ \/ /\ lane.pending = run[r].t
          /\ Goto(r, "authorize")
          /\ UNCHANGED <<lane, faults>>
       \/ /\ lane.pending \notin {None, run[r].t}
          /\ lane.unknown # None \/ lane.lease # NoLease
          /\ Stop(r)
          /\ UNCHANGED <<lane, faults>>
       \/ /\ lane.pending # run[r].t
          /\ lane.pending = None \/ (lane.unknown = None /\ lane.lease = NoLease)
          /\ Write(lane, [lane EXCEPT !.pending = run[r].t, !.open = FALSE],
                   Goto(r, "authorize"), Stop(r))
    /\ UNCHANGED <<ops, account, provider>>

\* A message to the lane's session (send_same_lineage_message).  Routing sends a lane
\* with an unknown write to reconciliation before it considers a message, if it can read
\* the lane.
StartMessage(r) ==
    /\ Messages
    /\ (lane.unknown = None /\ UNCHANGED faults) \/ Fault
    /\ At(r, "idle")
    /\ Become(r, [Idle EXCEPT !.pc = "authorize", !.key = MessageKey(lane.fp)])
    /\ UNCHANGED <<store, provider>>

-----------------------------------------------------------------------------
(* The effect: create_next_lineage_generation and send_same_lineage_message *)

\* _authorize_lane, before the executor's try.
Authorize(r) ==
    /\ At(r, "authorize")
    /\ Write(lane, [lane EXCEPT !.open = TRUE], Goto(r, "claim"), Stop(r))
    /\ UNCHANGED <<ops, account, provider>>

\* claim_operation reads the lane and the operation.  A replay of a confirmed
\* operation names no session, which a creation's caller records as UNKNOWN.
ClaimRead(r) ==
    LET op == ops[run[r].key]
        replay == lane.open /\ op = [state |-> "CONFIRMED", digest |-> run[r].t]
        safe == lane.open /\ op.state = "MISSING"
    IN  /\ At(r, "claim")
        /\ IF safe THEN ReadOnly(Goto(r, "lease"), Leave(r, "idle"))
           ELSE IF replay
             THEN ReadOnly(Leave(r, IF IsCreation(run[r].key) THEN "unknown" ELSE "idle"),
                           Leave(r, "idle"))
           ELSE Leave(r, "idle") /\ UNCHANGED faults
        /\ UNCHANGED <<store, provider>>

AcquireLease(r) ==
    /\ At(r, "lease")
    /\ \/ /\ ~lane.lease.live
          /\ Write(lane,
                   [lane EXCEPT !.lease = [holder |-> r, key |-> run[r].key, live |-> TRUE]],
                   Goto(r, "claimop"), Leave(r, "idle"))
       \/ /\ lane.lease.live
          /\ Leave(r, "idle")
          /\ UNCHANGED <<lane, faults>>
    /\ UNCHANGED <<ops, account, provider>>

\* Mutant of ClaimOperation: the record is written whatever version it has.
ClaimAnyVersion(r) ==
    /\ At(r, "claimop")
    /\ Write(ops,
             [ops EXCEPT ![run[r].key] = [state |-> "IN_FLIGHT", digest |-> run[r].t]],
             Goto(r, "mark"), Goto(r, "release"))
    /\ UNCHANGED <<lane, account, provider>>

\* The IN_FLIGHT record, on the version that was MISSING before the lease.
ClaimOperation(r) ==
    /\ At(r, "claimop")
    /\ \/ /\ ops[run[r].key].state = "MISSING"
          /\ Write(ops,
                   [ops EXCEPT ![run[r].key] = [state |-> "IN_FLIGHT", digest |-> run[r].t]],
                   Goto(r, "mark"), Goto(r, "release"))
       \/ /\ ops[run[r].key].state # "MISSING"
          /\ Goto(r, "release")
          /\ UNCHANGED <<ops, faults>>
    /\ UNCHANGED <<lane, account, provider>>

\* The lane's operation_key and receipt; a failure leaves the claim to be reconciled.
MarkLane(r) ==
    /\ At(r, "mark")
    /\ Write(lane, lane, Goto(r, "send"), Leave(r, "idle"))
    /\ UNCHANGED <<ops, account, provider>>

ReleaseLease(r) ==
    /\ At(r, "release")
    /\ IF lane.lease.holder = r
         THEN Write(lane, [lane EXCEPT !.lease = NoLease], Leave(r, "idle"), Leave(r, "idle"))
         ELSE Leave(r, "idle") /\ UNCHANGED <<lane, faults>>
    /\ UNCHANGED <<ops, account, provider>>

\* The provider performs the request: a session with the marker in its title, or
\* the message.
Perform(k, t) ==
    IF IsCreation(k)
      THEN /\ Len(sessions) < MaxSessions
           /\ sessions' = Append(sessions, t)
           /\ UNCHANGED delivered
      ELSE /\ delivered' = delivered \cup {k}
           /\ UNCHANGED sessions

\* create_session or send_message returns a receipt.
SendConfirmed(r) ==
    /\ At(r, "send")
    /\ Perform(run[r].key, run[r].t)
    /\ Become(r, [run[r] EXCEPT !.pc = "confirm",
                    !.fp = IF IsCreation(run[r].key) THEN Len(sessions) + 1 ELSE 0])
    /\ UNCHANGED <<store, late, faults>>

\* It raises, or proves nothing: performed, not performed, or performed later.
SendUnproven(r) ==
    /\ At(r, "send")
    /\ \/ Perform(run[r].key, run[r].t) /\ UNCHANGED late
       \/ UNCHANGED provider
       \/ late' = late \cup {<<run[r].key, run[r].t>>} /\ UNCHANGED <<sessions, delivered>>
    /\ NoteUnknown(r, "restore")
    /\ UNCHANGED <<store, faults>>

ProviderPerformsLate(e) ==
    /\ e \in late
    /\ Perform(e[1], e[2])
    /\ late' = late \ {e}
    /\ UNCHANGED <<store, run, faults>>

-----------------------------------------------------------------------------
(* record_unknown_write and record_authoritative_readback *)

RecordUnknown(r) ==
    /\ At(r, "unknown")
    /\ Write(ops, [ops EXCEPT ![run[r].key].state = "UNKNOWN"],
             Goto(r, "unknownlane"), Resume(r, run[r].then))
    /\ UNCHANGED <<lane, account, provider>>

RecordUnknownLane(r) ==
    /\ At(r, "unknownlane")
    /\ Write(lane, [lane EXCEPT !.unknown = run[r].key],
             Resume(r, run[r].then), Resume(r, run[r].then))
    /\ UNCHANGED <<ops, account, provider>>

\* A reconciler raises where an executor leaves through its finally.
Reconciling(r) == run[r].then = "bind"
Abandon(r) == IF Reconciling(r) THEN Stop(r) ELSE Leave(r, "idle")

\* The operation record, observed = True.
RecordReadback(r) ==
    /\ At(r, "confirm")
    /\ \/ /\ ops[run[r].key].state \in {"IN_FLIGHT", "UNKNOWN"}
          /\ Write(ops, [ops EXCEPT ![run[r].key].state = "CONFIRMED"],
                   Goto(r, "confirmlane"), Abandon(r))
       \/ /\ ops[run[r].key].state \notin {"IN_FLIGHT", "UNKNOWN"}
          /\ Abandon(r)
          /\ UNCHANGED <<ops, faults>>
    /\ UNCHANGED <<lane, account, provider>>

\* The lane: the marker goes whichever operation it names, the lease if it is this
\* operation's.
RecordReadbackLane(r) ==
    /\ At(r, "confirmlane")
    /\ Write(lane,
             [lane EXCEPT !.unknown = None,
                          !.lease = IF @.key = run[r].key THEN NoLease ELSE @],
             IF Reconciling(r) THEN Goto(r, "bind")
               ELSE Leave(r, IF IsCreation(run[r].key) THEN "bind" ELSE "idle"),
             Abandon(r))
    /\ UNCHANGED <<ops, account, provider>>

\* _restore_lane_shadow; if it raises, the job ends.
RestoreShadow(r) ==
    /\ At(r, "restore")
    /\ IF lane.open
         THEN Write(lane, [lane EXCEPT !.open = FALSE], Resume(r, run[r].then), Stop(r))
         ELSE ReadOnly(Resume(r, run[r].then), Stop(r)) /\ UNCHANGED lane
    /\ UNCHANGED <<ops, account, provider>>

-----------------------------------------------------------------------------
(* Binding, accounting and the end of the intention *)

\* The checks of persist_created_generation_binding that raise.
Conflicts(l, t, s) ==
    \/ l.gen > Target(t)
    \/ l.gen = Target(t) /\ (l.fp # s \/ l.tkey \notin {None, t})
    \/ l.gen + 1 < Target(t)

\* persist_created_generation_binding.
PersistBinding(r) ==
    LET t == run[r].t
        s == run[r].fp
    IN  /\ At(r, "bind")
        /\ \/ /\ Conflicts(lane, t, s)
              /\ NoteUnknown(r, "idle")
              /\ UNCHANGED <<lane, faults>>
           \/ /\ ~Conflicts(lane, t, s)
              /\ lane.gen = Target(t)
              /\ ReadOnly(Goto(r, "account"), NoteUnknown(r, "idle"))
              /\ UNCHANGED lane
           \/ /\ ~Conflicts(lane, t, s)
              /\ lane.gen # Target(t)
              /\ Write(lane,
                       [lane EXCEPT !.gen = Target(t), !.fp = s, !.tkey = t,
                                    !.unknown = None, !.open = FALSE],
                       Goto(r, "account"), NoteUnknown(r, "idle"))
        /\ UNCHANGED <<ops, account, provider>>

\* The accounting record keeps the last Window entries.
Remember(seen, e) ==
    LET all == Append(seen, e) IN
    IF Len(all) > Window THEN Tail(all) ELSE all

\* Mutant of RecordConfirmedGeneration: what was counted is not looked up.
RecordEveryConfirmation(r) ==
    /\ At(r, "account")
    /\ account' = [account EXCEPT !.count = @ + 1]
    /\ Goto(r, "clear")
    /\ UNCHANGED <<lane, ops, provider, faults>>

\* record_confirmed_generation.
RecordConfirmedGeneration(r) ==
    LET e == [key |-> run[r].key, t |-> run[r].t] IN
    /\ At(r, "account")
    /\ IF \E i \in DOMAIN account.seen :
              account.seen[i].key = e.key \/ account.seen[i].t = e.t
         THEN /\ ReadOnly(Goto(r, "clear"), NoteUnknown(r, "idle"))
              /\ UNCHANGED account
         ELSE Write(account,
                    [count |-> account.count + 1, seen |-> Remember(account.seen, e)],
                    Goto(r, "clear"), NoteUnknown(r, "idle"))
    /\ UNCHANGED <<lane, ops, provider>>

\* clear_pending_generation_transition.  An executor then reads the lane once more and
\* raises if it has moved; nothing is written.
ClearPending(r) ==
    /\ At(r, "clear")
    /\ \/ /\ lane.pending = None
          /\ ReadOnly(Stop(r), NoteUnknown(r, "idle"))
          /\ UNCHANGED lane
       \/ /\ lane.pending \notin {None, run[r].t}
          /\ NoteUnknown(r, "idle")
          /\ UNCHANGED <<lane, faults>>
       \/ /\ lane.pending = run[r].t
          /\ Write(lane, [lane EXCEPT !.pending = None], Stop(r), NoteUnknown(r, "idle"))
    /\ UNCHANGED <<ops, account, provider>>

-----------------------------------------------------------------------------
(* Reconciliation: reconcile_unknown_generation *)

\* _pre_reconcile_unknown_generations takes up the lanes with a marker and an intention.
Unresolved == lane.unknown # None /\ lane.pending # None

\* Such a lane is reconciled when the provider's enumeration, which may
\* lag behind, shows exactly one session with the intention's marker.  None, or more
\* than one, changes nothing.  The operation is the one the lane's marker names.
StartReconcile(r) ==
    /\ At(r, "idle")
    /\ Unresolved
    /\ \E listed \in SUBSET Marked(lane.pending) :
          /\ Cardinality(listed) = 1
          /\ Become(r, [Idle EXCEPT !.pc = "confirm", !.key = lane.unknown,
                                    !.t = lane.pending, !.then = "bind",
                                    !.fp = CHOOSE s \in listed : TRUE])
    /\ UNCHANGED <<store, provider, faults>>

-----------------------------------------------------------------------------
(* Passive observation: upsert_lineage_observation_preserving_effects *)

\* recover_lineage_policy_from_state and match_lineage_session: the lane's session is
\* among the provider's, or not.  No adapter pins another session to the lineage.
StartObservation(r) ==
    /\ At(r, "idle")
    /\ \E s \in {0, lane.fp} : Become(r, [Idle EXCEPT !.pc = "before", !.match = s])
    /\ UNCHANGED <<store, provider, faults>>

\* What is to be preserved is read.
ReadBefore(r) ==
    /\ At(r, "before")
    /\ Become(r, [run[r] EXCEPT !.pc = "upsert", !.saw = lane.pending,
                    !.sawUnknown = IF lane.pending = None THEN None ELSE lane.unknown])
    /\ UNCHANGED <<store, provider, faults>>

\* The lane with a matched session (0: none): evidence_bindings are written anew,
\* without intention and transition; a session other than the lane's opens a
\* generation.  Before it, mutants: the transition is kept; the generation is; a
\* missing match clears the binding.
MatchedKeepsTransition(l, s) ==
    LET moved == s \notin {0, l.fp} IN
    [l EXCEPT !.gen = IF moved THEN @ + 1 ELSE @, !.fp = IF moved THEN s ELSE @,
              !.pending = None, !.open = FALSE]

MatchedInPlace(l, s) ==
    [l EXCEPT !.fp = IF s = 0 THEN @ ELSE s,
              !.tkey = None, !.pending = None, !.open = FALSE]

MatchedOrUnbound(l, s) ==
    [l EXCEPT !.fp = s, !.tkey = None, !.pending = None, !.open = FALSE]

Matched(l, s) ==
    LET moved == s \notin {0, l.fp} IN
    [l EXCEPT !.gen = IF moved THEN @ + 1 ELSE @, !.fp = IF moved THEN s ELSE @,
              !.tkey = None, !.pending = None, !.open = FALSE]

\* upsert_lineage_observation.
Upsert(r) ==
    LET new == Matched(lane, run[r].match) IN
    /\ At(r, "upsert")
    /\ new.gen <= MaxGeneration
    /\ Write(lane, new,
             IF run[r].saw = None THEN Stop(r)
               ELSE Become(r, [run[r] EXCEPT !.pc = "preserve", !.match = 0]),
             Stop(r))
    /\ UNCHANGED <<ops, account, provider>>

\* Mutant of PreserveEffects: the intention is not written back.
PreserveNothing(r) ==
    /\ At(r, "preserve")
    /\ Stop(r)
    /\ UNCHANGED <<store, provider, faults>>

\* The intention and the marker are written back.
PreserveEffects(r) ==
    /\ At(r, "preserve")
    /\ Write(lane,
             [lane EXCEPT !.pending = run[r].saw, !.open = FALSE,
                          !.unknown = IF run[r].sawUnknown = None THEN @
                                      ELSE run[r].sawUnknown],
             Stop(r), Stop(r))
    /\ UNCHANGED <<ops, account, provider>>

-----------------------------------------------------------------------------
(* The environment *)

\* The job is cancelled or dies.
Crash(r) ==
    /\ Fault
    /\ ~At(r, "idle")
    /\ Stop(r)
    /\ UNCHANGED <<store, provider>>

ExpireLease ==
    /\ lane.lease.live
    /\ lane' = [lane EXCEPT !.lease.live = FALSE]
    /\ UNCHANGED <<ops, account, provider, run, faults>>

\* What a job that has started does next.
Step(r) ==
    \/ PersistPending(r) \/ Authorize(r) \/ ClaimRead(r) \/ AcquireLease(r)
    \/ ClaimOperation(r) \/ MarkLane(r) \/ ReleaseLease(r)
    \/ SendConfirmed(r) \/ SendUnproven(r)
    \/ RecordUnknown(r) \/ RecordUnknownLane(r)
    \/ RecordReadback(r) \/ RecordReadbackLane(r) \/ RestoreShadow(r)
    \/ PersistBinding(r) \/ RecordConfirmedGeneration(r) \/ ClearPending(r)
    \/ ReadBefore(r) \/ Upsert(r) \/ PreserveEffects(r)

Next ==
    \/ \E r \in Executors :
          \/ RequestGeneration(r)
          \/ StartMessage(r)
          \/ StartReconcile(r)
    \/ \E r \in Runners : StartObservation(r) \/ Step(r) \/ Crash(r)
    \/ \E e \in late : ProviderPerformsLate(e)
    \/ ExpireLease

Spec == Init /\ [][Next]_vars

\* Every step of a job is a request with a timeout; every lifecycle job reconciles
\* before it does anything else, and the provider's enumeration catches up.
FairSpec ==
    /\ Spec
    /\ \A r \in Runners : WF_vars(Step(r))
    /\ \A r \in Executors : SF_vars(StartReconcile(r))

-----------------------------------------------------------------------------
(* Properties *)

\* Types of the records.
RecordsOK ==
    /\ lane \in Lane
    /\ ops \in [Key -> Operation]
    /\ account \in [count : Nat, seen : Seq([key : Key, t : Transition])]
    /\ sessions \in Seq(Transition \cup {NoMarker})
    /\ delivered \subseteq Key
    /\ late \subseteq Key \X (Transition \cup {None})
    /\ run \in [Runners -> Run]

\* The type invariant.
TypeOK == RecordsOK /\ faults \in 0..MaxFaults

\* The provider is asked at most once to create a session for a generation, whichever
\* causes are requested, whoever crashes, whichever reads of the lane fail and however
\* late a request is performed (so reconcile_unknown_generation never meets two marked
\* sessions).  A job that could not read the lane asks for generation 1, which the first
\* session is already: that makes one session too many at most, and never the lane's.
OneCreationPerGeneration ==
    /\ \A s, u \in 2..Len(sessions) :
          Target(sessions[s]) = Target(sessions[u]) => s = u
    /\ lane.fp # 1 => Target(sessions[lane.fp]) > 1

\* A lane that names a generation's transition is bound to the session created for
\* exactly that transition, at the generation the transition leads to.
BoundToItsTransition ==
    lane.tkey # None =>
        lane.gen = Target(lane.tkey) /\ sessions[lane.fp] = lane.tkey

\* The lineage moves from a generation to the next one and no generation is ever
\* rebound to another session.
LineageStep ==
    /\ lane'.gen \in {lane.gen, lane.gen + 1}
    /\ lane'.gen = lane.gen => lane'.fp = lane.fp

GenerationsInOrder == [][LineageStep]_vars

\* A created session is counted at most once, whether its executor, a reconciler or
\* both get to count it, and nothing else is.
CountedOnce == account.count <= Len(sessions) - 1

\* A session that was created becomes the lane's, at least if no job is cancelled and
\* no write fails: an ambiguous creation is found by its marker and adopted.
CreatedIsBound ==
    \A g \in 2..MaxGeneration :
        (\E s \in 2..Len(sessions) : Target(sessions[s]) = g) ~> lane.gen >= g

\* An operation is resolved "only from authoritative post-state": a message is
\* CONFIRMED only when the provider has delivered it.
MessageConfirmedIsTrue ==
    \A k \in Key :
        ~IsCreation(k) /\ ops[k].state = "CONFIRMED" => k \in delivered
=============================================================================

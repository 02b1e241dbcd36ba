---------------------------- MODULE GitRefStore ----------------------------
(***************************************************************************)
(* The durable state store of UES over one Git ref: ues/state_backends/    *)
(* github_refs.py (GitHubRefStateStore) and public_same_repo.py, which     *)
(* overrides its readback with a bounded retry.  Every lane and every      *)
(* operation has a ref of its own and the store never touches two of them  *)
(* in one call, so one ref is modelled.                                    *)
(*                                                                         *)
(* A record is a commit whose parent is the commit it replaces.  A write   *)
(* loads the ref, compares the version, creates a commit object, pushes it *)
(* fast-forward only, and then establishes the outcome by reading the ref  *)
(* back.  The runners are separate GitHub Actions jobs: their steps        *)
(* interleave, they can be cancelled anywhere, a push can lose its answer, *)
(* and (LateDelivery) it can reach the server after its client gave up.    *)
(***************************************************************************)
EXTENDS Naturals

CONSTANTS
    Runners,       \* the processes that share the ref
    MaxCommits,    \* bound: commit objects ever created
    Attempts,      \* readbacks of an uncertain publication (1 in github_refs.py,
                   \* publish_readback_attempts in public_same_repo.py)
    PostReads,     \* reads of the record after a confirmed write (1, or
                   \* post_cas_readback_attempts)
    LateDelivery,  \* TRUE: an unanswered push may still be performed later
    StaleReads     \* TRUE: a read may return an older value of the ref

ASSUME StoreAssumption ==
    /\ MaxCommits \in Nat \ {0}
    /\ Attempts \in Nat \ {0}
    /\ PostReads \in Nat \ {0}
    /\ LateDelivery \in BOOLEAN
    /\ StaleReads \in BOOLEAN

VARIABLES
    commits,    \* commit objects 1..n
    n,          \* how many commit objects exist
    ref,        \* the commit the ref names, 0 while the ref is missing
    wire,       \* pushes whose client gave up and the server has yet to see
    pc,         \* where each runner's compare-and-swap call stands
    base,       \* the commit whose record the caller of the call has read
    previous,   \* the call's previous_sha
    proposed,   \* the call's proposed_sha, 0 until there is one
    tries,      \* failed attempts in the call's current retry loop
    result      \* how each runner's last call ended

vars == <<commits, n, ref, wire, pc, base, previous, proposed, tries, result>>

-----------------------------------------------------------------------------
CommitIds == 1..MaxCommits

\* 0 is "the ref does not exist" (get_ref returns None).
Refs == 0..MaxCommits

\* version is the "version" field of the snapshot, base the commit whose record
\* the writer's new record was computed from, anc the proper ancestors.
Commit == [parent : Refs, base : Refs, version : Nat, anc : SUBSET CommitIds]

NoCommit == [parent |-> 0, base |-> 0, version |-> 0, anc |-> {}]

\* "push": the commit exists and is about to be pushed.  "conflict" and
\* "uncertain": the push raised GitHubRefConflict or GitHubRefWriteUncertain.
\* "confirm": the unconditional last readback.  "reread": the CAS is confirmed.
PCs == {"idle", "called", "loaded", "push", "conflict", "uncertain", "confirm",
        "reread"}

Results == {"NONE", "OK", "CONFLICT", "UNAVAILABLE"}

\* The version a load of ref value c reports (0 for a missing record).
VersionAt(c) == IF c = 0 THEN 0 ELSE commits[c].version

\* The commits the ref has ever named: the current one and its ancestors.
Published == IF ref = 0 THEN {} ELSE commits[ref].anc \cup {ref}

\* What a get_ref may return.
Visible == IF StaleReads THEN Published \cup {0} ELSE {ref}

\* Mutant of Accepts: update_ref sends force: true.
AcceptsForced(c) == TRUE

\* The server's fast-forward rule: create_ref wants the ref missing, update_ref
\* (force: false) wants the ref to name an ancestor of the pushed commit.
Accepts(c) ==
    IF commits[c].parent = 0 THEN ref = 0 ELSE ref \in commits[c].anc

Init ==
    /\ commits = [c \in CommitIds |-> NoCommit]
    /\ n = 0
    /\ ref = 0
    /\ wire = {}
    /\ pc = [r \in Runners |-> "idle"]
    /\ base = [r \in Runners |-> 0]
    /\ previous = [r \in Runners |-> 0]
    /\ proposed = [r \in Runners |-> 0]
    /\ tries = [r \in Runners |-> 0]
    /\ result = [r \in Runners |-> "NONE"]

-----------------------------------------------------------------------------
(* Control of a call *)

Goto(r, l) == pc' = [pc EXCEPT ![r] = l]

\* Leaves the retry loop for the next stage of the call.
Advance(r, l) ==
    /\ Goto(r, l)
    /\ tries' = [tries EXCEPT ![r] = 0]
    /\ UNCHANGED result

Finish(r, res) ==
    /\ Goto(r, "idle")
    /\ tries' = [tries EXCEPT ![r] = 0]
    /\ result' = [result EXCEPT ![r] = res]

\* Mutant of Again: the loop forgets to count.
AgainUncounted(r) == UNCHANGED <<pc, tries, result>>

Again(r) ==
    /\ tries' = [tries EXCEPT ![r] = @ + 1]
    /\ UNCHANGED <<pc, result>>

refVars == <<commits, n, ref, wire>>
callVars == <<base, previous, proposed>>

-----------------------------------------------------------------------------
(* One compare-and-swap call *)

\* The caller reads the record (read_workstream, read_operation) and then calls
\* compare_and_swap_* with the version it read and a record derived from it.
Call(r) ==
    /\ pc[r] = "idle"
    /\ \E b \in Visible :
          base' = [base EXCEPT ![r] = b]
    /\ previous' = [previous EXCEPT ![r] = 0]
    /\ proposed' = [proposed EXCEPT ![r] = 0]
    /\ Goto(r, "called")
    /\ tries' = [tries EXCEPT ![r] = 0]
    /\ result' = [result EXCEPT ![r] = "NONE"]
    /\ UNCHANGED refVars

\* Mutant of Load: _cas does not compare the loaded version with the expected one.
LoadUnchecked(r) ==
    /\ pc[r] = "called"
    /\ \E p \in Visible : previous' = [previous EXCEPT ![r] = p]
    /\ Advance(r, "loaded")
    /\ UNCHANGED <<refVars, base, proposed>>

\* _cas loads the ref again and compares versions.
Load(r) ==
    /\ pc[r] = "called"
    /\ \E p \in Visible :
          IF VersionAt(p) = VersionAt(base[r])
            THEN /\ previous' = [previous EXCEPT ![r] = p]
                 /\ Advance(r, "loaded")
            ELSE /\ Finish(r, "CONFLICT")
                 /\ UNCHANGED previous
    /\ UNCHANGED <<refVars, base, proposed>>

LoadFails(r) ==
    /\ pc[r] = "called"
    /\ Finish(r, "UNAVAILABLE")
    /\ UNCHANGED <<refVars, callVars>>

\* Mutant of CreateSnapshotCommit: a failed object creation is not noticed.
CreateUnnoticed(r) ==
    /\ pc[r] = "loaded"
    /\ proposed' = [proposed EXCEPT ![r] = n + 1]
    /\ Advance(r, "push")
    /\ UNCHANGED <<refVars, base, previous>>

\* create_snapshot_commit with parent_sha = previous_sha and version actual + 1.
CreateSnapshotCommit(r) ==
    /\ pc[r] = "loaded"
    /\ n < MaxCommits
    /\ n' = n + 1
    /\ commits' = [commits EXCEPT ![n + 1] =
         [parent  |-> previous[r],
          base    |-> base[r],
          version |-> VersionAt(previous[r]) + 1,
          anc     |-> IF previous[r] = 0 THEN {}
                      ELSE commits[previous[r]].anc \cup {previous[r]}]]
    /\ proposed' = [proposed EXCEPT ![r] = n + 1]
    /\ Advance(r, "push")
    /\ UNCHANGED <<ref, wire, base, previous>>

CreateFails(r) ==
    /\ pc[r] = "loaded"
    /\ Finish(r, "UNAVAILABLE")
    /\ UNCHANGED <<refVars, callVars>>

\* create_ref / update_ref is performed; its answer arrives or is lost.
PushAccepted(r) ==
    /\ pc[r] = "push"
    /\ Accepts(proposed[r])
    /\ ref' = proposed[r]
    /\ \/ Advance(r, "confirm")
       \/ Advance(r, "uncertain")
    /\ UNCHANGED <<commits, n, wire, callVars>>

\* The server refuses: not a fast-forward, or (HTTP 409, "cannot lock ref") it
\* is busy with the ref.  The answer arrives or is lost.
PushRejected(r) ==
    /\ pc[r] = "push"
    /\ \/ Advance(r, "conflict")
       \/ Advance(r, "uncertain")
    /\ UNCHANGED <<refVars, callVars>>

\* The client times out; the push itself is still under way.
PushDelayed(r) ==
    /\ pc[r] = "push"
    /\ LateDelivery
    /\ wire' = wire \cup {proposed[r]}
    /\ Advance(r, "uncertain")
    /\ UNCHANGED <<commits, n, ref, callVars>>

\* A definite error other than a conflict (HTTP 401, 403, 404).
PushFails(r) ==
    /\ pc[r] = "push"
    /\ Finish(r, "UNAVAILABLE")
    /\ UNCHANGED <<refVars, callVars>>

\* Mutant of DeliverLate: the late push is forced.
DeliverLateForced(c) ==
    /\ c \in wire
    /\ wire' = wire \ {c}
    /\ ref' = c
    /\ UNCHANGED <<commits, n, pc, base, previous, proposed, tries, result>>

\* The server gets round to a delayed push.
DeliverLate(c) ==
    /\ c \in wire
    /\ wire' = wire \ {c}
    /\ ref' = IF Accepts(c) THEN c ELSE ref
    /\ UNCHANGED <<commits, n, pc, base, previous, proposed, tries, result>>

\* How many readbacks _resolve_publish makes at this point of the call: the
\* conflict path never retries.
ReadbackAttempts(r) == IF pc[r] = "conflict" THEN 1 ELSE Attempts

LastTry(r, k) == tries[r] + 1 >= k

\* Mutant of ResolvePublish: a write that was not observed counts as done.
ResolveOptimistic(r) ==
    /\ pc[r] \in {"conflict", "uncertain", "confirm"}
    /\ \E observed \in Visible :
          IF observed \in {proposed[r], previous[r]}
            THEN Advance(r, IF pc[r] = "confirm" THEN "reread" ELSE "confirm")
            ELSE Finish(r, "UNAVAILABLE")
    /\ UNCHANGED <<refVars, callVars>>

\* _resolve_publish, for GitHubRefConflict, GitHubRefWriteUncertain and the
\* unconditional readback that follows a push that did not raise.
ResolvePublish(r) ==
    /\ pc[r] \in {"conflict", "uncertain", "confirm"}
    /\ \E observed \in Visible :
          \/ /\ observed = proposed[r]
             /\ Advance(r, IF pc[r] = "confirm" THEN "reread" ELSE "confirm")
          \/ /\ observed # proposed[r]
             /\ observed = previous[r]
             /\ IF LastTry(r, ReadbackAttempts(r))
                  THEN Finish(r, "CONFLICT")
                  ELSE Again(r)
          \/ /\ observed # proposed[r]
             /\ observed # previous[r]
             /\ Finish(r, "UNAVAILABLE")
    /\ UNCHANGED <<refVars, callVars>>

\* get_ref fails during _resolve_publish.
ResolveReadFails(r) ==
    /\ pc[r] \in {"conflict", "uncertain", "confirm"}
    /\ IF LastTry(r, ReadbackAttempts(r))
         THEN Finish(r, "UNAVAILABLE")
         ELSE Again(r)
    /\ UNCHANGED <<refVars, callVars>>

\* The read of the record that compare_and_swap_* returns (_retry_post_cas_read).
PostCasRead(r) ==
    /\ pc[r] = "reread"
    /\ \E observed \in Visible :
          Finish(r, IF observed = 0 THEN "UNAVAILABLE" ELSE "OK")
    /\ UNCHANGED <<refVars, callVars>>

PostCasReadFails(r) ==
    /\ pc[r] = "reread"
    /\ IF LastTry(r, PostReads)
         THEN Finish(r, "UNAVAILABLE")
         ELSE Again(r)
    /\ UNCHANGED <<refVars, callVars>>

\* The job is cancelled; a replacement starts over.
Crash(r) ==
    /\ pc[r] # "idle"
    /\ Finish(r, "NONE")
    /\ UNCHANGED <<refVars, callVars>>

\* What the process of runner r does next, whatever the network answers.
Step(r) ==
    \/ Load(r) \/ LoadFails(r)
    \/ CreateSnapshotCommit(r) \/ CreateFails(r)
    \/ PushAccepted(r) \/ PushRejected(r) \/ PushDelayed(r) \/ PushFails(r)
    \/ ResolvePublish(r) \/ ResolveReadFails(r)
    \/ PostCasRead(r) \/ PostCasReadFails(r)

Next ==
    \/ \E r \in Runners : Call(r) \/ Step(r) \/ Crash(r)
    \/ \E c \in CommitIds : DeliverLate(c)

Spec == Init /\ [][Next]_vars

\* A runner that is not cancelled keeps running its call: every step is a
\* subprocess or an HTTP request with a timeout.
FairSpec == Spec /\ \A r \in Runners : WF_vars(Step(r))

-----------------------------------------------------------------------------
(* Properties *)

\* The variables keep their types; proposed and the wire only name existing
\* commit objects.
TypeOK ==
    /\ commits \in [CommitIds -> Commit]
    /\ n \in 0..MaxCommits
    /\ ref \in 0..n
    /\ wire \subseteq 1..n
    /\ pc \in [Runners -> PCs]
    /\ base \in [Runners -> 0..n]
    /\ previous \in [Runners -> 0..n]
    /\ proposed \in [Runners -> 0..n]
    /\ tries \in [Runners -> Nat]
    /\ result \in [Runners -> Results]

\* No update is ever lost: a record that reaches the ref was computed from the
\* very record it replaces there, although its writer read that record in a
\* separate request, before the load that _cas compares versions with.
NoLostUpdate ==
    \A c \in Published : commits[c].base = commits[c].parent

\* A step moves the ref only forward by one record: the new commit's parent is
\* the commit the ref named, and its version is the next one.  No push, however
\* late it lands, skips a version or steps back.
RefStep ==
    ref' # ref => /\ commits'[ref'].parent = ref
                  /\ commits'[ref'].version = VersionAt(ref) + 1

RefMovesByOneVersion == [][RefStep]_vars

\* A call that returned normally did publish its record (it may since have been
\* replaced): compare_and_swap_* never reports a success that did not happen.
OkImpliesPublished ==
    \A r \in Runners : result[r] = "OK" => proposed[r] \in Published

\* "no overwrite performed": a call that raised StateVersionConflict left no
\* trace on the ref.
ConflictImpliesUnpublished ==
    \A r \in Runners : result[r] = "CONFLICT" => proposed[r] \notin Published

\* Every call ends: the readback loops are bounded whatever the reads return.
CallsEnd == \A r \in Runners : pc[r] # "idle" ~> pc[r] = "idle"

-----------------------------------------------------------------------------
(* The store implements a compare-and-swap register *)

AsRequest(c) == [id |-> c, expected |-> VersionAt(commits[c].base)]

Register == INSTANCE CasRegister
              WITH Ids      <- CommitIds,
                   version  <- VersionAt(ref),
                   requests <- {AsRequest(c) : c \in 1..n},
                   won      <- {AsRequest(c) : c \in Published}

\* Of the commits that were computed from the same version of the record, at most
\* one is ever published, however their writers' requests interleave.
OneWinner == Register!OneWinnerPerVersion

\* Every behaviour of the ref protocol is a behaviour of the compare-and-swap
\* register StateStoreCapabilities announces.
ImplementsRegister == Register!Spec
=============================================================================

# TLA+ models of the Universal Execution System

The Universal Execution System (UES, `src/ues`) supervises coding sessions of a provider
(Jules) from GitHub Actions jobs. A job has no memory of its own: it reads durable records,
looks at the provider and at GitHub, decides, causes at most one external effect, and writes
down what it knows. Jobs of different workflows run at the same time, are cancelled anywhere,
and call services that time out after having done what was asked. What makes UES correct is
therefore a handful of protocols over shared records, and these are what the modules model.

## 1. Inventory

| component (`src/ues/…`) | state | operations | interacts with |
|---|---|---|---|
| Git-ref state store: `state_backends/github_refs.py`, `public_same_repo.py` | one Git ref per lane and per operation; a record is a commit whose parent is the record it replaces | read, compare-and-swap, acquire and release a lease, discovery | the Git server, every other component |
| Operation claims: `state_store.py`, `idempotency.py` | `WorkstreamRuntimeRecord` (mode, lease, in-flight action, unknown-write marker, canary grants), `OperationRecord` (state, digest, attempt) | `claim_operation`, `record_unknown_write`, `record_authoritative_readback` | the store; called by every executor |
| Executors of messages: `canary_orchestrator.py`, `lineage_effects.py` | none of their own | send an answer on a canary lane, a message to a lineage's session; reconcile | claims, provider client |
| Next lineage generation: `binding_safe_generation.py`, `generation_pending.py`, `lineage_generation.py`, `generation_reconciliation.py`, `generation_transition.py` | the lane's `evidence_bindings`: generation, session, transition, pending intention | intend, create, bind, count, end the intention; reconcile an unknown creation | claims, accounting, provider |
| Lineage registry: `lineage_registry.py`, `lineage_observation.py` | the same `evidence_bindings` | match a session, write an observation | every lifecycle job |
| Initial lineage: `initial_lineage_*.py`, `stale_initial_lineage_reconciliation.py` | pending and bound first generation | create, bind, retry, two reconcilers | claims, accounting, registry |
| Task budget: `task_budget.py`, `task_budget_accounting.py` | count of confirmed generations and the last 512 keys | record, decide | generation, initial lineage |
| Provider clients: `providers/`, `jules_lifecycle.py` | none | create, message with readback, dispatch, paged reads | executors |
| Workflow dispatch and bounded waiting: `workflow_dispatch.py`, `bounded_waiting_*.py` | operation records | two more callers of `claim_operation` | claims, GitHub |
| Lifecycle: `lifecycle.py`, `lifecycle_runtime*.py`, `terminal_lifecycle.py` | state of a workstream; the event lane's recent fingerprints (`event_wakeup.py`) | transitions; one job's wakeup, reads, plans and messages | everything above |
| Reconciliation and routing: `reconciliation.py`, `recovery_catalog.py`, `routing.py`, … | none (pure) | evidence to next action | lifecycle |
| Transactional writes (v1): `write_executor.py`, `transaction.py`, `write_recovery.py`, … | write journal, branch head | prepare, write, verify, recover | GitHub |
| Watchdogs and control loop: `watchdog.py`, `terminal_watchdog.py`, `control_loop.py`, … | progress fingerprints | detect a stall, bounded loop | lifecycle |
| Provider observer: `provider_observer*.py` | observation snapshot and cursor | observe, persist, recover | store, provider |
| Terminal results: `terminal_*.py`, `exact_terminal_*.py`, `evidence_supplement_*.py` | result records | find, validate, persist a session's result | lifecycle |
| Live runtime, authority, adapters, handoff, bridge, command lines | none | load documents, credentials, entry points | everything |

The hard behaviours, each listed at its line under `hazards` in `PROJECT.json`:

* **interleaving**: two jobs load the same version; two executors want the same effect or two
  transitions of one generation; the health fallback of the provider observer's workflow
  (concurrency group `ues-lineage-lifecycle-*`) observes a lane while a lifecycle job
  (`ues-project-lifecycle-*`) writes to it;
* **several records, no transaction**: a claim, a readback, a binding are sequences of
  compare-and-swaps on different refs;
* **cancellation** between any two of them;
* **ambiguous answers**: a push or a provider call that timed out may have been performed, or
  may be performed later;
* **expiry**: leases and grants expire under their holders;
* **failed reads**: a lane that could not be read is planned for as a lane without a record;
* **stale values**: versions, matches and evidence that are kept over other jobs' writes; a
  lifecycle job reads sessions, pull request and activities at its start and sends messages
  many requests later, when a session has ended or the head has moved;
* **lagging listings**: a session or a workflow run exists before the provider lists it, and
  a listing that lacks it proves nothing;
* **events** that are delivered again, or whose job dies after having registered them.

What makes each part correct: the store loses no update and reports no success that did not
happen; an effect is never repeated blindly, stays within its grant and carries one payload;
`CONFIRMED` is true; a generation gets one session, the lane's binding is the session of the
transition it names, is counted once and is found again after an ambiguous answer; a lineage's
first session likewise, one per task specification; a review is asked for and a parent is
consulted only about a commit that has earned it; a dispatched run is evidence for its own
commit and request; a question is answered once, and answered at all.

## 2. Modules

| module | models | state |
|---|---|---|
| `CasRegister` | abstract: what `StateStoreCapabilities` promises of a record | `version`, `requests`, `won` |
| `GitRefStore` | one ref and the compare-and-swap calls on it; implements `CasRegister` | commits, the ref, pushes on the wire, one call per runner |
| `OperationClaim` | one lane, its operations, executors and reconcilers | lane and operation records, one job per runner, the provider, history |
| `LineageGeneration` | one lineage lane, the request, creation and reconciliation of its generations, messages, observation | lane, operations, accounting, provider's sessions, one job per runner |
| `InitialLineage` | a lineage lane before and around its first session: creation, two reconcilers, adoption by observation | lane, operations by task specification, accounting, provider's sessions, one job per runner |
| `ReviewLoop` | the lifecycle's state table, the reconciliation of observed evidence with it, the shadow cycle | head, CI and review evidence, the lane's binding, the last decision |
| `LifecycleCycle` | one job of the current-authority runtime over a writer's and a reviewer's lineage | head, CI, sessions, lanes, messages, registered events, the job and what it has read |
| `WorkflowDispatch` | the dispatch of an evidence workflow and the readback of its run | branch, runs and the listed ones, lane, operations, the job |
| `GitRefStoreProofs`, `OperationClaimProofs`, `LineageGenerationProofs`, `InitialLineageProofs`, `ReviewLoopProofs`, `LifecycleCycleProofs`, `WorkflowDispatchProofs` | theorems about the module of that name, with their inductive invariants | |
| `MC…` | instances for TLC, one for each specification | |

**Layers.** `GitRefStore` has every request of one compare-and-swap as a step.
`OperationClaim` and the modules below it in the table take a read followed by a compare-and-swap on the
version read as one step, which `GitRefStore` justifies: a record that is published was
computed from the record it replaces (`NoLostUpdate`), and the store is a
compare-and-swap register (`ImplementsRegister`). A step of the upper modules keeps the three
outcomes of the lower one: performed; performed and reported as failed (late push, failed
post-write read); not performed. The one version that the code keeps over other records'
writes, the operation record's during a claim, is kept in `OperationClaim` as well (`run[r].ver`). In
`LineageGeneration`, `InitialLineage` and `WorkflowDispatch` it needs no version, because
there an operation record never returns to `MISSING`.

The three lane modules repeat the steps of `claim_operation` and of the two recording functions
for their own effect, since a crash between any two of them is what their reconcilers are for.
`LifecycleCycle` is one layer further up: a claim, and the records after a message, are one
step each, performed or not. `OperationClaim` justifies that: whatever happens between the
writes, an operation's second call needs a negative readback (`NoBlindRetry`), which a cycle
never records. A lineage for which the parent has requested a generation takes
`LineageGeneration`'s path instead of a message, and a lane that has no session yet takes
`InitialLineage`'s. `ReviewLoop` stands beside these: shadow cycles write nothing.

**Correspondence.** A program counter value is the next durable step of the code; `map` in
`PROJECT.json` gives the lines of every definition.

* `GitRefStore`: `Call` is the caller's read, `Load` and `CreateSnapshotCommit` the two halves
  of `_cas` before the push, `PushAccepted`, `PushRejected`, `PushDelayed`, `PushFails` the
  push by what the client sees, `ResolvePublish` the bounded readback, `PostCasRead` the
  final read. The readback of `github_refs.py` is the instance `Attempts = PostReads = 1`.
* `OperationClaim`: `ClaimReadLane` to `MarkLane` are the steps of `claim_operation`,
  `ReleaseLease` its cleanup; `RecordUnknown` and `RecordUnknownLane`, `RecordReadback` and
  `RecordReadbackLane` are the two writes of the two recording functions. `Canary` selects the
  executor: `execute_waiting_answer_canary` or `send_same_lineage_message`. `SetMode` is the
  owner's switch of the lane's mode. Digests and operation keys are opaque: equality is all
  the code uses.
* `LineageGeneration`: `StartGeneration` to `ClearPending` follow
  `execute_binding_safe_generation`; `then` in a job's state is where it continues after the
  executor's `finally` (`RestoreShadow`) or after `record_unknown_write`. `StartReconcile` is
  `reconcile_unknown_generation` up to its first write; what follows is shared with the
  executor. `StartObservation`, `ReadBefore`, `Upsert`, `PreserveEffects` are
  `upsert_lineage_observation_preserving_effects`. A transition is the tuple its key digests,
  and an operation's key leaves out the cause, as in the code. `RequestGeneration` is the
  lifecycle job's call: `StartGeneration` from the lane as it is (`FromHere`),
  `StartGenerationUnread` from the empty snapshot that `_state_snapshot` returns when the lane's
  read is not OK (`FromNothing`: generation 1, no predecessor, no unknown write); a lane that is `Unresolved` (an unknown write with an intention) is what
  `StartReconcile` takes up. Every lane starts
  bound to a first session, which is what `InitialLineage` ends with.
* `InitialLineage`: `StartRun` to `RestoreShadow` follow `initial_lineage_runtime.run` and
  `execute_initial_lineage_generation`: the inventory with its bounded retries
  (`ListSessions`, `RetryInventory`, `InventoryUnavailable`), the reconciliation of a pending
  creation (`ReconcileUnknown`), the snapshot of the lane, the assessment, and the writes from
  the intention to the budget. `StartStale` and `ReconcileStale` are the reconciler that
  `rp_authority_runtime.py`, the lifecycle job of RP01 to RP04, calls first; the jobs of CEP and GS
  (`ues-bounded-existing-session.yml`) never call it. `ReconcilesStale` says which kind of project
  it is. `Observe` and `Upsert` are an observation, whose receipt
  recovery (`RecoveredSession`) may adopt the session. A listing is any subset of the
  sessions; a specification stands for its key, marker and operation, all digests of it.
* `ReviewLoop`: `ResolveNextAction` is the table of `lifecycle.py`; `Reconcile`, with
  `InvalidateMismatch`, `InvalidateShaMove`, the gates and `Exact`, is
  `reconcile_workstream`; `RunShadowCycle` is one cycle over a head, CI and review evidence
  that may be of another commit. What the next cycle gets as its previous binding is not said
  in the code: the last binding that was reconciled, or with `KeepBlocked` also one that the
  structural and drift checks have blocked (section 4). `Act`, `Push`, `FinishCI`, `FinishReview` and `Interrupt`
  are the controller, the writer, the CI, the reviewer and the provider, all outside the code.
* `LifecycleCycle`: `Start` and `RegisterWakeup` are the event ingress; `ReadInventory`,
  `ReadPR` and `ObserveLane` the reads; `Plan` calls `PlanRecovery`, which is
  `plan_recovery` of `recovery_catalog.py` in the order of its early returns, with the lane's
  marker as it is, `PlanUnread` with the empty snapshot of a failed read (`blind` in the job
  remembers it); `Authorize` to
  `RestoreShadow` send the planned message. `SendMessage` is the client: a session that no
  longer accepts messages is refused before the POST. `JobFails` ends a job anywhere.
* `WorkflowDispatch`: `Verify` is `_handle_current_dispatches`; `EnsureEffectLane` to
  `RestoreShadow` are `dispatch_workflow_once`, with `Preflight`, `ListBefore`, `Post`,
  `ListAfter` of the bounded client inside; `Reconcile` is the reconciler of an unknown
  dispatch. `Appear`, `DispatchByHand` and `Push` are GitHub and its other users.

## 3. What is checked

| run | instance | shows |
|---|---|---|
| `git_ref_store` | 2 runners, 3 commits, 2 readbacks, late pushes, stale reads, cancelled jobs | `NoLostUpdate`, `OneWinner`, `OkImpliesPublished`, `RefMovesByOneVersion`, `CallsEnd`, refinement of `CasRegister` |
| `git_ref_late_push` | as above, no stale reads | violation: see finding 1 |
| `claim_canary` | 2 runners, 1 operation, 2 payloads, grant of 2 effects, all failures | `NoBlindRetry`, `GrantBound`, `OnePayload`, `LeaseExclusion`, `ConfirmedIsTrue` |
| `claim_lineage` | 2 runners, 2 operations, all failures | `NoBlindRetry` on a lane the executors open and close themselves |
| `unknown_marker` | 2 runners, 2 operations, no failure | violation: finding 2 |
| `lineage_race` | 2 jobs that each request, reconcile and observe, 2 causes, 3 generations of which the second may be requested, 2 faults, symmetry | `OneCreationPerGeneration`, `BoundToItsTransition`, `CountedOnce`, `GenerationsInOrder` |
| `lineage_recovery` | 1 executor, 2 causes, 3 generations, messages, no fault, fairness | `CreatedIsBound` |
| `lineage_message` | an executor and an observer with messages, no fault | violation: finding 3 |
| `initial_lineage` | a project that reconciles stale creations: a job with authority and an observer, 2 task specifications, 2 inventory attempts, 1 fault, fairness | `OneSessionPerSpec`, `BoundToItsSpec`, `CountedOnce`, `UnresolvedBlocksCreation`, `FirstSessionKept`, `CreatedIsBound` |
| `review_loop` | 2 commits, every waiting and failure class that is resolved differently, 5 kinds of obstacle, 2 troubles, fairness | `ReviewOnlyAfterPass`, `ParentPendingIsReviewed`, `ParentOrParked` |
| `lifecycle_cycle` | 2 lineages, 2 commits, 1 external event, 5 kinds of report, 2 moves, 1 fault, fairness | `SentOnce`, `ReviewOfPassed`, `NoAnswerOverReadUnknown`, `CatalogIsSafe`, `QuestionsEnd`, `ExternalServed` |
| `workflow_dispatch` | 2 commits, 3 requests of which one is not allowed, 3 runs, 2 moves, 1 fault, fairness | `EvidenceIsExact`, `SettledBeforeNext`, `UnknownSettles` |

"All failures" is `Reliable = FALSE` of `OperationClaim`: a job may stop at any step, every write
may fail, or be performed and reported as failed. Leases expire and the provider answers
ambiguously in every instance that has them. In the runs of `LineageGeneration`,
`InitialLineage`, `ReviewLoop`, `LifecycleCycle` and `WorkflowDispatch` a fault is a cancelled
job, a failed or unreported write or a failed read, at any step, `MaxFaults` (`MaxTrouble`) times
in a behaviour. Only `PlanUnread`, the failed read of a lane that has an unknown write, may
happen any number of times.

**Bounds.** Two runners are enough for every race of the protocols, which compare versions and
holders pairwise; the theorems below do not depend on the number. `MaxCommits = 3` lets a late push meet a ref that has moved twice.
`MaxVersion` bounds how often one operation record is written: a
claim, an unknown outcome, a negative readback and a second claim need four.
`MaxGeneration = 3` is what a stale observation needs in order to open a generation after a bound one.
`LastRequested` is the last generation a job requests a transition from. `lineage_race` has
`LastRequested = 1`: the second generation is requested, for either cause, and the third comes
about by a stale observation; the first may be requested again by a job that has not read the
lane. `MaxSessions = 3` is the initial session, one for the second generation and one more: a
second of that generation, or the one such a job asks for. Two faults are, for instance, a failed
read and a binding whose write is lost. `lineage_recovery` requests two generations, one after
the other. `Window` is at least the number of further generations, as 512 is in practice. For a
lineage that outgrows it `CountedOnce` fails: with `Window = 1` and `LastRequested = 2` TLC finds two jobs that hold the
second and the third generation and take turns at forgetting each other's. The two causes in
`lineage_race` and `lineage_recovery` share one creation key.

`initial_lineage` has one fault because the code's promise is for one: with two,
`UnresolvedBlocksCreation` fails (the binding's write fails, and the job is cancelled between
the operation's UNKNOWN record and the lane's marker: the lane looks new to another
specification) and so does `CreatedIsBound` (the claim's mark on the lane is lost, and the job
is cancelled before it records the ambiguous creation). Even with one, a confirmed readback whose lane write is lost leaves a session that
nothing binds, which `CreatedIsBound` names as `LostReadback`. The other properties hold
with two faults as well. `CreatedIsBound` is about projects that reconcile stale creations. For
CEP and GS it is not claimed: when a job is cancelled after `create_session`, or an
observation overwrites the intention beside the unknown write, the session stays
`INITIAL_LINEAGE_EXISTING_PROVIDER_MARKER_REQUIRES_ADJUDICATION`
(`initial_lineage_runtime.py:549-556`) until the parent decides. The safety properties do not
depend on the reconciler, and their theorems hold for both kinds of project.

**Failed reads.** Two snapshots of a lane are empty when its read is not OK, and what is done
on them is part of the models.

* A generation requested on one (`binding_safe_generation.py:19-37`) is generation 1 without a
  predecessor. Nothing before the create compares it with the lane, so a lineage may get one
  session too many, once: all such requests have one operation.
  `persist_created_generation_binding` refuses to bind it, the refusal is recorded as an unknown
  write, and the lane waits for the parent. `OneCreationPerGeneration` says that this is all: once
  at most, and never the lane's session.
* A recovery planned on one (`lifecycle_runtime_v2.py:71-75`, line 409) does not see an unknown
  write. Neither `_authorize_lane` nor `claim_operation` looks at the marker, so that a waiting
  question is answered over it: without the exception for such a job (`job.blind`)
  `NoAnswerOverReadUnknown` is violated in this instance. The answer is another operation
  than the unknown one, which is still not repeated (`SentOnce`).

Two moves of `lifecycle_cycle` are what its races take: a session asks and then ends, is
answered by somebody else or hands off; the head moves and moves back or passes CI. One event
fits the window of 128 fingerprints; an older event that is delivered again only starts
another cycle. Three runs in `workflow_dispatch` are two dispatches and one by somebody else;
two moves are a push and its return, or a push and another request. `MaxTrouble = 2` in `review_loop`
is a failure or a finding and a push after it, the shortest way to evidence of a head that
comes back.

**Fairness.** `CallsEnd` and `CreatedIsBound` assume weak fairness of each job's next step:
every step is a subprocess or an HTTP request with a timeout. `CreatedIsBound` also assumes
strong fairness of `StartReconcile`: each lifecycle job calls
`_pre_reconcile_unknown_generations` before anything else, jobs recur, and the provider's
enumeration catches up. No fairness is assumed of the
provider's late effects. `CreatedIsBound` of `LineageGeneration` is stated without
cancelled jobs and failed requests because the code gives it up there: an operation left `IN_FLIGHT` by a cancelled job has no marker on the lane, and
a lane whose marker has lost its intention is refused by the reconciler; both block retries
rather than repeat an effect.

That jobs recur, with the same authority where they need one, is an assumption about the
environment, in every liveness property but `CallsEnd`. The workflows have jobs for the events
`schedule`, `push` and `repository_dispatch` (the health fallback is one for `schedule`), but at
this commit each of them is triggered by `workflow_dispatch` alone: whoever dispatches them makes
jobs recur. A parent that stops sending an authority envelope ends the promise, as the code
intends.

The runs of the later modules assume, each of what recurs outside a job:

* `initial_lineage`: weak fairness of a job's steps and of the lease's expiry; strong fairness of
  `StartStale` (`ReconcilesStale = TRUE`: each lifecycle job of such a project calls it first) and of
  observing a recovered session (every lifecycle job does) and of a
  complete listing (the provider's enumeration catches up). No fairness of `StartRun`: the
  parent may withdraw its authority.
* `review_loop`: strong fairness of a cycle that meets no obstacle, of acting on what it
  decides except on verifying an action in flight, and of the CI passing the head; weak
  fairness of the reviewer's pass. `ParentOrParked` is about the table having no circle, so
  everybody outside does well in the end; `MaxTrouble` bounds how often they do not.
* `lifecycle_cycle`: weak fairness of the job's steps; strong fairness of `Start` (jobs
  with an authority envelope that has an answer recur, and an external request is repeated until
  it is served) and of the
  lease's expiry.
* `workflow_dispatch`: weak fairness of starting the next job and of its steps. Its listing only
  grows: a run that was listed once is listed again.

Deadlock is checked everywhere. Every property has a mutant of the definition it is about in
`PROJECT.json`: an operator defined beside the original that changes it the way a plausible bug would, under
which TLC finds the property violated.

## 4. What is proved

TLAPS checks every proof. The assumptions are those of the modules (`StoreAssumption`,
`ClaimAssumption`, `LineageAssumption`, …): they give the bounds their types and say that `None`
is none of the values it stands for the absence of. Sets of runners, operations, payloads,
causes, specifications and commits are arbitrary, and so are all bounds, including the number
of faults. A theorem that has a proviso states it, and it is discussed below.

| module | theorems |
|---|---|
| `GitRefStoreProofs` | `TypeCorrect`, `NothingLost` (`NoLostUpdate`), `OneWinnerHolds`, `OkIsTrue`, `OneVersionAtATime`, `Refinement` (`ImplementsRegister`), `ConflictIsTrue` |
| `OperationClaimProofs` | `TypeCorrect`, `NeverBlind` (`NoBlindRetry`), `WithinGrant`, `NeverTwoPayloads`, `LeaseExcludes` |
| `LineageGenerationProofs` | `TypesHold`, `OneSession` (`OneCreationPerGeneration`), `BindingHolds` (`BoundToItsTransition`), `InOrder` (`GenerationsInOrder`), `BudgetCounts` (`CountedOnce`) |
| `InitialLineageProofs` | `TypesHold`, `OneSession` (`OneSessionPerSpec`), `BindingHolds` (`BoundToItsSpec`), `FirstKept` (`FirstSessionKept`), `BudgetCounts` (`CountedOnce`) |
| `ReviewLoopProofs` | `TypesHold`, `ReviewsFollowPasses` (`ReviewOnlyAfterPass`), `ParentSeesReviewed` (`ParentPendingIsReviewed`) |
| `LifecycleCycleProofs` | `MessagesOnce` (`SentOnce`), `ReviewsOfPassed` (`ReviewOfPassed`), `AnswersAreSafe` (`NoAnswerOverReadUnknown`), `CatalogHolds` (`CatalogIsSafe`) |
| `WorkflowDispatchProofs` | `EvidenceHolds` (`EvidenceIsExact`), `SettledFirst` (`SettledBeforeNext`) |

**`GitRefStoreProofs`**. `NoLostUpdate` is not
inductive: it speaks of published commits, and a commit's base is fixed long before it is
published. The invariant `IInv` adds

* `Ancestry`: a commit's ancestors are its parent's and its parent, so that fast-forward
  means that the ref names the parent or an ancestor of it, also for pushes that land late;
* `Extends`: every commit object, published or not, was computed from its parent, extends it
  by one version, and its parent has been published;
* `VersionsDiffer`: a version identifies a published record, so equal versions in `_cas` mean
  the same record although the base was read earlier;
* `CallFacts`: what a call knows at each of its steps (what it loaded is the record its caller
  read, and a call past its confirmation has been published).

`ConflictIsTrue` proves that with neither late pushes nor stale reads a reported conflict left
no trace: the counterexample of `git_ref_late_push` needs a late push.

**`OperationClaimProofs`**. The lease alone does not carry
`NoBlindRetry`, since it may expire; what carries it is that a claim is a compare-and-swap on
the operation's version. `IInv` has

* `Shared`: facts about the records (a call was made only for an attempt that is recorded; the
  attempts made do not exceed the negative readbacks by more than one; a unit that was not
  consumed was not spent);
* `Solo` for each runner: what it knows at its step (the record has the attempt it claimed,
  the attempt has not been sent, its unit was consumed and not spent);
* `HoldsLease`: a runner inside the protected part that has not lost the lease is its live
  holder;
* `Apart` for two runners: different attempts of one operation, different units of the grant.

The proof has one lemma per action (`...Keeps`), over lemmas for the kinds of step: one that
changes the lane only (`LaneStep`), the lease (`LeaseStep`), an operation record (`OpStep`), a
provider call (`SendStep`), or only a runner (`RunStep`, `HarmlessStep`).

**`LineageGenerationProofs`**. `OneCreationPerGeneration` does not follow from the claims: a claim
is of a generation *and* its predecessor, so two different predecessors of one generation would
be two creations. (Requests on an empty snapshot have no predecessor and one key.) That they cannot differ needs the history of the lineage. `IInv` has

* `Job` for each runner: what it knows at its step (`Knows`: its key is that of its transition,
  where it goes after the `finally`, and that the session in its hands carries its transition's
  marker) and that its creation is claimed and not yet asked for (`HasClaim`);
* `Exclusive`, `RequestedClaimed` and `OneRequest`: a creation is claimed by one job, what the
  provider was asked for was claimed, and nothing was asked for twice, performed or waiting;
* `Ordered`: there is a history that gives each generation one session, the predecessor in every
  transition that any job, intention, observation, session or late request still names; so
  two sessions of one generation would have one creation key;
* `LaneOK` and `SessionsOK`: the binding's and the sessions' own facts; the lane's session and any
  that an observation has matched is `Lawful`, the first one or created from a generation that the
  lane had, so a session that was asked for blindly never is the lane's.

`BudgetCounts` has the proviso `Remembers`: the accounting record's window is at least the number
of further generations. Its invariant `Counting` says that the record lists what it has counted and
that all of it was created; the window then suffices because generations have one session each.

**`InitialLineageProofs`**. The same argument without a history, since a specification names its
operation: `Job`, `Exclusive`, `RequestedClaimed`, `LaneOK`, and `OneSessionPerSpec` with the late
requests. `BudgetCounts` has the proviso `Serialised`, one executor at a time, which the concurrency
group `ues-project-lifecycle-<project>` gives the code. It is needed: with two, a reconciler may
read the marker of one specification's operation beside the intention of another and count the
wrong one. `Attributed` is what serialised jobs have instead: the intention on the lane is the
executor's own or its session exists already, and a marker and an intention that stand together are
of one operation.

**`ReviewLoopProofs`**. `LaneGrounded`: a lane at `RE_REVIEW` has a head that passed CI, one
at `PARENT_REVIEW_PENDING` an approved one, and an interrupted lane resumes to such a state
only with such a head; `Justified`, the same of a decision that is not acted on yet; `Evidence`:
what evidence says of a commit has happened. The lemmas go through the state table
(`GateSound`, `AfterCISound`, …). The proviso of the last two theorems is `~KeepBlocked`, which the
caller of `run_shadow_cycle` decides: `previous_by_lane` is its argument, and nothing in the
repository passes one. It is needed. `reconcile_workstream` returns a cycle that drift has blocked
with the new head and the old lifecycle state; as the previous binding of the next cycle it
hides that the head has moved, a lane at `RE_REVIEW` stays there, and `START_RE_REVIEW`, for which
`_ci_evidence_issues` ask for CI evidence of the head and not for a pass, is emitted for a commit
whose CI has failed (TLC finds this with `KeepBlocked = TRUE` in the instance of `review_loop`).

**`LifecycleCycleProofs`**. `JobFacts` is what a job knows of the commit it read at its start and of
the message it has planned since, however the head and the sessions have moved; `Claimed`: what was
sent was claimed. `CatalogHolds` rests on lemmas about the branches of `plan_recovery`
(`ReplaceGuards` to `RecoveryGuards`), which hold for any observation.

**`WorkflowDispatchProofs`**. `Settled`: a posted dispatch is confirmed or is the lane's action in
flight; `ReceiptsCover`: the runs that confirmed a dispatch are among those recorded before the POST of
one that is not confirmed, so a later readback cannot take them; `JobFacts` and `RunFacts`: the
same of what the job holds in memory.

Every inductive invariant was an invariant of a TLC run before its proof. The proofs have one lemma
per action (`…Keeps`) over lemmas for the kinds of step (`StoreStep`, `LaneStep`,
`ProviderStep`, …).

Only model-checked:

* liveness (`CallsEnd`, `CreatedIsBound` of both lineage modules, `ParentOrParked`,
  `QuestionsEnd`, `ExternalServed`, `UnknownSettles`), which is out of this prover's reach;
* `UnresolvedBlocksCreation`, which holds for at most one fault (section 3): the invariant would
  have to follow every place where the one fault may have been spent;
* the violations.

## 5. Findings

1. `git_ref_late_push`: `_resolve_publish` reports "no overwrite performed" of a push that the
   server performs after the last readback. No update is lost by it; the caller is told the
   wrong outcome, and the upper modules treat a failed write accordingly.
2. `unknown_marker`: `record_authoritative_readback` clears the lane's marker whichever
   operation it names, in a second write; an operation can be left `UNKNOWN` on a lane that
   says nothing, although "unknown write outcome always routes to authoritative post-write
   reconciliation".
3. `lineage_message`: a finished intention written back by a stale observation makes the
   generation reconciler confirm the operation named by the lane's marker, an undelivered
   message, with the evidence of a session.

## 6. Not modelled, and the plan

Not modelled, and not planned: parsing, validation and formatting of documents, prompts and
results; HTTP and authentication; discovery and reporting, which only read; metrics; adapters
and command lines. `DeterministicFileStateStore` is one locked file: its compare-and-swap is
`CasRegister`'s `Apply`.

Left out so far, with what is known of it:

* bounded waiting (`bounded_waiting_*.py`): another caller of `claim_operation` with a canary
  grant; its claim is `OperationClaim`'s, its recovery is its own;
* the decision of `task_budget.py` over observed tasks, and `routing.py`, `recovery.py`,
  `failures.py`: pure functions without state. Their results are inputs of the modules (a
  budget that is safe or not, a failure class);
* transactional writes (v1): no current runtime calls them;
* the provider observer, terminal results and the watchdogs: they persist or report what was
  seen, each in a record of its own under the store's compare-and-swap, and decide no effect;
* lineages of role `ASSURANCE`, and legacy branch-only bindings, of the modelled components.

Plan:

1. An abstract specification of an effect (`intended`, `performed`, `known`) that the lane
   modules implement, with the refinement proved step by step.
2. `UnresolvedBlocksCreation` for one fault.
3. Bounded waiting as an instance of `OperationClaim`; `TransactionalWrite` as a refinement of
   an atomic write.

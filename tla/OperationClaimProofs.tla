------------------------ MODULE OperationClaimProofs ------------------------
(***************************************************************************)
(* Proofs about OperationClaim, for any runners, operations, payloads,     *)
(* grant size and version bound, on canary and on lineage lanes.           *)
(*                                                                         *)
(* The inductive invariant has three parts: what the shared records say    *)
(* (Shared), what one runner's local state x must agree with (Solo), and   *)
(* what keeps two runners apart (Apart).  A step changes one runner and at *)
(* most one record, so the other runners' parts are carried over by        *)
(* lemmas that speak of an arbitrary local state.                          *)
(***************************************************************************)
EXTENDS OperationClaim, TLAPS

\* Attempts are counted by claims, and a new claim needs a "not observed" readback;
\* an attempt is sent at most once, and a unit of the grant spent at most once.
OpFacts ==
    \A k \in Ops :
        /\ ops[k].att <= ops[k].ver
        /\ ops[k].ver = 0 <=> ops[k].state = "MISSING"
        /\ ops[k].state = "MISSING" => ops[k].att = 0 /\ ops[k].digest = None
        /\ ops[k].att <= 1 + negatives[k]
        /\ ops[k].state = "RECONCILED_NOT_OBSERVED" => ops[k].att <= negatives[k]
        /\ \A d \in payloads[k] : ops[k].digest = d
        /\ \A a \in 1..MaxVersion : /\ dispatches[k][a] <= 1
                                    /\ dispatches[k][a] > 0 => a <= ops[k].att

UnitFacts ==
    Canary =>
        /\ spent[0] = 0
        /\ \A u \in 1..MaxEffects : /\ spent[u] <= 1
                                    /\ spent[u] > 0 => u <= lane.consumed

Shared == OpFacts /\ UnitFacts

-----------------------------------------------------------------------------
Claiming(x) == x.pc \in {"lease", "consume", "claimop"}
Claimed(x) == x.pc \in {"mark", "send"}
Funded(x) == x.pc \in {"claimop", "mark", "send"}
InEffect(x) == x.pc \in {"consume", "claimop", "mark", "send"}

\* A runner that is not idle has an operation, and an executor a payload.
HasKey(x) ==
    x.pc # "idle" =>
        /\ x.key \in Ops
        /\ x.role = "executor" => x.digest \in Digests
        /\ x.pc \notin {"readback", "readbacklane"} => x.role = "executor"

\* A claim that holds the current version still has a true picture of the record.
ClaimFacts(x) ==
    Claiming(x) =>
        /\ x.ver <= ops[x.key].ver
        /\ x.ver = ops[x.key].ver =>
             x.att = ops[x.key].att /\ SafeToExecute(ops[x.key], x.digest)

\* A claimed attempt has been recorded and not been sent.
AttemptFacts(x) ==
    Claimed(x) =>
        /\ x.att \in 1..ops[x.key].att
        /\ dispatches[x.key][x.att] = 0
        /\ x.digest = ops[x.key].digest

\* Outcomes are recorded of operations that exist.
OutcomeFacts(x) ==
    x.pc \in {"unknown", "unknownlane", "readback", "readbacklane"} =>
        ops[x.key].state # "MISSING"

\* A runner that consumed a unit of the grant has not spent it.
FundFacts(x) ==
    Canary /\ Funded(x) => x.unit \in 1..lane.consumed /\ spent[x.unit] = 0

Solo(x) ==
    HasKey(x) /\ ClaimFacts(x) /\ AttemptFacts(x) /\ OutcomeFacts(x) /\ FundFacts(x)

\* A runner that has not lost its lease is the holder of a live lease.
HoldsLease(r, x) ==
    InEffect(x) /\ ~x.lost => lane.lease.holder = r /\ lane.lease.live

\* No two runners have the same attempt or the same unit of the grant.
Apart(x, y) ==
    /\ Claimed(x) /\ Claimed(y) /\ x.key = y.key => x.att # y.att
    /\ Canary /\ Funded(x) /\ Funded(y) => x.unit # y.unit

IInv ==
    /\ TypeOK
    /\ Shared
    /\ \A r \in Runners : Solo(run[r]) /\ HoldsLease(r, run[r])
    /\ \A r, s \in Runners : r # s => Apart(run[r], run[s])

-----------------------------------------------------------------------------
(* Types of what a step makes of a runner *)

LEMMA IdleType == Idle \in Run
BY ClaimAssumption DEF Idle, Run, PCs, Observations

\* A step that moves only a runner's program counter keeps the rest of its state.
LEMMA GotoType ==
    ASSUME NEW x \in Run, NEW l \in PCs
    PROVE  \E y \in Run : /\ y = [x EXCEPT !.pc = l]
                          /\ y.pc = l
                          /\ y.role = x.role
                          /\ y.key = x.key
                          /\ y.digest = x.digest
                          /\ y.ver = x.ver
                          /\ y.att = x.att
                          /\ y.unit = x.unit
                          /\ y.obs = x.obs
                          /\ y.lost = x.lost
<1> DEFINE y == [x EXCEPT !.pc = l]
<1>1. y \in Run
  BY DEF Run
<1>2. /\ y.pc = l /\ y.role = x.role /\ y.key = x.key /\ y.digest = x.digest
      /\ y.ver = x.ver /\ y.att = x.att /\ y.unit = x.unit /\ y.obs = x.obs
      /\ y.lost = x.lost
  BY DEF Run
<1> HIDE DEF y
<1>3. \E z \in Run : z = y /\ z.pc = l /\ z.role = x.role /\ z.key = x.key
         /\ z.digest = x.digest /\ z.ver = x.ver /\ z.att = x.att /\ z.unit = x.unit
         /\ z.obs = x.obs /\ z.lost = x.lost
  BY <1>1, <1>2
<1> QED
  BY <1>3 DEF y

\* A runner with nothing at stake: only its operation matters.
Harmless(x) == HasKey(x) /\ x.pc \in {"idle", "authorize", "claim", "readop", "release",
                                      "restore"}

LEMMA HarmlessSolo ==
    ASSUME NEW x, Harmless(x)
    PROVE  /\ Solo(x) /\ Solo(x)'
           /\ \A r : HoldsLease(r, x) /\ HoldsLease(r, x)'
           /\ \A y : Apart(x, y) /\ Apart(y, x)
BY DEF Harmless, Solo, HasKey, ClaimFacts, Claiming, AttemptFacts, Claimed, OutcomeFacts,
       FundFacts, Funded, HoldsLease, InEffect, Apart

\* How an executor or a reconciler leaves.
LEMMA DoneHarmless ==
    ASSUME IInv, NEW r \in Runners, Done(r), run[r].pc # "idle"
    PROVE  \E x \in Run : Harmless(x) /\ run' = [run EXCEPT ![r] = x]
<1>1. run[r] \in Run /\ HasKey(run[r])
  BY DEF IInv, TypeOK, Solo
<1>2. CASE run' = [run EXCEPT ![r] = Idle]
  BY <1>2, IdleType DEF Harmless, HasKey, Idle
<1>3. CASE /\ run' = [run EXCEPT ![r] = [run[r] EXCEPT !.pc = "restore"]]
           /\ run[r].role # "reconciler"
  <2>1. run[r].role = "executor"
    BY <1>1, <1>3 DEF Run
  <2>2. "restore" \in PCs
    BY DEF PCs
  <2>3. PICK y \in Run : /\ y = [run[r] EXCEPT !.pc = "restore"]
                         /\ y.pc = "restore" /\ y.role = run[r].role
                         /\ y.key = run[r].key /\ y.digest = run[r].digest
    BY <1>1, <2>2, GotoType
  <2>4. Harmless(y)
    BY <1>1, <2>1, <2>3 DEF Harmless, HasKey
  <2> QED
    BY <1>3, <2>3, <2>4
<1> QED
  BY <1>2, <1>3 DEF Done, Become, Goto

\* How a claim that failed under the lease goes on.
LEMMA ReleaseHarmless ==
    ASSUME IInv, NEW r \in Runners, Goto(r, "release"), run[r].pc \in {"consume", "claimop"}
    PROVE  \E x \in Run : Harmless(x) /\ run' = [run EXCEPT ![r] = x]
<1>1. run[r] \in Run /\ HasKey(run[r]) /\ "release" \in PCs
  BY DEF IInv, TypeOK, Solo, PCs
<1>2. PICK y \in Run : /\ y = [run[r] EXCEPT !.pc = "release"]
                       /\ y.pc = "release" /\ y.role = run[r].role
                       /\ y.key = run[r].key /\ y.digest = run[r].digest
  BY <1>1, GotoType
<1>3. Harmless(y)
  BY <1>1, <1>2 DEF Harmless, HasKey
<1> QED
  BY <1>2, <1>3 DEF Goto, Become

-----------------------------------------------------------------------------
(* Carrying the invariant over a step *)

\* TypeOK but for the runners.
RecordTypes ==
    /\ lane \in Lane
    /\ grantLive \in BOOLEAN
    /\ ops \in [Ops -> Operation]
    /\ applied \in [Ops -> BOOLEAN]
    /\ late \in [Ops -> BOOLEAN]
    /\ dispatches \in [Ops -> [1..MaxVersion -> Nat]]
    /\ payloads \in [Ops -> SUBSET Digests]
    /\ spent \in [0..MaxEffects -> Nat]
    /\ negatives \in [Ops -> Nat]

\* A step of runner r to the local state x: the records still agree, x fits them,
\* and so does every other runner's state y.
LEMMA Carry ==
    ASSUME IInv, NEW r \in Runners, NEW x \in Run, run' = [run EXCEPT ![r] = x],
           RecordTypes', Shared', Solo(x)', HoldsLease(r, x)',
           \A s \in Runners : s # r => Apart(x, run[s]) /\ Apart(run[s], x),
           \A s \in Runners : \A y \in Run :
              s # r /\ y = run[s] => Solo(y)' /\ HoldsLease(s, y)'
    PROVE  IInv'
<1>1. run' \in [Runners -> Run] /\ \A s \in Runners : run'[s] = IF s = r THEN x ELSE run[s]
  BY DEF IInv, TypeOK
<1>2. TypeOK'
  BY <1>1 DEF TypeOK, RecordTypes
<1>3. \A s \in Runners : run[s] \in Run
  BY DEF IInv, TypeOK
<1>4. ASSUME NEW s \in Runners PROVE Solo(run[s])' /\ HoldsLease(s, run[s])'
  <2>1. PICK y \in Run : y = run'[s]
    BY <1>1
  <2>2. Solo(y)' /\ HoldsLease(s, y)'
    BY <1>1, <1>3, <2>1
  <2> QED
    BY <2>1, <2>2 DEF Solo, HoldsLease, HasKey, ClaimFacts, AttemptFacts, OutcomeFacts,
       FundFacts, Claiming, Claimed, Funded, InEffect
<1>5. ASSUME NEW s \in Runners, NEW t \in Runners, s # t
      PROVE  Apart(run[s], run[t])'
  <2>1. Apart(run'[s], run'[t])
    BY <1>1, <1>5 DEF IInv
  <2> QED
    BY <2>1 DEF Apart, Claimed, Funded
<1> QED
  BY <1>2, <1>4, <1>5 DEF IInv

\* A step that changes runner r's local state and, at most, the lane's mode, lease or
\* unknown-write marker, or consumes units of the grant.
LEMMA LaneStep ==
    ASSUME IInv, NEW r \in Runners, NEW x \in Run, run' = [run EXCEPT ![r] = x],
           lane' \in Lane, lane.consumed <= lane'.consumed,
           UNCHANGED <<grantLive, ops, provider, history, negatives>>,
           Solo(x)', HoldsLease(r, x)',
           \A s \in Runners : s # r => Apart(x, run[s]) /\ Apart(run[s], x),
           \A s \in Runners :
              s # r /\ InEffect(run[s]) /\ ~run[s].lost =>
                 lane'.lease.holder = s /\ lane'.lease.live
    PROVE  IInv'
<1> USE ClaimAssumption
<1>1. RecordTypes'
  BY DEF IInv, TypeOK, RecordTypes, provider, history
<1>2. lane.consumed \in Nat /\ lane'.consumed \in Nat
  BY DEF IInv, TypeOK, Lane
<1>3. Shared'
  BY <1>2 DEF IInv, Shared, OpFacts, UnitFacts, provider, history
<1>4. ASSUME NEW s \in Runners, NEW y \in Run, s # r, y = run[s]
      PROVE  Solo(y)' /\ HoldsLease(s, y)'
  <2>1. Solo(y)
    BY <1>4 DEF IInv
  <2>2. y.unit \in Nat
    BY DEF Run
  <2>3. FundFacts(y)'
    BY <1>2, <2>1, <2>2 DEF Solo, FundFacts, Funded, history
  <2>4. Solo(y)'
    BY <2>1, <2>3 DEF Solo, HasKey, ClaimFacts, AttemptFacts, OutcomeFacts, SafeToExecute,
         Claiming, Claimed, provider, history
  <2>5. HoldsLease(s, y)'
    BY <1>4 DEF HoldsLease, InEffect
  <2> QED
    BY <2>4, <2>5
<1> QED
  BY <1>1, <1>3, <1>4, Carry

\* Other runners keep their lease when the lane's lease does not change.
LEMMA LeaseKept ==
    ASSUME IInv, lane'.lease = lane.lease
    PROVE  \A s \in Runners : InEffect(run[s]) /\ ~run[s].lost =>
                                 lane'.lease.holder = s /\ lane'.lease.live
BY DEF IInv, HoldsLease

\* A step that only changes runner r's local state, to one that fits.
LEMMA RunStep ==
    ASSUME IInv, NEW r \in Runners, NEW x \in Run, run' = [run EXCEPT ![r] = x],
           Solo(x)', HoldsLease(r, x)',
           \A s \in Runners : s # r => Apart(x, run[s]) /\ Apart(run[s], x),
           UNCHANGED <<lane, grantLive, ops, provider, history, negatives>>
    PROVE  IInv'
<1>1. lane' = lane /\ lane' \in Lane /\ lane.consumed \in Nat
  BY ClaimAssumption DEF IInv, TypeOK, Lane
<1>2. lane.consumed <= lane'.consumed /\ lane'.lease = lane.lease
  BY <1>1
<1>3. UNCHANGED <<grantLive, ops, provider, history, negatives>>
  OBVIOUS
<1> QED
  BY <1>1, <1>2, <1>3, LeaseKept, LaneStep

\* A step of runner r to a harmless state that keeps the lane's lease.
LEMMA HarmlessStep ==
    ASSUME IInv, NEW r \in Runners, NEW x \in Run, run' = [run EXCEPT ![r] = x],
           Harmless(x), lane' \in Lane, lane.consumed <= lane'.consumed,
           lane'.lease = lane.lease,
           UNCHANGED <<grantLive, ops, provider, history, negatives>>
    PROVE  IInv'
BY HarmlessSolo, LeaseKept, LaneStep

-----------------------------------------------------------------------------
(* Each step keeps the invariant: local steps *)

\* A caller starts an executor.
LEMMA StartKeeps ==
    ASSUME IInv, NEW r \in Runners, NEW k \in Ops, NEW d \in Digests,
           StartCanary(r, k, d) \/ StartLineage(r, k, d)
    PROVE  IInv'
<1>1. PICK l \in {"claim", "authorize"} :
         run' = [run EXCEPT ![r] = [Idle EXCEPT !.pc = l, !.key = k, !.digest = d]]
  BY DEF StartCanary, StartLineage, Become
<1>2. PICK x : x = [Idle EXCEPT !.pc = l, !.key = k, !.digest = d]
  OBVIOUS
<1>3. /\ x.pc = l /\ x.role = "executor" /\ x.key = k /\ x.digest = d
      /\ x = [pc |-> l, role |-> "executor", key |-> k, digest |-> d, ver |-> 0, att |-> 0,
              room |-> FALSE, unit |-> 0, obs |-> "unclear", lost |-> FALSE]
  BY <1>2 DEF Idle
<1>4. x \in Run
  BY <1>3, ClaimAssumption DEF Run, PCs, Observations
<1>5. Harmless(x)
  BY <1>3 DEF Harmless, HasKey
<1>6. UNCHANGED <<lane, grantLive, ops, provider, history, negatives>>
  BY DEF StartCanary, StartLineage
<1> QED
  BY <1>1, <1>2, <1>4, <1>5, <1>6, HarmlessSolo, RunStep

\* A reconciler starts from an observation of the provider.
LEMMA ReconcileKeeps ==
    ASSUME IInv, NEW r \in Runners, NEW k \in Ops, Reconcile(r, k)
    PROVE  IInv'
<1>1. PICK o \in Observations :
         run' = [run EXCEPT ![r] = [Idle EXCEPT !.pc = "readback", !.role = "reconciler",
                                          !.key = k, !.obs = o]]
  BY DEF Reconcile, Become
<1>a. PICK x : x = [Idle EXCEPT !.pc = "readback", !.role = "reconciler", !.key = k,
                                !.obs = o]
  OBVIOUS
<1>b. x = [pc |-> "readback", role |-> "reconciler", key |-> k, digest |-> None, ver |-> 0,
           att |-> 0, room |-> FALSE, unit |-> 0, obs |-> o, lost |-> FALSE]
  BY <1>a DEF Idle
<1>2. /\ x \in Run /\ x.pc = "readback" /\ x.role = "reconciler" /\ x.key = k /\ x.obs = o
  BY <1>b, ClaimAssumption DEF Run, PCs
<1>3. run' = [run EXCEPT ![r] = x]
  BY <1>1, <1>a
<1>4. /\ UNCHANGED <<lane, grantLive, ops, provider, history, negatives>>
      /\ ops[k].state # "MISSING"
  BY DEF Reconcile
<1>5. Solo(x)' /\ HoldsLease(r, x)' /\ \A y : Apart(x, y) /\ Apart(y, x)
  BY <1>1, <1>2, <1>4 DEF Solo, HasKey, ClaimFacts, Claiming, AttemptFacts, Claimed,
     OutcomeFacts, FundFacts, Funded, HoldsLease, InEffect, Apart, provider
<1> QED
  BY <1>2, <1>3, <1>4, <1>5, RunStep

\* A step that only leaves.
LEMMA DoneKeeps ==
    ASSUME IInv, NEW r \in Runners, Done(r), run[r].pc # "idle",
           UNCHANGED <<lane, grantLive, ops, provider, history, negatives>>
    PROVE  IInv'
<1>1. PICK x \in Run : Harmless(x) /\ run' = [run EXCEPT ![r] = x]
  BY DoneHarmless
<1> QED
  BY <1>1, HarmlessSolo, RunStep

\* A job is cancelled.
LEMMA CrashKeeps ==
    ASSUME IInv, NEW r \in Runners, Crash(r)
    PROVE  IInv'
<1>1. Harmless(Idle)
  BY DEF Harmless, HasKey, Idle
<1> QED
  BY <1>1, IdleType, HarmlessSolo, RunStep DEF Crash, Become

\* The claim's first read, of the lane.
LEMMA ClaimReadLaneKeeps ==
    ASSUME IInv, NEW r \in Runners, ClaimReadLane(r)
    PROVE  IInv'
<1>1. /\ run[r].pc = "claim" /\ run[r] \in Run /\ HasKey(run[r])
      /\ UNCHANGED <<lane, grantLive, ops, provider, history, negatives>>
  BY DEF ClaimReadLane, At, IInv, TypeOK, Solo
<1>2. CASE Done(r)
  BY <1>1, <1>2, DoneKeeps
<1>3. CASE Become(r, [run[r] EXCEPT !.pc = "readop", !.room = lane.consumed < MaxEffects])
  <2> DEFINE room == lane.consumed < MaxEffects
  <2>0. room \in BOOLEAN
    OBVIOUS
  <2> HIDE DEF room
  <2>1. PICK x \in Run : /\ x = [run[r] EXCEPT !.pc = "readop", !.room = room]
                         /\ x.pc = "readop" /\ x.key = run[r].key
                         /\ x.digest = run[r].digest /\ x.role = run[r].role
    <3>1. PICK x : x = [run[r] EXCEPT !.pc = "readop", !.room = room]
      OBVIOUS
    <3>2. /\ x \in Run /\ x.pc = "readop" /\ x.key = run[r].key
          /\ x.digest = run[r].digest /\ x.role = run[r].role
      BY <1>1, <2>0, <3>1 DEF Run, PCs
    <3> QED
      BY <3>1, <3>2
  <2>2. run' = [run EXCEPT ![r] = x]
    BY <1>3, <2>1 DEF Become, room
  <2>3. Harmless(x)
    BY <1>1, <2>1 DEF Harmless, HasKey
  <2> QED
    BY <1>1, <2>1, <2>2, <2>3, HarmlessSolo, RunStep
<1> QED
  BY <1>2, <1>3 DEF ClaimReadLane

\* The claim's second read, of the operation record.
LEMMA ClaimReadOpKeeps ==
    ASSUME IInv, NEW r \in Runners, ClaimReadOp(r)
    PROVE  IInv'
<1>1. /\ run[r].pc = "readop" /\ run[r] \in Run /\ HasKey(run[r])
      /\ UNCHANGED <<lane, grantLive, ops, provider, history, negatives>>
  BY DEF ClaimReadOp, At, IInv, TypeOK, Solo
<1>2. CASE Done(r)
  BY <1>1, <1>2, DoneKeeps
<1>3. CASE /\ SafeToExecute(ops[Key(r)], run[r].digest)
           /\ Become(r, [run[r] EXCEPT !.pc = "lease", !.ver = ops[Key(r)].ver,
                                       !.att = ops[Key(r)].att])
  <2>1. run[r].key \in Ops /\ run[r].digest \in Digests /\ run[r].role = "executor"
    BY <1>1 DEF HasKey
  <2>2. ops[Key(r)] \in Operation /\ Key(r) = run[r].key
    BY <2>1 DEF IInv, TypeOK, Key
  <2>0. PICK x : x = [run[r] EXCEPT !.pc = "lease", !.ver = ops[Key(r)].ver,
                                    !.att = ops[Key(r)].att]
    OBVIOUS
  <2>3. /\ x \in Run /\ x.pc = "lease" /\ x.key = run[r].key /\ x.digest = run[r].digest
        /\ x.role = run[r].role /\ x.ver = ops[Key(r)].ver /\ x.att = ops[Key(r)].att
    BY <1>1, <2>0, <2>2 DEF Run, PCs, Operation
  <2>4. run' = [run EXCEPT ![r] = x]
    BY <1>3, <2>0 DEF Become
  <2>5. ops[Key(r)].ver \in Nat
    BY <2>2, ClaimAssumption DEF Operation
  <2>6. Solo(x)'
    BY <1>1, <1>3, <2>1, <2>2, <2>3, <2>5 DEF Solo, HasKey, ClaimFacts, Claiming,
       AttemptFacts, Claimed, OutcomeFacts, FundFacts, Funded, SafeToExecute
  <2>7. HoldsLease(r, x)' /\ \A y : Apart(x, y) /\ Apart(y, x)
    BY <2>3 DEF HoldsLease, InEffect, Apart, Claimed, Funded
  <2> QED
    BY <1>1, <2>3, <2>4, <2>6, <2>7, RunStep
<1> QED
  BY <1>2, <1>3 DEF ClaimReadOp

\* The claim's last step.
LEMMA MarkLaneKeeps ==
    ASSUME IInv, NEW r \in Runners, MarkLane(r)
    PROVE  IInv'
<1>1. /\ run[r].pc = "mark" /\ run[r] \in Run /\ Solo(run[r]) /\ HoldsLease(r, run[r])
      /\ \A s \in Runners : s # r => Apart(run[r], run[s]) /\ Apart(run[s], run[r])
      /\ UNCHANGED <<lane, grantLive, ops, provider, history, negatives>>
  BY DEF MarkLane, At, IInv, TypeOK
<1>2. CASE Done(r)
  BY <1>1, <1>2, DoneKeeps
<1>3. CASE Goto(r, "send")
  <2>1. PICK x \in Run : /\ x = [run[r] EXCEPT !.pc = "send"] /\ x.pc = "send"
                         /\ x.role = run[r].role /\ x.key = run[r].key
                         /\ x.digest = run[r].digest /\ x.att = run[r].att
                         /\ x.unit = run[r].unit /\ x.lost = run[r].lost
    <3>1. "send" \in PCs
      BY DEF PCs
    <3> QED
      BY <1>1, <3>1, GotoType
  <2>2. run' = [run EXCEPT ![r] = x]
    BY <1>3, <2>1 DEF Goto, Become
  <2>3. Solo(x)'
    BY <1>1, <2>1 DEF Solo, HasKey, ClaimFacts, Claiming, AttemptFacts, Claimed,
       OutcomeFacts, FundFacts, Funded, history
  <2>4. HoldsLease(r, x)'
    BY <1>1, <2>1 DEF HoldsLease, InEffect
  <2>5. \A s \in Runners : s # r => Apart(x, run[s]) /\ Apart(run[s], x)
    BY <1>1, <2>1 DEF Apart, Claimed, Funded
  <2> QED
    BY <1>1, <2>2, <2>3, <2>4, <2>5, RunStep
<1> QED
  BY <1>2, <1>3 DEF MarkLane

-----------------------------------------------------------------------------
(* Each step keeps the invariant: steps on the lane *)

\* The lane with another mode or another unknown-write marker.
LEMMA LaneRelabelled ==
    ASSUME TypeOK, NEW m \in Modes, NEW k \in Ops \cup {None}
    PROVE  /\ [lane EXCEPT !.mode = m] \in Lane
           /\ [lane EXCEPT !.mode = m].lease = lane.lease
           /\ [lane EXCEPT !.mode = m].consumed = lane.consumed
           /\ [lane EXCEPT !.unknown = k] \in Lane
           /\ [lane EXCEPT !.unknown = k].lease = lane.lease
           /\ [lane EXCEPT !.unknown = k].consumed = lane.consumed
BY DEF TypeOK, Lane

\* The lane with another lease.
LEMMA LaneReleased ==
    ASSUME TypeOK, NEW e \in Lease \cup {NoLease}
    PROVE  /\ [lane EXCEPT !.lease = e] \in Lane
           /\ [lane EXCEPT !.lease = e].lease = e
           /\ [lane EXCEPT !.lease = e].consumed = lane.consumed
BY DEF TypeOK, Lane

\* The units of the grant are counted in naturals.
LEMMA ConsumedNat ==
    ASSUME TypeOK
    PROVE  lane.consumed \in Nat /\ lane.consumed <= lane.consumed
BY ClaimAssumption DEF TypeOK, Lane

\* A step to a harmless state, over a lane that is only relabelled.
LEMMA RelabelStep ==
    ASSUME IInv, NEW r \in Runners, NEW x \in Run, run' = [run EXCEPT ![r] = x],
           Harmless(x),
           \/ UNCHANGED lane
           \/ \E m \in Modes : lane' = [lane EXCEPT !.mode = m]
           \/ \E k \in Ops \cup {None} : lane' = [lane EXCEPT !.unknown = k],
           UNCHANGED <<grantLive, ops, provider, history, negatives>>
    PROVE  IInv'
<1>1. TypeOK /\ lane \in Lane
  BY DEF IInv, TypeOK
<1>2. lane' \in Lane /\ lane.consumed <= lane'.consumed /\ lane'.lease = lane.lease
  <2>1. None \in Ops \cup {None} /\ "SHADOW" \in Modes
    BY DEF Modes
  <2>2. CASE \E m \in Modes : lane' = [lane EXCEPT !.mode = m]
    BY <1>1, <2>1, <2>2, LaneRelabelled, ConsumedNat
  <2>3. CASE \E k \in Ops \cup {None} : lane' = [lane EXCEPT !.unknown = k]
    BY <1>1, <2>1, <2>3, LaneRelabelled, ConsumedNat
  <2>4. CASE UNCHANGED lane
    BY <1>1, <2>4, ConsumedNat
  <2> QED
    BY <2>2, <2>3, <2>4
<1> QED
  BY <1>2, HarmlessStep

\* _authorize_lane opens the lane, or fails and leaves.
LEMMA AuthorizeKeeps ==
    ASSUME IInv, NEW r \in Runners, Authorize(r)
    PROVE  IInv'
<1>1. /\ run[r].pc = "authorize" /\ run[r] \in Run /\ HasKey(run[r])
      /\ UNCHANGED <<grantLive, ops, provider, history, negatives>>
      /\ UNCHANGED lane \/ lane' = [lane EXCEPT !.mode = OpenMode]
  BY DEF Authorize, LaneWrite, At, IInv, TypeOK, Solo
<1>2. UNCHANGED lane \/ \E m \in Modes : lane' = [lane EXCEPT !.mode = m]
  BY <1>1 DEF OpenMode, Modes
<1>3. PICK x \in Run : Harmless(x) /\ run' = [run EXCEPT ![r] = x]
  <2>1. CASE Become(r, Idle)
    BY <2>1, IdleType DEF Become, Harmless, HasKey, Idle
  <2>2. CASE Goto(r, "claim")
    <3>1. "claim" \in PCs
      BY DEF PCs
    <3>2. PICK y \in Run : /\ y = [run[r] EXCEPT !.pc = "claim"]
                           /\ y.pc = "claim" /\ y.role = run[r].role
                           /\ y.key = run[r].key /\ y.digest = run[r].digest
      BY <1>1, <3>1, GotoType
    <3>3. Harmless(y)
      BY <1>1, <3>2 DEF Harmless, HasKey
    <3> QED
      BY <2>2, <3>2, <3>3 DEF Goto, Become
  <2> QED
    BY <2>1, <2>2 DEF Authorize, LaneWrite
<1> QED
  BY <1>1, <1>2, <1>3, RelabelStep

\* record_unknown_write marks the lane.
LEMMA RecordUnknownLaneKeeps ==
    ASSUME IInv, NEW r \in Runners, RecordUnknownLane(r)
    PROVE  IInv'
<1>1. /\ run[r].pc = "unknownlane" /\ run[r].key \in Ops
      /\ UNCHANGED <<grantLive, ops, provider, history, negatives>>
      /\ UNCHANGED lane \/ lane' = [lane EXCEPT !.unknown = run[r].key]
      /\ Done(r)
  BY DEF RecordUnknownLane, LaneWrite, At, IInv, Solo, HasKey, Key
<1>2. PICK x \in Run : Harmless(x) /\ run' = [run EXCEPT ![r] = x]
  BY <1>1, DoneHarmless
<1> QED
  BY <1>1, <1>2, RelabelStep

\* _restore_lane_shadow.
LEMMA RestoreShadowKeeps ==
    ASSUME IInv, NEW r \in Runners, RestoreShadow(r)
    PROVE  IInv'
<1>1. /\ UNCHANGED <<grantLive, ops, provider, history, negatives>>
      /\ UNCHANGED lane \/ lane' = [lane EXCEPT !.mode = "SHADOW"]
      /\ run' = [run EXCEPT ![r] = Idle]
  BY DEF RestoreShadow, LaneWrite, Become
<1>2. Harmless(Idle) /\ "SHADOW" \in Modes
  BY DEF Harmless, HasKey, Idle, Modes
<1> QED
  BY <1>1, <1>2, IdleType, RelabelStep

\* release_lease: only the holder's own lease goes.
LEMMA ReleaseLeaseKeeps ==
    ASSUME IInv, NEW r \in Runners, ReleaseLease(r)
    PROVE  IInv'
<1>1. /\ run[r].pc = "release" /\ Done(r) /\ TypeOK /\ lane \in Lane
      /\ UNCHANGED <<grantLive, ops, provider, history, negatives>>
      /\ \/ UNCHANGED lane
         \/ lane' = [lane EXCEPT !.lease = NoLease] /\ lane.lease.holder = r
  BY DEF ReleaseLease, LaneWrite, At, IInv, TypeOK
<1>2. PICK x \in Run : Harmless(x) /\ run' = [run EXCEPT ![r] = x]
  BY <1>1, DoneHarmless
<1>3. CASE UNCHANGED lane
  BY <1>1, <1>2, <1>3, RelabelStep
<1>4. CASE lane' = [lane EXCEPT !.lease = NoLease] /\ lane.lease.holder = r
  <2>1. lane' \in Lane /\ lane.consumed <= lane'.consumed
    BY <1>1, <1>4, LaneReleased, ConsumedNat
  <2>2. \A s \in Runners : s # r /\ InEffect(run[s]) /\ ~run[s].lost =>
                              lane'.lease.holder = s /\ lane'.lease.live
    BY <1>4 DEF IInv, HoldsLease
  <2> QED
    BY <1>1, <1>2, <2>1, <2>2, HarmlessSolo, LaneStep
<1> QED
  BY <1>1, <1>3, <1>4

\* acquire_lease: nobody whose lease is live loses it.
LEMMA AcquireLeaseKeeps ==
    ASSUME IInv, NEW r \in Runners, AcquireLease(r)
    PROVE  IInv'
<1> DEFINE mine == [holder |-> r, key |-> Key(r), live |-> TRUE]
           l == IF Canary THEN "consume" ELSE "claimop"
<1>1. /\ run[r].pc = "lease" /\ TypeOK /\ lane \in Lane /\ run[r] \in Run
      /\ Solo(run[r]) /\ Key(r) = run[r].key /\ Key(r) \in Ops
      /\ UNCHANGED <<grantLive, ops, provider, history, negatives>>
  BY DEF AcquireLease, At, IInv, TypeOK, Solo, HasKey, Key
<1>2. mine \in Lease \cup {NoLease} /\ mine.holder = r /\ mine.live
  BY <1>1 DEF Lease
<1> HIDE DEF mine
<1>3. CASE lane' = [lane EXCEPT !.lease = mine] /\ ~lane.lease.live
  <2>1. lane' \in Lane /\ lane'.lease = mine /\ lane.consumed <= lane'.consumed
    BY <1>1, <1>2, <1>3, LaneReleased, ConsumedNat
  <2>2. \A s \in Runners : InEffect(run[s]) => run[s].lost
    BY <1>3 DEF IInv, HoldsLease
  <2>3. CASE Done(r)
    <3>1. PICK x \in Run : Harmless(x) /\ run' = [run EXCEPT ![r] = x]
      BY <1>1, <2>3, DoneHarmless
    <3> QED
      BY <1>1, <2>1, <2>2, <3>1, HarmlessSolo, LaneStep
  <2>4. CASE Become(r, [run[r] EXCEPT !.lost = FALSE, !.pc = l])
    <3>1. PICK x : x = [run[r] EXCEPT !.lost = FALSE, !.pc = l]
      OBVIOUS
    <3>2. /\ x \in Run /\ x.pc = l /\ x.role = run[r].role /\ x.key = run[r].key
          /\ x.digest = run[r].digest /\ x.ver = run[r].ver /\ x.att = run[r].att
      BY <1>1, <3>1 DEF Run, PCs
    <3>3. x.pc \in {"consume", "claimop"} /\ (Canary => x.pc = "consume")
      BY <3>2
    <3> HIDE DEF l
    <3>4. Solo(x)'
      BY <1>1, <3>2, <3>3 DEF Solo, HasKey, ClaimFacts, Claiming, AttemptFacts, Claimed,
         OutcomeFacts, FundFacts, Funded
    <3>5. HoldsLease(r, x)' /\ \A y : Apart(x, y) /\ Apart(y, x)
      BY <1>2, <2>1, <3>3 DEF HoldsLease, Apart, Claimed, Funded
    <3> QED
      BY <1>1, <2>1, <2>2, <2>4, <3>1, <3>2, <3>4, <3>5, LaneStep DEF Become
  <2> QED
    BY <1>3, <2>3, <2>4 DEF AcquireLease, LaneWrite
<1>4. CASE Done(r) /\ UNCHANGED lane
  BY <1>1, <1>4, DoneKeeps
<1> QED
  BY <1>3, <1>4 DEF AcquireLease, LaneWrite, mine

\* _consume_canary: the unit consumed is one nobody has.
LEMMA ConsumeCanaryKeeps ==
    ASSUME IInv, NEW r \in Runners, ConsumeCanary(r)
    PROVE  IInv'
<1> USE ClaimAssumption
<1>1. /\ run[r].pc = "consume" /\ TypeOK /\ lane \in Lane /\ run[r] \in Run
      /\ Solo(run[r]) /\ HoldsLease(r, run[r])
      /\ UNCHANGED <<grantLive, ops, provider, history, negatives>>
  BY DEF ConsumeCanary, At, IInv, TypeOK
<1>2. ASSUME Goto(r, "release")
      PROVE  \E x \in Run : Harmless(x) /\ run' = [run EXCEPT ![r] = x]
  BY <1>1, <1>2, ReleaseHarmless
<1>3. CASE Goto(r, "release") /\ UNCHANGED lane
  BY <1>1, <1>2, <1>3, RelabelStep
<1>4. CASE lane' = [lane EXCEPT !.consumed = @ + 1] /\ lane.consumed < MaxEffects
  <2>1. /\ lane' \in Lane /\ lane'.lease = lane.lease
        /\ lane'.consumed = lane.consumed + 1 /\ lane.consumed \in Nat
    BY <1>1, <1>4 DEF Lane
  <2>2. lane.consumed <= lane'.consumed
    BY <2>1
  <2>3. CASE Goto(r, "release")
    BY <1>1, <1>2, <2>1, <2>2, <2>3, HarmlessStep
  <2>4. CASE Become(r, [run[r] EXCEPT !.pc = "claimop", !.unit = lane.consumed + 1])
    <3>0. PICK u \in 0..MaxEffects : u = lane.consumed + 1
      BY <1>4, <2>1
    <3>1. PICK x : x = [run[r] EXCEPT !.pc = "claimop", !.unit = u]
      OBVIOUS
    <3>2. /\ x \in Run /\ x.pc = "claimop" /\ x.role = run[r].role /\ x.key = run[r].key
          /\ x.digest = run[r].digest /\ x.ver = run[r].ver /\ x.att = run[r].att
          /\ x.unit = u /\ x.lost = run[r].lost
      BY <1>1, <3>1 DEF Run, PCs
    <3>3. Canary => spent[x.unit] = 0
      <4>1. x.unit \in 1..MaxEffects /\ ~(x.unit <= lane.consumed)
        BY <1>4, <2>1, <3>0, <3>2
      <4>2. Canary => ~(spent[x.unit] > 0) /\ spent[x.unit] \in Nat
        BY <1>1, <4>1 DEF IInv, Shared, UnitFacts, TypeOK
      <4> QED
        BY <4>2
    <3>4. FundFacts(x)'
      BY <1>1, <2>1, <3>0, <3>2, <3>3 DEF FundFacts, history
    <3>5. Solo(x)'
      BY <1>1, <3>2, <3>4 DEF Solo, HasKey, ClaimFacts, Claiming, AttemptFacts, Claimed,
         OutcomeFacts
    <3>6. HoldsLease(r, x)'
      BY <1>1, <2>1, <3>2 DEF HoldsLease, InEffect
    <3>7. ASSUME NEW s \in Runners, s # r PROVE Apart(x, run[s]) /\ Apart(run[s], x)
      <4>1. Canary /\ Funded(run[s]) => run[s].unit \in 1..lane.consumed
        BY DEF IInv, Solo, FundFacts
      <4>2. Canary /\ Funded(run[s]) => x.unit # run[s].unit
        BY <2>1, <3>0, <3>2, <4>1
      <4> QED
        BY <3>2, <4>2 DEF Apart, Claimed
    <3> QED
      BY <1>1, <2>1, <2>2, <2>4, <3>0, <3>1, <3>2, <3>5, <3>6, <3>7, LeaseKept, LaneStep
         DEF Become
  <2> QED
    BY <1>4, <2>3, <2>4 DEF ConsumeCanary, LaneWrite
<1> QED
  BY <1>3, <1>4 DEF ConsumeCanary, LaneWrite

\* y differs from z in room or lost at most.
Alike(y, z) ==
    /\ y.pc = z.pc /\ y.role = z.role /\ y.key = z.key /\ y.digest = z.digest
    /\ y.ver = z.ver /\ y.att = z.att /\ y.unit = z.unit /\ y.obs = z.obs

\* A step that may tell any runner that its lease is lost, and changes the lane's
\* lease, mode or marker.
LEMMA LeaseStep ==
    ASSUME IInv, run' \in [Runners -> Run], lane' \in Lane,
           lane'.consumed = lane.consumed, grantLive' \in BOOLEAN,
           UNCHANGED <<ops, provider, history, negatives>>,
           \A s \in Runners : Harmless(run'[s]) \/ Alike(run'[s], run[s]),
           \A s \in Runners : InEffect(run'[s]) /\ ~run'[s].lost =>
                                 lane'.lease.holder = s /\ lane'.lease.live
    PROVE  IInv'
<1>1. TypeOK'
  BY DEF IInv, TypeOK, provider, history
<1>2. Shared'
  BY DEF IInv, Shared, OpFacts, UnitFacts, provider, history
<1>3. ASSUME NEW s \in Runners PROVE Solo(run[s])'
  <2>1. PICK y \in Run : y = run'[s]
    OBVIOUS
  <2>2. PICK z \in Run : z = run[s]
    BY DEF IInv, TypeOK
  <2>3. Solo(y)'
    <3>1. CASE Harmless(y)
      BY <3>1, HarmlessSolo
    <3>2. CASE Alike(y, z)
      <4>1. Solo(z)
        BY <2>2 DEF IInv
      <4>2. HasKey(y)' /\ ClaimFacts(y)'
        BY <3>2, <4>1 DEF Alike, Solo, HasKey, ClaimFacts, Claiming, SafeToExecute
      <4>3. AttemptFacts(y)' /\ OutcomeFacts(y)' /\ FundFacts(y)'
        BY <3>2, <4>1 DEF Alike, Solo, AttemptFacts, Claimed, OutcomeFacts, FundFacts,
           Funded, provider, history
      <4> QED
        BY <4>2, <4>3 DEF Solo
    <3> QED
      BY <2>1, <2>2, <3>1, <3>2
  <2> QED
    BY <2>1, <2>3 DEF Solo, HasKey, ClaimFacts, AttemptFacts, OutcomeFacts,
       FundFacts, Claiming, Claimed, Funded
<1>4. ASSUME NEW s \in Runners PROVE HoldsLease(s, run[s])'
  BY DEF HoldsLease, InEffect
<1>5. ASSUME NEW s \in Runners, NEW t \in Runners, s # t
      PROVE  Apart(run[s], run[t])'
  <2>1. Apart(run[s], run[t])
    BY <1>5 DEF IInv
  <2> QED
    BY <2>1 DEF Apart, Claimed, Funded, Alike, Harmless
<1> QED
  BY <1>1, <1>2, <1>3, <1>4, <1>5 DEF IInv

\* record_authoritative_readback clears the lane: whoever held the lease is told.
LEMMA RecordReadbackLaneKeeps ==
    ASSUME IInv, NEW r \in Runners, RecordReadbackLane(r)
    PROVE  IInv'
<1>1. /\ run[r].pc = "readbacklane" /\ TypeOK /\ lane \in Lane /\ run[r] \in Run
      /\ HasKey(run[r]) /\ Key(r) = run[r].key /\ Key(r) \in Ops
      /\ UNCHANGED <<grantLive, ops, provider, history, negatives>>
  BY DEF RecordReadbackLane, At, IInv, TypeOK, Solo, HasKey, Key
<1>2. lane' \in Lane /\ lane'.consumed = lane.consumed
  <2>1. CASE lane' = [lane EXCEPT !.unknown = Key(r)]
    BY <1>1, <2>1, LaneRelabelled DEF Modes
  <2>2. CASE UNCHANGED lane
    BY <1>1, <2>2
  <2>3. CASE \E e \in Lease \cup {NoLease} :
                lane' = [lane EXCEPT !.unknown = None, !.lease = e]
    BY <1>1, <2>3 DEF Lane
  <2>4. lane.lease \in Lease \cup {NoLease}
    BY <1>1 DEF Lane
  <2> QED
    BY <2>1, <2>2, <2>3, <2>4 DEF RecordReadbackLane, AfterReadback
<1>3. PICK x \in Run :
         /\ Harmless(x)
         /\ x = IF Canary \/ run[r].role = "reconciler" THEN Idle
                ELSE [run[r] EXCEPT !.pc = "restore"]
  <2>1. CASE Canary \/ run[r].role = "reconciler"
    BY <2>1, IdleType DEF Harmless, HasKey, Idle
  <2>2. CASE ~(Canary \/ run[r].role = "reconciler")
    <3>1. "restore" \in PCs
      BY DEF PCs
    <3>2. PICK y \in Run : /\ y = [run[r] EXCEPT !.pc = "restore"]
                           /\ y.pc = "restore" /\ y.role = run[r].role
                           /\ y.key = run[r].key /\ y.digest = run[r].digest
      BY <1>1, <3>1, GotoType
    <3>3. run[r].role = "executor"
      BY <1>1, <2>2 DEF Run
    <3>4. Harmless(y)
      BY <1>1, <3>2, <3>3 DEF Harmless, HasKey
    <3> QED
      BY <2>2, <3>2, <3>4
  <2> QED
    BY <2>1, <2>2
<1>4. ASSUME NEW s \in Runners
      PROVE  run'[s] = IF s = r THEN x
                       ELSE IF lane'.lease.holder # s /\ lane.lease.holder = s
                              THEN [run[s] EXCEPT !.lost = TRUE] ELSE run[s]
  BY <1>1, <1>3 DEF RecordReadbackLane, Dispossess, TypeOK
<1>5. \A s \in Runners :
         /\ run[s] \in Run
         /\ [run[s] EXCEPT !.lost = TRUE] \in Run
         /\ Alike([run[s] EXCEPT !.lost = TRUE], run[s])
         /\ [run[s] EXCEPT !.lost = TRUE].lost
  BY <1>1 DEF TypeOK, Run, Alike
<1>6. run' \in [Runners -> Run]
  <2>1. DOMAIN run' = Runners /\ run' = [s \in Runners |-> run'[s]]
    BY DEF RecordReadbackLane, Dispossess
  <2>2. \A s \in Runners : run'[s] \in Run
    BY <1>4, <1>5
  <2> QED
    BY <2>1, <2>2
<1>7. \A s \in Runners : Harmless(run'[s]) \/ Alike(run'[s], run[s])
  <2>1. \A s \in Runners : Alike(run[s], run[s])
    BY DEF Alike
  <2> QED
    BY <1>3, <1>4, <1>5, <2>1
<1>8. lane'.lease \in {lane.lease, NoLease} /\ NoLease.holder = None
  <2>1. CASE lane' = [lane EXCEPT !.unknown = Key(r)]
    BY <1>1, <2>1, LaneRelabelled DEF NoLease, Modes
  <2>2. CASE UNCHANGED lane
    BY <2>2 DEF NoLease
  <2>3. CASE \E e \in {lane.lease, NoLease} :
                lane' = [lane EXCEPT !.unknown = None, !.lease = e]
    BY <1>1, <2>3 DEF NoLease, Lane
  <2> QED
    BY <2>1, <2>2, <2>3 DEF RecordReadbackLane, AfterReadback
<1>9. ASSUME NEW s \in Runners, InEffect(run'[s]), ~run'[s].lost
      PROVE  lane'.lease.holder = s /\ lane'.lease.live
  <2>1. s # r
    BY <1>3, <1>4, <1>9 DEF Harmless, InEffect
  <2>2. run'[s] = run[s] /\ ~(lane'.lease.holder # s /\ lane.lease.holder = s)
    BY <1>4, <1>5, <1>9, <2>1
  <2>3. lane.lease.holder = s /\ lane.lease.live
    BY <1>9, <2>2 DEF IInv, HoldsLease
  <2>4. None # s
    BY ClaimAssumption
  <2> QED
    BY <1>8, <2>2, <2>3, <2>4
<1> QED
  BY <1>1, <1>2, <1>6, <1>7, <1>9, LeaseStep DEF TypeOK

\* The lease's time is up: its holder is told.
LEMMA ExpireLeaseKeeps ==
    ASSUME IInv, ExpireLease
    PROVE  IInv'
<1> DEFINE h == lane.lease.holder
<1>1. TypeOK /\ lane \in Lane /\ lane.lease.live
      /\ UNCHANGED <<grantLive, ops, provider, history, negatives>>
  BY DEF IInv, TypeOK, ExpireLease
<1>2. lane.lease \in Lease /\ h \in Runners
  BY <1>1 DEF Lane, Lease, NoLease
<1>3. lane' = [lane EXCEPT !.lease = [lane.lease EXCEPT !.live = FALSE]]
  BY <1>1 DEF ExpireLease, Lane
<1>4. [lane.lease EXCEPT !.live = FALSE] \in Lease
  BY <1>2 DEF Lease
<1>5. lane' \in Lane /\ lane'.consumed = lane.consumed
  BY <1>1, <1>3, <1>4, LaneReleased
<1>6. PICK b \in BOOLEAN : /\ run' = [run EXCEPT ![h] = [run[h] EXCEPT !.lost = b]]
                           /\ run[h].pc # "idle" => b
  <2>1. CASE run[h].pc = "idle"
    BY <1>1, <2>1 DEF ExpireLease, TypeOK, Run
  <2>2. CASE run[h].pc # "idle"
    BY <1>1, <2>2 DEF ExpireLease, TypeOK, Run
  <2> QED
    BY <2>1, <2>2
<1>7. PICK z : z = [run[h] EXCEPT !.lost = b]
  OBVIOUS
<1>8. z \in Run /\ Alike(z, run[h]) /\ z.lost = b
  BY <1>1, <1>2, <1>7 DEF TypeOK, Run, Alike
<1>9. \A s \in Runners : run[s] \in Run /\ run'[s] = IF s = h THEN z ELSE run[s]
  BY <1>1, <1>2, <1>6, <1>7 DEF TypeOK
<1>10. run' \in [Runners -> Run]
  BY <1>1, <1>2, <1>6, <1>7, <1>8 DEF TypeOK
<1>11. \A s \in Runners : Harmless(run'[s]) \/ Alike(run'[s], run[s])
  BY <1>8, <1>9 DEF Alike
<1>12. \A s \in Runners : InEffect(run'[s]) => run'[s].lost
  <2>1. InEffect(z) => z.lost
    BY <1>6, <1>8 DEF InEffect, Alike
  <2>2. \A s \in Runners : s # h /\ InEffect(run[s]) => run[s].lost
    BY DEF IInv, HoldsLease
  <2> QED
    BY <1>9, <2>1, <2>2
<1> QED
  BY <1>1, <1>5, <1>10, <1>11, <1>12, LeaseStep DEF TypeOK

\* The owner's switch and the end of the grant.
LEMMA EnvironmentKeeps ==
    ASSUME IInv, ExpireGrant \/ \E m \in {"SHADOW", "CANARY"} : SetMode(m)
    PROVE  IInv'
<1>1. TypeOK /\ lane \in Lane /\ run \in [Runners -> Run]
  BY DEF IInv, TypeOK
<1>2. \A s \in Runners : Alike(run[s], run[s])
  BY DEF Alike
<1>3. CASE ExpireGrant
  <2>1. lane' = lane /\ run' = run /\ grantLive' \in BOOLEAN
        /\ UNCHANGED <<ops, provider, history, negatives>>
    BY <1>3 DEF ExpireGrant
  <2> QED
    BY <1>1, <1>2, <2>1, LeaseKept, LeaseStep
<1>4. CASE \E m \in {"SHADOW", "CANARY"} : SetMode(m)
  <2>1. PICK m \in Modes : lane' = [lane EXCEPT !.mode = m]
    BY <1>4 DEF SetMode, Modes
  <2>2. run' = run /\ grantLive' = grantLive /\ UNCHANGED <<ops, provider, history, negatives>>
    BY <1>4 DEF SetMode
  <2>3. lane' \in Lane /\ lane'.lease = lane.lease /\ lane'.consumed = lane.consumed
    BY <1>1, <2>1, LaneRelabelled
  <2> QED
    BY <1>1, <1>2, <2>2, <2>3, LeaseKept, LeaseStep DEF TypeOK
<1> QED
  BY <1>3, <1>4

-----------------------------------------------------------------------------
(* Each step keeps the invariant: steps on an operation record *)

\* A step that writes operation k's record as o, a version later.
LEMMA OpStep ==
    ASSUME IInv, NEW r \in Runners, NEW x \in Run, run' = [run EXCEPT ![r] = x],
           NEW k \in Ops, NEW o \in Operation, ops' = [ops EXCEPT ![k] = o],
           o.ver = ops[k].ver + 1, o.state # "MISSING",
           ops[k].att <= o.att, o.att <= o.ver,
           negatives' \in [Ops -> Nat], \A j \in Ops : negatives[j] <= negatives'[j],
           o.att <= 1 + negatives'[k],
           o.state = "RECONCILED_NOT_OBSERVED" => o.att <= negatives'[k],
           o.digest = ops[k].digest \/ ops[k].state = "MISSING",
           UNCHANGED <<lane, grantLive, provider, history>>,
           Solo(x)', HoldsLease(r, x)',
           \A s \in Runners : s # r => Apart(x, run[s]) /\ Apart(run[s], x)
    PROVE  IInv'
<1> USE ClaimAssumption
<1>0. ops' \in [Ops -> Operation]
  BY DEF IInv, TypeOK
<1>1. RecordTypes'
  BY <1>0 DEF IInv, TypeOK, RecordTypes, provider, history
<1>2. \A j \in Ops : ops'[j] = IF j = k THEN o ELSE ops[j]
  BY DEF IInv, TypeOK
<1>3. \A j \in Ops : /\ ops[j].ver \in Nat /\ ops[j].att \in Nat /\ negatives[j] \in Nat
                     /\ payloads[j] \subseteq Digests
                     /\ dispatches[j] \in [1..MaxVersion -> Nat]
  <2>1. \A j \in Ops : ops[j] \in Operation /\ negatives[j] \in Nat
    BY DEF IInv, TypeOK
  <2>2. \A j \in Ops : payloads[j] \subseteq Digests
    BY DEF IInv, TypeOK
  <2>3. \A j \in Ops : dispatches[j] \in [1..MaxVersion -> Nat]
    BY DEF IInv, TypeOK
  <2> QED
    BY <2>1, <2>2, <2>3 DEF Operation
<1>4. o.ver \in Nat /\ o.att \in Nat
  BY DEF Operation
<1>5. Shared'
  <2>1. ASSUME NEW j \in Ops
        PROVE  /\ ops'[j].att <= ops'[j].ver
               /\ ops'[j].ver = 0 <=> ops'[j].state = "MISSING"
               /\ ops'[j].state = "MISSING" => ops'[j].att = 0 /\ ops'[j].digest = None
               /\ ops'[j].att <= 1 + negatives'[j]
               /\ ops'[j].state = "RECONCILED_NOT_OBSERVED" => ops'[j].att <= negatives'[j]
               /\ \A d \in payloads'[j] : ops'[j].digest = d
               /\ \A a \in 1..MaxVersion : /\ dispatches'[j][a] <= 1
                                           /\ dispatches'[j][a] > 0 => a <= ops'[j].att
    <3>1. /\ ops[j].att <= ops[j].ver
          /\ ops[j].ver = 0 <=> ops[j].state = "MISSING"
          /\ ops[j].state = "MISSING" => ops[j].att = 0 /\ ops[j].digest = None
          /\ ops[j].att <= 1 + negatives[j]
          /\ ops[j].state = "RECONCILED_NOT_OBSERVED" => ops[j].att <= negatives[j]
          /\ \A d \in payloads[j] : ops[j].digest = d
          /\ \A a \in 1..MaxVersion : /\ dispatches[j][a] <= 1
                                      /\ dispatches[j][a] > 0 => a <= ops[j].att
      BY DEF IInv, Shared, OpFacts
    <3>2. negatives[j] <= negatives'[j] /\ negatives'[j] \in Nat
      OBVIOUS
    <3>3. payloads' = payloads /\ dispatches' = dispatches
      BY DEF history
    <3>4. CASE j # k
      <4>1. ops'[j] = ops[j]
        BY <1>2, <3>4
      <4>2. /\ ops[j].att <= 1 + negatives'[j]
            /\ ops[j].state = "RECONCILED_NOT_OBSERVED" => ops[j].att <= negatives'[j]
        BY <1>3, <3>1, <3>2
      <4> QED
        BY <3>1, <3>3, <4>1, <4>2
    <3>5. CASE j = k
      <4>1. ops'[j] = o
        BY <1>2, <3>5
      <4>2. \A d \in payloads[j] : o.digest = d
        BY <1>3, <3>1, <3>5
      <4>3. \A a \in 1..MaxVersion : dispatches[j][a] > 0 => a <= o.att
        BY <1>3, <1>4, <3>1, <3>5
      <4> QED
        BY <1>3, <1>4, <3>1, <3>2, <3>3, <3>5, <4>1, <4>2, <4>3
    <3> QED
      BY <3>4, <3>5
  <2>2. OpFacts'
    BY <2>1 DEF OpFacts
  <2>3. UnitFacts'
    BY DEF IInv, Shared, UnitFacts, history
  <2> QED
    BY <2>2, <2>3 DEF Shared
<1>6. ASSUME NEW s \in Runners, NEW y \in Run, s # r, y = run[s]
      PROVE  Solo(y)' /\ HoldsLease(s, y)'
  <2>1. Solo(y) /\ HoldsLease(s, y)
    BY <1>6 DEF IInv
  <2>2. y.ver \in Nat /\ y.att \in Nat
    BY DEF Run
  <2>3. HasKey(y) /\ HasKey(y)' /\ (y.pc # "idle" => y.key \in Ops)
    BY <2>1 DEF Solo, HasKey
  <2>4. ClaimFacts(y)'
    <3>1. SUFFICES ASSUME Claiming(y) PROVE ClaimFacts(y)'
      BY DEF ClaimFacts, Claiming
    <3>2. y.key \in Ops
      BY <2>3, <3>1 DEF Claiming
    <3>3. y.ver <= ops[y.key].ver /\ (y.ver = ops[y.key].ver =>
             y.att = ops[y.key].att /\ SafeToExecute(ops[y.key], y.digest))
      BY <2>1, <3>1 DEF Solo, ClaimFacts
    <3>4. CASE y.key = k
      BY <1>2, <1>3, <1>4, <2>2, <3>2, <3>3, <3>4 DEF ClaimFacts
    <3>5. CASE y.key # k
      BY <1>2, <3>2, <3>3, <3>5 DEF ClaimFacts, SafeToExecute
    <3> QED
      BY <3>4, <3>5
  <2>5. AttemptFacts(y)'
    <3>1. SUFFICES ASSUME Claimed(y) PROVE AttemptFacts(y)'
      BY DEF AttemptFacts, Claimed
    <3>2. y.key \in Ops
      BY <2>3, <3>1 DEF Claimed
    <3>3. /\ y.att \in 1..ops[y.key].att
          /\ dispatches[y.key][y.att] = 0
          /\ y.digest = ops[y.key].digest
      BY <2>1, <3>1 DEF Solo, AttemptFacts
    <3>4. ops[y.key].state # "MISSING"
      BY <3>2, <3>3 DEF IInv, Shared, OpFacts
    <3>5. CASE y.key = k
      BY <1>2, <1>3, <1>4, <2>2, <3>2, <3>3, <3>4, <3>5 DEF AttemptFacts, history
    <3>6. CASE y.key # k
      BY <1>2, <3>2, <3>3, <3>6 DEF AttemptFacts, history
    <3> QED
      BY <3>5, <3>6
  <2>6. OutcomeFacts(y)'
    BY <1>2, <2>1, <2>3 DEF Solo, OutcomeFacts, provider
  <2>7. FundFacts(y)'
    BY <2>1 DEF Solo, FundFacts, Funded, history
  <2>8. HoldsLease(s, y)'
    BY <2>1 DEF HoldsLease
  <2> QED
    BY <2>3, <2>4, <2>5, <2>6, <2>7, <2>8 DEF Solo
<1> QED
  BY <1>1, <1>5, <1>6, Carry

\* The same, to a harmless state.
LEMMA OpHarmlessStep ==
    ASSUME IInv, NEW r \in Runners, NEW x \in Run, run' = [run EXCEPT ![r] = x],
           Harmless(x),
           NEW k \in Ops, NEW o \in Operation, ops' = [ops EXCEPT ![k] = o],
           o.ver = ops[k].ver + 1, o.state # "MISSING",
           ops[k].att <= o.att, o.att <= o.ver,
           negatives' \in [Ops -> Nat], \A j \in Ops : negatives[j] <= negatives'[j],
           o.att <= 1 + negatives'[k],
           o.state = "RECONCILED_NOT_OBSERVED" => o.att <= negatives'[k],
           o.digest = ops[k].digest \/ ops[k].state = "MISSING",
           UNCHANGED <<lane, grantLive, provider, history>>
    PROVE  IInv'
BY HarmlessSolo, OpStep

\* The types of the counters of an operation.
LEMMA CountersNat ==
    ASSUME TypeOK, NEW k \in Ops
    PROVE  /\ ops[k] \in Operation
           /\ ops[k].ver \in 0..MaxVersion /\ ops[k].att \in 0..MaxVersion
           /\ negatives \in [Ops -> Nat] /\ negatives[k] \in Nat
           /\ \A j \in Ops : negatives[j] <= negatives[j]
<1>1. ops[k] \in Operation /\ negatives \in [Ops -> Nat]
  BY DEF TypeOK
<1> QED
  BY <1>1 DEF Operation

\* The durable claim: a new attempt, on the version the claim read.
LEMMA ClaimOperationKeeps ==
    ASSUME IInv, NEW r \in Runners, ClaimOperation(r)
    PROVE  IInv'
<1> USE ClaimAssumption
<1> DEFINE k == run[r].key
           o == [[ops[k] EXCEPT !.state = "IN_FLIGHT", !.digest = run[r].digest,
                                !.att = run[r].att + 1] EXCEPT !.ver = ops[k].ver + 1]
<1>1. /\ run[r].pc = "claimop" /\ TypeOK /\ run[r] \in Run
      /\ Solo(run[r]) /\ HoldsLease(r, run[r]) /\ Key(r) = k
      /\ UNCHANGED <<lane, grantLive, provider, history, negatives>>
  BY DEF ClaimOperation, At, IInv, TypeOK, Key
<1>2. k \in Ops /\ run[r].digest \in Digests /\ run[r].role = "executor"
  BY <1>1 DEF Solo, HasKey
<1>3. CASE Goto(r, "release") /\ UNCHANGED ops
  <2>1. PICK x \in Run : Harmless(x) /\ run' = [run EXCEPT ![r] = x]
    BY <1>1, <1>3, ReleaseHarmless
  <2> QED
    BY <1>1, <1>3, <2>1, HarmlessSolo, RunStep
<1>4. CASE /\ ops[k].ver = run[r].ver /\ ops[k].ver < MaxVersion
           /\ ops' = [ops EXCEPT ![k] = o]
  <2>1. /\ ops[k] \in Operation /\ ops[k].ver \in 0..MaxVersion
        /\ ops[k].att \in 0..MaxVersion
        /\ negatives' \in [Ops -> Nat] /\ negatives[k] \in Nat /\ negatives' = negatives
        /\ \A j \in Ops : negatives[j] <= negatives'[j]
    BY <1>1, <1>2, CountersNat
  <2>2. run[r].att = ops[k].att /\ SafeToExecute(ops[k], run[r].digest)
    BY <1>1, <1>4 DEF Solo, ClaimFacts, Claiming
  <2>3. /\ ops[k].att <= ops[k].ver
        /\ ops[k].state = "MISSING" => ops[k].att = 0
        /\ ops[k].state = "RECONCILED_NOT_OBSERVED" => ops[k].att <= negatives[k]
        /\ \A a \in 1..MaxVersion : dispatches[k][a] > 0 => a <= ops[k].att
    BY <1>2 DEF IInv, Shared, OpFacts
  <2>4. PICK w : w = o
    OBVIOUS
  <2> HIDE DEF o
  <2>5. /\ w \in Operation /\ w.ver = ops[k].ver + 1 /\ w.state = "IN_FLIGHT"
        /\ w.digest = run[r].digest /\ w.att = ops[k].att + 1
    <3>1. PICK v \in 0..MaxVersion : v = ops[k].ver + 1
      BY <1>4, <2>1
    <3>2. PICK a \in 0..MaxVersion : a = run[r].att + 1
      BY <1>4, <2>1, <2>2, <2>3
    <3>3. w = [[ops[k] EXCEPT !.state = "IN_FLIGHT", !.digest = run[r].digest,
                              !.att = a] EXCEPT !.ver = v]
      BY <2>4, <3>1, <3>2 DEF o
    <3>4. w \in Operation /\ w.ver = v /\ w.state = "IN_FLIGHT"
          /\ w.digest = run[r].digest /\ w.att = a
      BY <1>2, <2>1, <3>3 DEF Operation, OpStates
    <3> QED
      BY <2>2, <3>1, <3>2, <3>4
  <2>6. /\ ops' = [ops EXCEPT ![k] = w] /\ ops[k].att <= w.att /\ w.att <= w.ver
        /\ w.att <= 1 + negatives'[k]
        /\ w.digest = ops[k].digest \/ ops[k].state = "MISSING"
    BY <1>4, <2>1, <2>2, <2>3, <2>4, <2>5 DEF SafeToExecute
  <2>7. CASE Goto(r, "release")
    <3>1. PICK x \in Run : Harmless(x) /\ run' = [run EXCEPT ![r] = x]
      BY <1>1, <2>7, ReleaseHarmless
    <3> QED
      BY <1>1, <1>2, <2>1, <2>5, <2>6, <3>1, OpHarmlessStep
  <2>8. CASE Become(r, [run[r] EXCEPT !.pc = "mark", !.att = run[r].att + 1])
    <3>1. PICK x : x = [run[r] EXCEPT !.pc = "mark", !.att = w.att]
      OBVIOUS
    <3>2. /\ x \in Run /\ x.pc = "mark" /\ x.role = run[r].role /\ x.key = k
          /\ x.digest = run[r].digest /\ x.att = w.att /\ x.unit = run[r].unit
          /\ x.lost = run[r].lost
      <4>1. w.att \in 0..MaxVersion
        BY <2>5 DEF Operation
      <4> QED
        BY <1>1, <3>1, <4>1 DEF Run, PCs
    <3>3. run' = [run EXCEPT ![r] = x]
      BY <2>2, <2>5, <2>8, <3>1 DEF Become
    <3>4. ops'[k] = w /\ dispatches' = dispatches /\ lane' = lane /\ spent' = spent
      BY <1>1, <1>2, <2>6 DEF TypeOK, history
    <3>5. dispatches[k][x.att] = 0
      <4>1. x.att \in 1..MaxVersion /\ ~(x.att <= ops[k].att)
        BY <1>4, <2>1, <2>3, <2>5, <3>2
      <4>2. dispatches[k][x.att] \in Nat /\ ~(dispatches[k][x.att] > 0)
        BY <1>1, <1>2, <2>3, <4>1 DEF TypeOK
      <4> QED
        BY <4>2
    <3>6. AttemptFacts(x)'
      BY <2>1, <2>5, <3>2, <3>4, <3>5 DEF AttemptFacts
    <3>7. Solo(x)'
      BY <1>1, <3>2, <3>4, <3>6 DEF Solo, HasKey, ClaimFacts, Claiming, OutcomeFacts,
         FundFacts, Funded
    <3>8. HoldsLease(r, x)'
      BY <1>1, <3>2, <3>4 DEF HoldsLease, InEffect
    <3>9. ASSUME NEW s \in Runners, s # r PROVE Apart(x, run[s]) /\ Apart(run[s], x)
      <4>1. Apart(run[r], run[s]) /\ Apart(run[s], run[r])
        BY <3>9 DEF IInv
      <4>2. Claimed(run[s]) => run[s].att \in 1..ops[run[s].key].att
        BY DEF IInv, Solo, AttemptFacts
      <4>3. Claimed(run[s]) /\ run[s].key = k => run[s].att # x.att
        BY <2>1, <2>5, <3>2, <4>2
      <4>4. Canary /\ Funded(run[s]) => run[s].unit # x.unit
        BY <1>1, <3>2, <4>1 DEF Apart, Funded
      <4> QED
        BY <3>2, <4>3, <4>4 DEF Apart
    <3> QED
      BY <1>1, <1>2, <2>1, <2>5, <2>6, <3>2, <3>3, <3>7, <3>8, <3>9, OpStep
  <2> QED
    BY <1>1, <1>4, <2>7, <2>8 DEF ClaimOperation, OpWrite
<1> QED
  BY <1>1, <1>3, <1>4 DEF ClaimOperation, OpWrite

\* What is recorded of an operation that exists keeps its attempt and payload.
LEMMA RecordedOp ==
    ASSUME IInv, NEW k \in Ops, NEW st \in OpStates, st # "MISSING",
           ops[k].state # "MISSING", ops[k].ver < MaxVersion,
           ops' = [ops EXCEPT ![k] = [[ops[k] EXCEPT !.state = st] EXCEPT !.ver = ops[k].ver + 1]]
    PROVE  \E w \in Operation :
              /\ ops' = [ops EXCEPT ![k] = w] /\ ops'[k] = w
              /\ w.ver = ops[k].ver + 1 /\ w.state = st /\ w.att = ops[k].att
              /\ w.digest = ops[k].digest /\ ops[k].att <= w.att /\ w.att <= w.ver
              /\ ops' # ops
<1> USE ClaimAssumption
<1>1. /\ ops[k] \in Operation /\ ops[k].ver \in 0..MaxVersion
      /\ ops[k].att \in 0..MaxVersion /\ ops[k].att <= ops[k].ver
  BY CountersNat DEF IInv, Shared, OpFacts
<1>2. PICK v \in 0..MaxVersion : v = ops[k].ver + 1
  BY <1>1
<1>3. PICK w : w = [[ops[k] EXCEPT !.state = st] EXCEPT !.ver = v]
  OBVIOUS
<1>4. /\ w \in Operation /\ w.ver = v /\ w.state = st /\ w.att = ops[k].att
      /\ w.digest = ops[k].digest
  BY <1>1, <1>3 DEF Operation
<1>5. ops' = [ops EXCEPT ![k] = w]
  BY <1>2, <1>3
<1>6. ops'[k] = w
  BY <1>5 DEF IInv, TypeOK
<1>7. ops' # ops
  <2>1. v # ops[k].ver
    BY <1>1, <1>2
  <2>2. ops[k] # w
    BY <1>4, <2>1
  <2> QED
    BY <1>6, <2>2
<1>8. ops[k].att <= w.att /\ w.att <= w.ver
  BY <1>1, <1>2, <1>4
<1> QED
  BY <1>2, <1>4, <1>5, <1>6, <1>7, <1>8

\* record_unknown_write: the attempt and the payload stay.
LEMMA RecordUnknownKeeps ==
    ASSUME IInv, NEW r \in Runners, RecordUnknown(r)
    PROVE  IInv'
<1> DEFINE k == run[r].key
<1>1. /\ run[r].pc = "unknown" /\ TypeOK /\ run[r] \in Run
      /\ Solo(run[r]) /\ Key(r) = k
      /\ UNCHANGED <<lane, grantLive, provider, history, negatives>>
  BY DEF RecordUnknown, At, IInv, TypeOK, Key
<1>2. k \in Ops /\ ops[k].state # "MISSING" /\ HasKey(run[r])
  BY <1>1 DEF Solo, HasKey, OutcomeFacts
<1>3. CASE UNCHANGED ops /\ Done(r)
  BY <1>1, <1>3, DoneKeeps
<1>4. CASE /\ ops[k].ver < MaxVersion
           /\ ops' = [ops EXCEPT ![k] = [[ops[k] EXCEPT !.state = "UNKNOWN"]
                                            EXCEPT !.ver = ops[k].ver + 1]]
           /\ Goto(r, "unknownlane") \/ Done(r)
  <2>1. PICK w \in Operation :
              /\ ops' = [ops EXCEPT ![k] = w] /\ ops'[k] = w
              /\ w.ver = ops[k].ver + 1 /\ w.state = "UNKNOWN" /\ w.att = ops[k].att
              /\ w.digest = ops[k].digest /\ ops[k].att <= w.att /\ w.att <= w.ver
    BY <1>2, <1>4, RecordedOp DEF OpStates
  <2>2. /\ negatives' \in [Ops -> Nat] /\ negatives' = negatives
        /\ \A j \in Ops : negatives[j] <= negatives'[j]
        /\ w.att <= 1 + negatives'[k]
    BY <1>1, <1>2, <2>1, CountersNat DEF IInv, Shared, OpFacts
  <2>3. CASE Done(r)
    <3>1. PICK x \in Run : Harmless(x) /\ run' = [run EXCEPT ![r] = x]
      BY <1>1, <2>3, DoneHarmless
    <3> QED
      BY <1>1, <1>2, <2>1, <2>2, <3>1, OpHarmlessStep
  <2>4. CASE Goto(r, "unknownlane")
    <3>1. "unknownlane" \in PCs
      BY DEF PCs
    <3>2. PICK x \in Run : /\ x = [run[r] EXCEPT !.pc = "unknownlane"]
                           /\ x.pc = "unknownlane" /\ x.role = run[r].role
                           /\ x.key = run[r].key /\ x.digest = run[r].digest
      BY <1>1, <3>1, GotoType
    <3>3. run' = [run EXCEPT ![r] = x]
      BY <2>4, <3>2 DEF Goto, Become
    <3>4. Solo(x)'
      BY <1>1, <1>2, <2>1, <3>2 DEF Solo, HasKey, ClaimFacts, Claiming, AttemptFacts,
         Claimed, OutcomeFacts, FundFacts, Funded
    <3>5. HoldsLease(r, x)' /\ \A y : Apart(x, y) /\ Apart(y, x)
      BY <3>2 DEF HoldsLease, InEffect, Apart, Claimed, Funded
    <3> QED
      BY <1>1, <1>2, <2>1, <2>2, <3>2, <3>3, <3>4, <3>5, OpStep
  <2> QED
    BY <1>4, <2>3, <2>4
<1> QED
  BY <1>1, <1>3, <1>4 DEF RecordUnknown, OpWrite

\* record_authoritative_readback: a "not observed" record is counted.
LEMMA RecordReadbackKeeps ==
    ASSUME IInv, NEW r \in Runners, RecordReadback(r)
    PROVE  IInv'
<1> DEFINE k == run[r].key
           st == ReadbackState(run[r].obs)
<1>1. /\ run[r].pc = "readback" /\ TypeOK /\ run[r] \in Run
      /\ Solo(run[r]) /\ Key(r) = k
      /\ UNCHANGED <<lane, grantLive, provider, history>>
      /\ negatives' = [negatives EXCEPT ![k] =
                         IF run[r].obs = "absent" /\ ops' # ops THEN @ + 1 ELSE @]
  BY DEF RecordReadback, At, IInv, TypeOK, Key
<1>2. k \in Ops /\ ops[k].state # "MISSING"
  BY <1>1 DEF Solo, HasKey, OutcomeFacts
<1>3. CASE UNCHANGED ops /\ Done(r)
  <2>1. negatives' = negatives
    BY <1>1, <1>2, <1>3 DEF TypeOK
  <2> QED
    BY <1>1, <1>3, <2>1, DoneKeeps
<1>4. CASE /\ ops[k].ver < MaxVersion
           /\ ops' = [ops EXCEPT ![k] = [[ops[k] EXCEPT !.state = st]
                                            EXCEPT !.ver = ops[k].ver + 1]]
           /\ Goto(r, "readbacklane") \/ Done(r)
  <2>1. /\ st \in OpStates /\ st # "MISSING"
        /\ st = "RECONCILED_NOT_OBSERVED" => run[r].obs = "absent"
    BY <1>1 DEF ReadbackState, OpStates, Run, Observations
  <2> HIDE DEF st
  <2>2. PICK w \in Operation :
              /\ ops' = [ops EXCEPT ![k] = w] /\ ops'[k] = w
              /\ w.ver = ops[k].ver + 1 /\ w.state = st /\ w.att = ops[k].att
              /\ w.digest = ops[k].digest /\ ops[k].att <= w.att /\ w.att <= w.ver
              /\ ops' # ops
    BY <1>2, <1>4, <2>1, RecordedOp
  <2>3. /\ negatives \in [Ops -> Nat] /\ ops[k].att \in Nat
        /\ ops[k].att <= 1 + negatives[k]
    BY <1>1, <1>2, CountersNat, ClaimAssumption DEF IInv, Shared, OpFacts
  <2>4. /\ negatives' \in [Ops -> Nat]
        /\ \A j \in Ops : negatives[j] <= negatives'[j]
        /\ w.att <= 1 + negatives'[k]
        /\ w.state = "RECONCILED_NOT_OBSERVED" => w.att <= negatives'[k]
    BY <1>1, <1>2, <2>1, <2>2, <2>3
  <2>5. CASE Done(r)
    <3>1. PICK x \in Run : Harmless(x) /\ run' = [run EXCEPT ![r] = x]
      BY <1>1, <2>5, DoneHarmless
    <3> QED
      BY <1>1, <1>2, <2>1, <2>2, <2>4, <3>1, OpHarmlessStep
  <2>6. CASE Goto(r, "readbacklane")
    <3>1. "readbacklane" \in PCs
      BY DEF PCs
    <3>2. PICK x \in Run : /\ x = [run[r] EXCEPT !.pc = "readbacklane"]
                           /\ x.pc = "readbacklane" /\ x.role = run[r].role
                           /\ x.key = run[r].key /\ x.digest = run[r].digest
      BY <1>1, <3>1, GotoType
    <3>3. run' = [run EXCEPT ![r] = x]
      BY <2>6, <3>2 DEF Goto, Become
    <3>4. Solo(x)'
      BY <1>1, <1>2, <2>1, <2>2, <3>2 DEF Solo, HasKey, ClaimFacts, Claiming,
         AttemptFacts, Claimed, OutcomeFacts, FundFacts, Funded
    <3>5. HoldsLease(r, x)' /\ \A y : Apart(x, y) /\ Apart(y, x)
      BY <3>2 DEF HoldsLease, InEffect, Apart, Claimed, Funded
    <3> QED
      BY <1>1, <1>2, <2>1, <2>2, <2>4, <3>2, <3>3, <3>4, <3>5, OpStep
  <2> QED
    BY <1>4, <2>5, <2>6
<1> QED
  BY <1>1, <1>3, <1>4 DEF RecordReadback, OpWrite

-----------------------------------------------------------------------------
(* Each step keeps the invariant: the provider *)

\* The provider performs what it accepted earlier.
LEMMA ProviderPerformsLateKeeps ==
    ASSUME IInv, NEW k \in Ops, ProviderPerformsLate(k)
    PROVE  IInv'
<1>1. /\ run' = run /\ lane' = lane /\ grantLive' = grantLive /\ ops' = ops
      /\ dispatches' = dispatches /\ payloads' = payloads /\ spent' = spent
      /\ negatives' = negatives
  BY DEF ProviderPerformsLate, history
<1>2. /\ applied' \in [Ops -> BOOLEAN] /\ late' \in [Ops -> BOOLEAN]
  BY DEF ProviderPerformsLate, IInv, TypeOK
<1>3. TypeOK'
  BY <1>1, <1>2 DEF IInv, TypeOK
<1>4. Shared'
  BY <1>1, <1>2 DEF IInv, Shared, OpFacts, UnitFacts
<1>5. ASSUME NEW s \in Runners PROVE Solo(run[s])' /\ HoldsLease(s, run[s])'
  <2>1. Solo(run[s]) /\ HoldsLease(s, run[s])
    BY DEF IInv
  <2>2. OutcomeFacts(run[s])'
    BY <1>1, <1>2, <2>1 DEF Solo, OutcomeFacts, HasKey
  <2> QED
    BY <1>1, <2>1, <2>2 DEF Solo, HoldsLease, HasKey, ClaimFacts, AttemptFacts,
       FundFacts, Claiming, Claimed, Funded, InEffect, SafeToExecute
<1>6. ASSUME NEW s \in Runners, NEW t \in Runners, s # t PROVE Apart(run[s], run[t])'
  BY <1>1, <1>6 DEF IInv, Apart, Claimed, Funded
<1> QED
  BY <1>3, <1>4, <1>5, <1>6 DEF IInv

\* A provider call of runner r, of which the runner keeps the local state x: the
\* attempt it claimed and the unit it consumed are used up, and nobody else's are.
LEMMA SendStep ==
    ASSUME IInv, NEW r \in Runners, NEW x \in Run, run' = [run EXCEPT ![r] = x],
           run[r].pc = "send", CountDispatch(r),
           applied' \in [Ops -> BOOLEAN], late' \in [Ops -> BOOLEAN],
           UNCHANGED <<lane, grantLive, ops, negatives>>,
           x.pc \in {"unknown", "readback"}, x.key = run[r].key, x.role = run[r].role,
           x.digest = run[r].digest
    PROVE  IInv'
<1> USE ClaimAssumption
<1> DEFINE k == run[r].key
           a == run[r].att
           u == run[r].unit
<1>1. TypeOK /\ run[r] \in Run /\ Solo(run[r]) /\ a \in 0..MaxVersion /\ u \in 0..MaxEffects
  BY DEF IInv, TypeOK, Run
<1>2. /\ k \in Ops /\ run[r].digest \in Digests /\ a \in 1..ops[k].att
      /\ dispatches[k][a] = 0 /\ run[r].digest = ops[k].digest /\ run[r].role = "executor"
      /\ Canary => u \in 1..lane.consumed /\ spent[u] = 0
  BY <1>1 DEF Solo, HasKey, AttemptFacts, Claimed, FundFacts, Funded
<1>3. /\ ops[k] \in Operation /\ ops[k].att \in 0..MaxVersion /\ lane.consumed \in 0..MaxEffects
  BY <1>1, <1>2, CountersNat DEF TypeOK, Lane
<1>4. a \in 1..MaxVersion
  BY <1>2, <1>3
<1>5. \A j \in Ops : \A b \in 1..MaxVersion :
         dispatches'[j][b] = IF j = k /\ b = a THEN 1 ELSE dispatches[j][b]
  BY <1>1, <1>2, <1>4 DEF CountDispatch, Key, TypeOK
<1>6. \A v \in 0..MaxEffects : spent'[v] = IF v = u THEN spent[v] + 1 ELSE spent[v]
  BY <1>1 DEF CountDispatch, TypeOK
<1>7. \A j \in Ops : payloads'[j] = IF j = k THEN payloads[j] \cup {run[r].digest}
                                    ELSE payloads[j]
  BY <1>1 DEF CountDispatch, Key, TypeOK
<1>8. RecordTypes'
  <2>1. dispatches' \in [Ops -> [1..MaxVersion -> Nat]]
    <3>0. dispatches[k] \in [1..MaxVersion -> Nat] /\ dispatches[k][a] + 1 \in Nat
      BY <1>1, <1>2 DEF TypeOK
    <3>1. PICK f \in [1..MaxVersion -> Nat] :
             f = [dispatches[k] EXCEPT ![a] = dispatches[k][a] + 1]
      BY <3>0
    <3>2. dispatches' = [dispatches EXCEPT ![k] = f]
      BY <3>1 DEF CountDispatch, Key
    <3> QED
      BY <1>1, <3>2 DEF TypeOK
  <2>2. payloads' \in [Ops -> SUBSET Digests]
    BY <1>1, <1>2 DEF CountDispatch, Key, TypeOK
  <2>3. spent' \in [0..MaxEffects -> Nat]
    BY <1>1 DEF CountDispatch, TypeOK
  <2> QED
    BY <1>1, <2>1, <2>2, <2>3 DEF TypeOK, RecordTypes
<1>9. Shared'
  <2>1. ASSUME NEW j \in Ops
        PROVE  /\ \A d \in payloads'[j] : ops[j].digest = d
               /\ \A b \in 1..MaxVersion : /\ dispatches'[j][b] <= 1
                                           /\ dispatches'[j][b] > 0 => b <= ops[j].att
    <3>1. /\ \A d \in payloads[j] : ops[j].digest = d
          /\ \A b \in 1..MaxVersion : /\ dispatches[j][b] <= 1
                                      /\ dispatches[j][b] > 0 => b <= ops[j].att
      BY DEF IInv, Shared, OpFacts
    <3>2. ASSUME NEW d \in payloads'[j] PROVE ops[j].digest = d
      <4>1. run[r].digest = ops[k].digest
        BY <1>2
      <4>2. CASE j = k
        BY <1>7, <3>1, <3>2, <4>1, <4>2
      <4>3. CASE j # k
        BY <1>7, <3>1, <3>2, <4>3
      <4> QED
        BY <4>2, <4>3
    <3>3. ASSUME NEW b \in 1..MaxVersion
          PROVE  dispatches'[j][b] <= 1 /\ (dispatches'[j][b] > 0 => b <= ops[j].att)
      <4>1. CASE j = k /\ b = a
        BY <1>2, <1>3, <1>5, <4>1
      <4>2. CASE ~(j = k /\ b = a)
        BY <1>5, <3>1, <4>2
      <4> QED
        BY <4>1, <4>2
    <3> QED
      BY <3>2, <3>3
  <2>2. OpFacts'
    BY <2>1 DEF IInv, Shared, OpFacts
  <2>3. UnitFacts'
    <3>1. SUFFICES ASSUME Canary PROVE UnitFacts'
      BY DEF UnitFacts
    <3>2. /\ spent[0] = 0
          /\ \A v \in 1..MaxEffects : /\ spent[v] <= 1
                                      /\ spent[v] > 0 => v <= lane.consumed
      BY <3>1 DEF IInv, Shared, UnitFacts
    <3>3. spent'[0] = 0
      BY <1>2, <1>3, <1>6, <3>1, <3>2
    <3>4. ASSUME NEW v \in 1..MaxEffects
          PROVE  spent'[v] <= 1 /\ (spent'[v] > 0 => v <= lane.consumed)
      BY <1>2, <1>3, <1>6, <3>1, <3>2
    <3> QED
      BY <3>3, <3>4 DEF UnitFacts
  <2> QED
    BY <2>2, <2>3 DEF Shared
<1>10. Solo(x)' /\ HoldsLease(r, x)' /\ \A y : Apart(x, y) /\ Apart(y, x)
  <2>1. ops[k].state # "MISSING"
    BY <1>2, <1>3 DEF IInv, Shared, OpFacts
  <2>2. OutcomeFacts(x)'
    BY <2>1 DEF OutcomeFacts
  <2> QED
    BY <1>2, <2>2 DEF Solo, HasKey, ClaimFacts, Claiming, AttemptFacts, Claimed, FundFacts,
       Funded, HoldsLease, InEffect, Apart
<1>11. ASSUME NEW s \in Runners, NEW y \in Run, s # r, y = run[s]
       PROVE  Solo(y)' /\ HoldsLease(s, y)'
  <2>1. /\ Solo(y) /\ HoldsLease(s, y) /\ Apart(run[r], y)
        /\ y.unit \in 0..MaxEffects /\ y.att \in 0..MaxVersion
    BY <1>11 DEF IInv, Run
  <2>2. AttemptFacts(y)'
    <3>1. SUFFICES ASSUME Claimed(y) PROVE AttemptFacts(y)'
      BY DEF AttemptFacts, Claimed
    <3>2. /\ y.key \in Ops /\ y.att \in 1..ops[y.key].att /\ dispatches[y.key][y.att] = 0
          /\ y.digest = ops[y.key].digest
      BY <2>1, <3>1 DEF Solo, HasKey, AttemptFacts, Claimed
    <3>3. ops[y.key].att \in 0..MaxVersion
      BY <1>1, <3>2, CountersNat
    <3>4. ~(y.key = k /\ y.att = a)
      BY <2>1, <3>1 DEF Apart, Claimed
    <3>5. dispatches'[y.key][y.att] = 0
      BY <1>5, <3>2, <3>3, <3>4
    <3> QED
      BY <3>2, <3>5 DEF AttemptFacts
  <2>3. FundFacts(y)'
    <3>1. SUFFICES ASSUME Canary, Funded(y) PROVE FundFacts(y)'
      BY DEF FundFacts, Funded
    <3>2. y.unit \in 1..lane.consumed /\ spent[y.unit] = 0
      BY <2>1, <3>1 DEF Solo, FundFacts
    <3>3. y.unit # u
      BY <2>1, <3>1 DEF Apart, Funded
    <3> QED
      BY <1>6, <2>1, <3>2, <3>3 DEF FundFacts
  <2>4. HasKey(y)' /\ ClaimFacts(y)' /\ HoldsLease(s, y)'
    BY <2>1 DEF Solo, HasKey, ClaimFacts, Claiming, SafeToExecute, HoldsLease, InEffect
  <2>5. OutcomeFacts(y)'
    BY <2>1 DEF Solo, HasKey, OutcomeFacts
  <2> QED
    BY <2>2, <2>3, <2>4, <2>5 DEF Solo
<1> QED
  BY <1>8, <1>9, <1>10, <1>11, Carry

\* send_message returns with proof of delivery.
LEMMA SendDeliveredKeeps ==
    ASSUME IInv, NEW r \in Runners, SendDelivered(r)
    PROVE  IInv'
<1>1. /\ run[r].pc = "send" /\ run[r] \in Run /\ TypeOK /\ HasKey(run[r])
      /\ CountDispatch(r) /\ UNCHANGED <<lane, grantLive, ops, negatives>>
      /\ applied' = [applied EXCEPT ![run[r].key] = TRUE] /\ late' = late
  BY DEF SendDelivered, At, Key, IInv, TypeOK, Solo
<1>2. run[r].key \in Ops
  BY <1>1 DEF HasKey
<1>3. /\ applied' \in [Ops -> BOOLEAN] /\ late' \in [Ops -> BOOLEAN]
  BY <1>1, <1>2 DEF TypeOK
<1>4. PICK x : x = [run[r] EXCEPT !.pc = "readback", !.obs = "seen"]
  OBVIOUS
<1>5. /\ x \in Run /\ x.pc = "readback" /\ x.key = run[r].key /\ x.role = run[r].role
      /\ x.digest = run[r].digest
  BY <1>1, <1>4 DEF Run, PCs, Observations
<1>6. run' = [run EXCEPT ![r] = x]
  BY <1>4 DEF SendDelivered, Become
<1> QED
  BY <1>1, <1>3, <1>5, <1>6, SendStep

\* It raises, or its receipt proves nothing.
LEMMA SendUnprovenKeeps ==
    ASSUME IInv, NEW r \in Runners, SendUnproven(r)
    PROVE  IInv'
<1>1. /\ run[r].pc = "send" /\ run[r] \in Run /\ TypeOK /\ HasKey(run[r])
      /\ CountDispatch(r) /\ UNCHANGED <<lane, grantLive, ops, negatives>>
      /\ Goto(r, "unknown") /\ "unknown" \in PCs
  BY DEF SendUnproven, At, IInv, TypeOK, Solo, PCs
<1>2. /\ applied' \in [Ops -> BOOLEAN] /\ late' \in [Ops -> BOOLEAN]
  BY <1>1 DEF SendUnproven, TypeOK, provider
<1>3. PICK x \in Run : /\ x = [run[r] EXCEPT !.pc = "unknown"] /\ x.pc = "unknown"
                       /\ x.role = run[r].role /\ x.key = run[r].key
                       /\ x.digest = run[r].digest
  BY <1>1, GotoType
<1>4. run' = [run EXCEPT ![r] = x]
  BY <1>1, <1>3 DEF Goto, Become
<1> QED
  BY <1>1, <1>2, <1>3, <1>4, SendStep

-----------------------------------------------------------------------------
(* The theorems *)

\* The initial state satisfies the invariant.
LEMMA InitEstablishes == Init => IInv
<1> USE ClaimAssumption
<1> SUFFICES ASSUME Init PROVE IInv
  OBVIOUS
<1>1. /\ lane \in Lane /\ grantLive \in BOOLEAN
  BY DEF Init, Lane, Modes
<1>2. /\ ops \in [Ops -> Operation] /\ run \in [Runners -> Run]
      /\ \A k \in Ops : ops[k] = Missing
      /\ \A r \in Runners : run[r] = Idle
  BY IdleType DEF Init, Operation, Missing, OpStates
<1>3. /\ applied \in [Ops -> BOOLEAN] /\ late \in [Ops -> BOOLEAN]
      /\ dispatches \in [Ops -> [1..MaxVersion -> Nat]]
      /\ payloads \in [Ops -> SUBSET Digests]
      /\ spent \in [0..MaxEffects -> Nat] /\ negatives \in [Ops -> Nat]
  BY DEF Init
<1>4. TypeOK
  BY <1>1, <1>2, <1>3 DEF TypeOK
<1>5. Shared
  <2>1. OpFacts
    BY <1>2 DEF Init, OpFacts, Missing
  <2>2. UnitFacts
    BY DEF Init, UnitFacts
  <2> QED
    BY <2>1, <2>2 DEF Shared
<1>6. Harmless(Idle)
  BY DEF Harmless, HasKey, Idle
<1> QED
  BY <1>2, <1>4, <1>5, <1>6, HarmlessSolo DEF IInv

\* Steps that change nothing.
LEMMA StutterKeeps ==
    ASSUME IInv, UNCHANGED vars
    PROVE  IInv'
<1>1. /\ run' = run /\ lane' = lane /\ grantLive' = grantLive /\ ops' = ops
      /\ UNCHANGED <<ops, provider, history, negatives>>
  BY DEF vars, provider, history
<1>2. \A s \in Runners : Alike(run[s], run[s])
  BY DEF Alike
<1> QED
  BY <1>1, <1>2, LeaseKept, LeaseStep DEF IInv, TypeOK

\* The invariant holds always.
THEOREM InvHolds == Spec => []IInv
<1>1. Init => IInv
  BY InitEstablishes
<1>2. IInv /\ [Next]_vars => IInv'
  <2> SUFFICES ASSUME IInv, [Next]_vars PROVE IInv'
    OBVIOUS
  <2>1. ASSUME NEW r \in Runners, NEW k \in Ops, NEW d \in Digests,
               StartCanary(r, k, d) \/ StartLineage(r, k, d)
        PROVE  IInv'
    BY <2>1, StartKeeps
  <2>2. ASSUME NEW r \in Runners, NEW k \in Ops, Reconcile(r, k) PROVE IInv'
    BY <2>2, ReconcileKeeps
  <2>3. ASSUME NEW r \in Runners, Step(r) PROVE IInv'
    BY <2>3, AuthorizeKeeps, ClaimReadLaneKeeps, ClaimReadOpKeeps, AcquireLeaseKeeps,
       ConsumeCanaryKeeps, ClaimOperationKeeps, MarkLaneKeeps, ReleaseLeaseKeeps,
       SendDeliveredKeeps, SendUnprovenKeeps, RecordUnknownKeeps, RecordUnknownLaneKeeps,
       RecordReadbackKeeps, RecordReadbackLaneKeeps, RestoreShadowKeeps DEF Step
  <2>4. ASSUME NEW r \in Runners, Crash(r) PROVE IInv'
    BY <2>4, CrashKeeps
  <2>5. ASSUME NEW k \in Ops, ProviderPerformsLate(k) PROVE IInv'
    BY <2>5, ProviderPerformsLateKeeps
  <2>6. CASE ExpireGrant \/ \E m \in {"SHADOW", "CANARY"} : SetMode(m)
    BY <2>6, EnvironmentKeeps
  <2>7. CASE ExpireLease
    BY <2>7, ExpireLeaseKeeps
  <2>8. CASE UNCHANGED vars
    BY <2>8, StutterKeeps
  <2> QED
    BY <2>1, <2>2, <2>3, <2>4, <2>5, <2>6, <2>7, <2>8 DEF Next
<1> QED
  BY <1>1, <1>2, PTL DEF Spec

\* The records keep their types: in particular the grant's consumed_count never
\* exceeds maximum_effect_count.
THEOREM TypeCorrect == Spec => []TypeOK
<1>1. IInv => TypeOK
  BY DEF IInv
<1> QED
  BY <1>1, InvHolds, PTL

\* No provider call is repeated blindly: each recorded attempt makes at most one call,
\* and a further attempt needs an authoritative readback that found the effect absent.
THEOREM NeverBlind == Spec => []NoBlindRetry
<1>1. IInv => NoBlindRetry
  <2> SUFFICES ASSUME IInv, NEW k \in Ops, NEW a \in 1..MaxVersion
               PROVE  /\ dispatches[k][a] <= 1
                      /\ dispatches[k][a] > 0 => a <= 1 + negatives[k]
    BY DEF NoBlindRetry
  <2>1. /\ dispatches[k][a] <= 1 /\ (dispatches[k][a] > 0 => a <= ops[k].att)
        /\ ops[k].att <= 1 + negatives[k]
    BY DEF IInv, Shared, OpFacts
  <2>2. ops[k].att \in 0..MaxVersion /\ negatives[k] \in Nat
    BY CountersNat DEF IInv
  <2> QED
    BY <2>1, <2>2, ClaimAssumption
<1> QED
  BY <1>1, InvHolds, PTL

\* The effects of a canary lane never exceed the grant: every call has a unit of its
\* own among the maximum_effect_count.
THEOREM WithinGrant == Spec => []GrantBound
<1>1. IInv => GrantBound
  BY DEF IInv, Shared, UnitFacts, GrantBound
<1> QED
  BY <1>1, InvHolds, PTL

\* All calls for one effect carry one payload.
THEOREM NeverTwoPayloads == Spec => []OnePayload
<1>1. IInv => OnePayload
  BY DEF IInv, Shared, OpFacts, OnePayload
<1> QED
  BY <1>1, InvHolds, PTL

\* Two executors overlap under the lease only after one of them lost it.
THEOREM LeaseExcludes == Spec => []LeaseExclusion
<1>1. IInv => LeaseExclusion
  BY DEF IInv, HoldsLease, InEffect, LeaseExclusion, Protected
<1> QED
  BY <1>1, InvHolds, PTL
=============================================================================

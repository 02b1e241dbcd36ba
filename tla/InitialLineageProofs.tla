------------------------ MODULE InitialLineageProofs ------------------------
(***************************************************************************)
(* Proofs about InitialLineage, for any executors, observers,              *)
(* specifications, sessions and faults.                                    *)
(***************************************************************************)
EXTENDS InitialLineage, TLAPS, FiniteSetTheorems

\* Steps of the guarded creation, up to the create: key and spec are the authorized one.
Effect == {"ensure", "assess", "pending", "authorize", "claim", "lease", "claimop", "mark",
           "release", "send"}

\* Steps of a job that has claimed its operation and not asked the provider yet.
Claims == {"mark", "send"}

\* Steps of a job that has a session in its hands.
Found == {"confirm", "confirmlane", "bind", "account"}

Recording == {"unknown", "unknownlane"} \cup Found

\* Steps of a job that has seen the lane's record.
Entered == (Effect \ {"ensure"}) \cup Recording

Created == {sessions[i] : i \in DOMAIN sessions}

\* What a job knows at its step.
Job(r) ==
    /\ run[r].listed \subseteq DOMAIN sessions
    /\ run[r].pc = "inventory" => run[r].then \in {"snapshot", "stale"}
    /\ run[r].pc = "inventory" /\ run[r].then = "snapshot" => run[r].spec \in Specs
    /\ run[r].pc \in Effect \cup Recording \cup {"snapshot"} => run[r].spec \in Specs
    /\ run[r].pc \in Effect => run[r].key = run[r].spec
    /\ run[r].pc \in Recording => run[r].key \in Specs
    /\ run[r].pc \in Entered => lane.exists
    /\ run[r].pc \in Claims =>
          ops[run[r].spec] # "MISSING" /\ run[r].spec \notin Requested
    /\ run[r].pc \in Found => run[r].fp \in DOMAIN sessions /\ sessions[run[r].fp] = run[r].spec

\* An operation is claimed by one job.
Exclusive ==
    \A q, r \in Runners :
        q # r /\ run[q].pc \in Claims /\ run[r].pc \in Claims => run[q].spec # run[r].spec

\* A binding has its session, and a lane without a record has neither.
LaneOK ==
    /\ ~lane.exists => lane.unknown = None /\ lane.gen = 0
    /\ lane.gen > 0 => lane.fp # 0
    /\ lane.tkey # None => lane.fp \in DOMAIN sessions
    /\ BoundToItsSpec

\* What was asked for was claimed.
RequestedClaimed == \A s \in Requested : ops[s] # "MISSING"

Counting == IsFiniteSet(account.seen) /\ account.count = Cardinality(account.seen)

IInv ==
    /\ TypeOK
    /\ Len(sessions) <= MaxSessions
    /\ \A r \in Runners : Job(r)
    /\ Exclusive
    /\ LaneOK
    /\ RequestedClaimed
    /\ OneSessionPerSpec
    /\ Counting

\* With one executor at a time, the operation that a reconciler confirms is that of a
\* session that was created.
Serialised == \A q, r \in Executors : q = r

\* Steps of a job whose intention is on the lane, unless its session exists already.
Asking == {"authorize", "claim", "lease", "claimop", "mark", "send", "unknown", "unknownlane"}

Attribution(r) ==
    /\ run[r].pc = "pending" => lane.unknown = None
    /\ run[r].pc \in Asking => lane.pending \in {None, run[r].key} \/ run[r].key \in Created
    /\ run[r].pc \in Found => run[r].key \in Created

\* The marker and the intention that a reconciler reads together are of one operation.
Marked ==
    lane.unknown # None /\ lane.pending # None =>
        lane.unknown = lane.pending \/ lane.unknown \in Created

Attributed ==
    /\ \A r \in Observers \ Executors : run[r].pc \in {"idle", "upsert"}
    /\ \A r \in Executors : Attribution(r)
    /\ Marked
    /\ account.seen \subseteq Created

-----------------------------------------------------------------------------
(* Facts about the records *)

LEMMA NoLaneTyped == NoLane \in Lane
BY InitialAssumption DEF NoLane, Lane, MaxGeneration

LEMMA LaneTyped == TypeOK => lane \in Lane
BY NoLaneTyped DEF TypeOK

LEMMA IdleTyped == Idle \in Run
BY InitialAssumption DEF Idle, Run, PCs

LEMMA InitIInv == Init => IInv
<1> SUFFICES ASSUME Init PROVE IInv
  OBVIOUS
<1>1. sessions = <<>> /\ DOMAIN sessions = {} /\ Len(sessions) = 0
  BY DEF Init
<1>2. TypeOK
  BY IdleTyped, InitialAssumption DEF Init, TypeOK, OpStates
<1>3. \A r \in Runners : run[r] = Idle
  BY DEF Init
<1>4. \A r \in Runners : Job(r)
  BY <1>3 DEF Job, Idle, Effect, Recording, Found, Entered, Claims
<1>5. Exclusive
  BY <1>3 DEF Exclusive, Idle, Claims
<1>6. LaneOK
  BY DEF Init, LaneOK, NoLane, BoundToItsSpec
<1>7. RequestedClaimed /\ OneSessionPerSpec
  BY <1>1 DEF Init, RequestedClaimed, Requested, OneSessionPerSpec
<1>8. Counting
  BY FS_EmptySet DEF Init, Counting
<1> QED
  BY <1>1, <1>2, <1>4, <1>5, <1>6, <1>7, <1>8, InitialAssumption DEF IInv

-----------------------------------------------------------------------------
(* Facts about the steps of a job *)

\* Job r goes to one of the steps P, or ends; the others stay where they are.
Moved(r, P) ==
    /\ run' \in [Runners -> Run]
    /\ \A q \in Runners \ {r} : run'[q] = run[q]
    /\ run'[r] = Idle \/
          /\ run'[r].pc \in P
          /\ run'[r].spec = run[r].spec /\ run'[r].key = run[r].key
          /\ run'[r].fp = run[r].fp /\ run'[r].listed = run[r].listed

\* The steps P ask for nothing of r that it does not know already.
Follows(r, P, exists) ==
    \A l \in P :
        /\ l \in Effect => run[r].pc \in Effect
        /\ l \in Recording => run[r].pc \in Effect \cup Recording
        /\ l \in Found => run[r].pc \in Found
        /\ l \in Claims => run[r].pc \in Claims
        /\ l \in Entered => exists
        /\ l \notin {"snapshot", "inventory"}

LEMMA BecomeMoves ==
    ASSUME TypeOK, NEW r \in Runners, NEW rec \in Run, Become(r, rec)
    PROVE  /\ run' \in [Runners -> Run] /\ run'[r] = rec
           /\ \A q \in Runners \ {r} : run'[q] = run[q]
BY DEF TypeOK, Become

LEMMA StopMoves == ASSUME TypeOK, NEW r \in Runners, Stop(r), NEW P PROVE Moved(r, P)
BY IdleTyped, BecomeMoves DEF Stop, Moved

LEMMA GotoMoves ==
    ASSUME TypeOK, NEW r \in Runners, NEW l \in PCs, Goto(r, l), NEW P, l \in P
    PROVE  Moved(r, P)
<1> DEFINE rec == [run[r] EXCEPT !.pc = l]
<1>1. run[r] \in Run
  BY DEF TypeOK
<1>2. /\ rec \in Run /\ rec.pc = l /\ rec.spec = run[r].spec /\ rec.key = run[r].key
      /\ rec.fp = run[r].fp /\ rec.listed = run[r].listed
  BY <1>1 DEF Run
<1>3. Become(r, rec)
  BY DEF Goto
<1> HIDE DEF rec
<1> QED
  BY <1>2, <1>3, BecomeMoves DEF Moved

LEMMA LeaveMoves ==
    ASSUME TypeOK, NEW r \in Runners, Leave(r), NEW P, "restore" \in P
    PROVE  Moved(r, P)
BY StopMoves, GotoMoves DEF Leave, PCs

-----------------------------------------------------------------------------
(* Steps that do not reach the provider *)

\* A step of one job that gives up no claim, and takes only one that nobody has.
LEMMA StoreStep ==
    ASSUME IInv, NEW r \in Runners, UNCHANGED provider,
           run' \in [Runners -> Run], \A q \in Runners \ {r} : run'[q] = run[q],
           faults' \in 0..MaxFaults,
           lane' \in Lane, lane.exists => lane'.exists, LaneOK',
           ops' \in [Specs -> OpStates],
           \A s \in Specs : ops[s] # "MISSING" => ops'[s] # "MISSING",
           account' \in [count : Nat, seen : SUBSET Specs], Counting',
           Job(r)',
           run'[r].pc \in Claims =>
               \/ ops[run'[r].spec] = "MISSING"
               \/ run[r].pc \in Claims /\ run'[r].spec = run[r].spec
    PROVE  IInv'
<1>1. UNCHANGED <<sessions, late>> /\ Requested' = Requested /\ Requested \subseteq Specs
  BY DEF provider, Requested, IInv, TypeOK
<1>2. TypeOK' /\ (Len(sessions) <= MaxSessions)'
  BY <1>1 DEF IInv, TypeOK, Runners
<1>3. \A q \in Runners \ {r} : Job(q)'
  <2> SUFFICES ASSUME NEW q \in Runners \ {r} PROVE Job(q)'
    OBVIOUS
  <2>1. Job(q) /\ run'[q] = run[q]
    BY DEF IInv
  <2>2. run[q].pc \in Claims => run[q].spec \in Specs
    BY <2>1 DEF Job, Claims, Effect
  <2> QED
    BY <1>1, <2>1, <2>2 DEF Job
<1>4. \A q \in Runners \ {r} : run[q].pc \in Claims => ops[run[q].spec] # "MISSING"
  BY DEF IInv, Job
<1>5. Exclusive'
  <2> SUFFICES ASSUME NEW q \in Runners, NEW p \in Runners, q # p,
                      run'[q].pc \in Claims, run'[p].pc \in Claims
               PROVE  run'[q].spec # run'[p].spec
    BY DEF Exclusive, Runners
  <2>1. CASE q # r /\ p # r
    BY <2>1 DEF IInv, Exclusive
  <2>2. CASE q = r
    BY <1>4, <2>2 DEF IInv, Exclusive
  <2>3. CASE p = r
    BY <1>4, <2>3 DEF IInv, Exclusive
  <2> QED
    BY <2>1, <2>2, <2>3
<1>6. RequestedClaimed' /\ OneSessionPerSpec'
  BY <1>1 DEF IInv, RequestedClaimed, OneSessionPerSpec
<1>7. \A q \in Runners : Job(q)'
  BY <1>3
<1> QED
  BY <1>2, <1>5, <1>6, <1>7 DEF IInv, Runners

\* What a job knows when it only goes on.
LEMMA MovedJob ==
    ASSUME IInv, NEW r \in Runners, NEW P, Moved(r, P), UNCHANGED provider,
           lane.exists => lane'.exists,
           \A s \in Specs : ops[s] # "MISSING" => ops'[s] # "MISSING",
           Follows(r, P, lane'.exists)
    PROVE  Job(r)'
<1>1. UNCHANGED <<sessions, late>> /\ Requested' = Requested /\ Job(r)
  BY DEF provider, Requested, IInv
<1>2. CASE run'[r] = Idle
  BY <1>2 DEF Job, Idle, Effect, Recording, Found, Entered, Claims
<1>3. CASE /\ run'[r].pc \in P
           /\ run'[r].spec = run[r].spec /\ run'[r].key = run[r].key
           /\ run'[r].fp = run[r].fp /\ run'[r].listed = run[r].listed
  <2>1. run[r].pc \in Effect \cup Recording => run[r].spec \in Specs /\ run[r].key \in Specs
    BY <1>1 DEF Job
  <2>2. /\ Claims \subseteq Effect /\ Found \subseteq Recording
        /\ Entered \subseteq Effect \cup Recording
    BY DEF Claims, Effect, Found, Recording, Entered
  <2> QED
    BY <1>1, <1>3, <2>1, <2>2 DEF Job, Follows
<1> QED
  BY <1>2, <1>3 DEF Moved

LEMMA MovedClaims ==
    ASSUME NEW r \in Runners, NEW P, Moved(r, P), \A l \in P : l \in Claims => run[r].pc \in Claims
    PROVE  run'[r].pc \in Claims => run[r].pc \in Claims /\ run'[r].spec = run[r].spec
BY DEF Moved, Claims, Idle

\* A step that writes the lane, or nothing.
LEMMA LaneStep ==
    ASSUME IInv, NEW r \in Runners, NEW P, Moved(r, P), UNCHANGED <<ops, account, provider>>,
           faults' \in 0..MaxFaults,
           lane' \in Lane, lane.exists => lane'.exists, LaneOK',
           Follows(r, P, lane'.exists)
    PROVE  IInv'
<1>1. Job(r)'
  BY MovedJob
<1>2. run'[r].pc \in Claims => run[r].pc \in Claims /\ run'[r].spec = run[r].spec
  BY MovedClaims DEF Follows
<1>3. ops' \in [Specs -> OpStates] /\ account' \in [count : Nat, seen : SUBSET Specs] /\ Counting'
  BY DEF IInv, TypeOK, Counting
<1>4. run' \in [Runners -> Run] /\ \A q \in Runners \ {r} : run'[q] = run[q]
  BY DEF Moved
<1> QED
  BY <1>1, <1>2, <1>3, <1>4, StoreStep

\* The lane's binding is left as it is.
LEMMA LaneKept ==
    ASSUME IInv, UNCHANGED provider, lane' \in Lane,
           \A s \in Specs : ops[s] # "MISSING" => ops'[s] # "MISSING",
           lane'.exists = lane.exists, lane'.gen = lane.gen, lane'.fp = lane.fp,
           lane'.tkey = lane.tkey, lane'.unknown # None => lane.unknown # None \/ lane.exists
    PROVE  LaneOK'
<1>1. UNCHANGED sessions /\ lane \in Lane
  BY LaneTyped DEF provider, IInv
<1>2. lane.tkey # None => lane.tkey \in Specs
  BY <1>1 DEF Lane
<1> QED
  BY <1>1, <1>2 DEF IInv, LaneOK, BoundToItsSpec

\* A job ends, or leaves the try, with the lane as it was.
LEMMA QuitKeeps ==
    ASSUME IInv, NEW r \in Runners, Moved(r, {"restore"}), UNCHANGED <<store, provider>>,
           faults' \in 0..MaxFaults
    PROVE  IInv'
<1>1. UNCHANGED <<lane, ops, account>> /\ lane \in Lane
  BY LaneTyped DEF store, IInv
<1>2. LaneOK'
  BY <1>1, LaneKept
<1> QED
  BY <1>1, <1>2, LaneStep DEF Follows, Effect, Recording, Found, Claims, Entered

-----------------------------------------------------------------------------
(* Steps that only decide what the job does next *)

LEMMA ControlKeeps ==
    ASSUME IInv, NEW r \in Runners, NEW rec \in Run, Become(r, rec), UNCHANGED <<store, provider>>,
           faults' \in 0..MaxFaults,
           rec.listed \subseteq DOMAIN sessions,
           rec.pc \in {"idle", "inventory", "snapshot", "stale", "ensure", "confirm", "upsert"},
           rec.pc = "inventory" => rec.then \in {"snapshot", "stale"},
           rec.pc = "inventory" /\ rec.then = "snapshot" => rec.spec \in Specs,
           rec.pc \in {"snapshot", "ensure", "confirm"} => rec.spec \in Specs,
           rec.pc = "ensure" => rec.key = rec.spec,
           rec.pc = "confirm" => /\ rec.key \in Specs /\ lane.exists
                                 /\ rec.fp \in DOMAIN sessions /\ sessions[rec.fp] = rec.spec
    PROVE  IInv'
<1>1. UNCHANGED <<lane, ops, account, sessions>> /\ lane \in Lane
  BY LaneTyped DEF store, provider, IInv
<1>2. LaneOK'
  BY <1>1, LaneKept
<1>3. /\ run' \in [Runners -> Run] /\ run'[r] = rec
      /\ \A q \in Runners \ {r} : run'[q] = run[q]
  BY BecomeMoves DEF IInv
<1>4. Job(r)'
  BY <1>1, <1>3 DEF Job, Effect, Recording, Found, Entered, Claims
<1>5. run'[r].pc \notin Claims
  BY <1>3 DEF Claims
<1>6. ops' \in [Specs -> OpStates] /\ account' \in [count : Nat, seen : SUBSET Specs] /\ Counting'
  BY <1>1 DEF IInv, TypeOK, Counting
<1> QED
  BY <1>1, <1>2, <1>3, <1>4, <1>5, <1>6, StoreStep

LEMMA StopKeeps ==
    ASSUME IInv, NEW r \in Runners, Stop(r), UNCHANGED <<store, provider>>, faults' \in 0..MaxFaults
    PROVE  IInv'
BY StopMoves, QuitKeeps DEF IInv

LEMMA FaultsTyped ==
    ASSUME TypeOK, UNCHANGED faults \/ (faults < MaxFaults /\ faults' = faults + 1)
    PROVE  faults' \in 0..MaxFaults
BY InitialAssumption DEF TypeOK

LEMMA StartKeeps ==
    ASSUME IInv, NEW r \in Runners,
           (\E s \in Specs : StartRun(r, s)) \/ StartStale(r)
             \/ (\E f \in Sessions \cup {0} : Observe(r, f))
    PROVE  IInv'
<1>0. Idle.listed = {}
  BY DEF Idle
<1>1. ASSUME NEW s \in Specs, StartRun(r, s) PROVE IInv'
  <2> DEFINE rec == [Idle EXCEPT !.pc = "inventory", !.then = "snapshot", !.spec = s]
  <2>1. /\ rec \in Run /\ rec.pc = "inventory" /\ rec.then = "snapshot" /\ rec.spec = s
        /\ rec.listed = {}
    BY <1>0, IdleTyped DEF Run, PCs
  <2>2. Become(r, rec) /\ UNCHANGED <<store, provider>> /\ UNCHANGED faults
    BY <1>1 DEF StartRun
  <2> HIDE DEF rec
  <2>3. faults' \in 0..MaxFaults
    BY <2>2, FaultsTyped DEF IInv
  <2> QED
    BY <2>1, <2>2, <2>3, ControlKeeps
<1>2. ASSUME StartStale(r) PROVE IInv'
  <2> DEFINE rec == [Idle EXCEPT !.pc = "inventory", !.then = "stale"]
  <2>1. rec \in Run /\ rec.pc = "inventory" /\ rec.then = "stale" /\ rec.listed = {}
    BY <1>0, IdleTyped DEF Run, PCs
  <2>2. Become(r, rec) /\ UNCHANGED <<store, provider>> /\ UNCHANGED faults
    BY <1>2 DEF StartStale
  <2> HIDE DEF rec
  <2>3. faults' \in 0..MaxFaults
    BY <2>2, FaultsTyped DEF IInv
  <2> QED
    BY <2>1, <2>2, <2>3, ControlKeeps
<1>3. ASSUME NEW f \in Sessions \cup {0}, Observe(r, f) PROVE IInv'
  <2> DEFINE rec == [Idle EXCEPT !.pc = "upsert", !.fp = f]
  <2>1. rec \in Run /\ rec.pc = "upsert" /\ rec.listed = {}
    BY <1>0, IdleTyped DEF Run, PCs
  <2>2. Become(r, rec) /\ UNCHANGED <<store, provider>> /\ UNCHANGED faults
    BY <1>3 DEF Observe
  <2> HIDE DEF rec
  <2>3. faults' \in 0..MaxFaults
    BY <2>2, FaultsTyped DEF IInv
  <2> QED
    BY <2>1, <2>2, <2>3, ControlKeeps
<1> QED
  BY <1>1, <1>2, <1>3

LEMMA SessionsTyped ==
    IInv => DOMAIN sessions \subseteq Sessions /\ DOMAIN sessions = 1..Len(sessions)
BY InitialAssumption DEF IInv, TypeOK, Sessions

LEMMA InventoryKeeps ==
    ASSUME IInv, NEW r \in Runners,
           (\E listed \in SUBSET DOMAIN sessions : ListSessions(r, listed))
             \/ InventoryUnavailable(r) \/ StaleInventoryUnavailable(r)
    PROVE  IInv'
<1>0. run[r] \in Run /\ Job(r)
  BY DEF IInv, TypeOK
<1>1. ASSUME NEW listed \in SUBSET DOMAIN sessions, ListSessions(r, listed) PROVE IInv'
  <2> DEFINE rec == [run[r] EXCEPT !.pc = run[r].then, !.listed = listed, !.tries = 0]
  <2>1. /\ rec \in Run /\ rec.pc = run[r].then /\ rec.then = run[r].then /\ rec.spec = run[r].spec
        /\ rec.listed = listed
    <3>1. 0 \in 0..MaxAttempts /\ listed \in SUBSET Sessions
      BY SessionsTyped, InitialAssumption
    <3> QED
      BY <1>0, <3>1 DEF Run
  <2>2. Become(r, rec) /\ UNCHANGED <<store, provider>> /\ UNCHANGED faults /\ run[r].pc = "inventory"
    BY <1>1 DEF ListSessions, At
  <2>3. run[r].then \in {"snapshot", "stale"} /\ (run[r].then = "snapshot" => run[r].spec \in Specs)
    BY <1>0, <2>2 DEF Job
  <2>4. faults' \in 0..MaxFaults
    BY <2>2, FaultsTyped DEF IInv
  <2> HIDE DEF rec
  <2> QED
    BY <2>1, <2>2, <2>3, <2>4, ControlKeeps
<1>2. ASSUME RetryInventory(r), UNCHANGED <<store, provider, faults>>, run[r].pc = "inventory"
      PROVE  IInv'
  <2>1. CASE ~(run[r].tries + 1 < MaxAttempts)
    BY <1>2, <2>1, StopKeeps, FaultsTyped DEF RetryInventory, IInv
  <2>2. CASE run[r].tries + 1 < MaxAttempts
    <3> DEFINE rec == [run[r] EXCEPT !.tries = @ + 1]
    <3>1. /\ rec \in Run /\ rec.pc = run[r].pc /\ rec.then = run[r].then
          /\ rec.spec = run[r].spec /\ rec.listed = run[r].listed
      BY <1>0, <2>2, InitialAssumption DEF Run
    <3>2. Become(r, rec)
      BY <1>2, <2>2 DEF RetryInventory
    <3>3. run[r].then \in {"snapshot", "stale"} /\ run[r].listed \subseteq DOMAIN sessions
          /\ (run[r].then = "snapshot" => run[r].spec \in Specs)
      BY <1>0, <1>2 DEF Job
    <3> HIDE DEF rec
    <3> QED
      BY <1>2, <3>1, <3>2, <3>3, ControlKeeps, FaultsTyped DEF IInv
  <2> QED
    BY <2>1, <2>2
<1> QED
  BY <1>1, <1>2 DEF InventoryUnavailable, StaleInventoryUnavailable, At

LEMMA MatchingFound ==
    ASSUME IInv, NEW r \in Runners, NEW s, NEW found, found = Matching(run[r].listed, s),
           Cardinality(found) = 1
    PROVE  LET f == CHOOSE i \in found : TRUE
           IN  f \in DOMAIN sessions /\ f \in Sessions /\ sessions[f] = s
<1>1. run[r].listed \subseteq DOMAIN sessions
  BY DEF IInv, Job
<1>2. found # {}
  BY FS_EmptySet
<1> QED
  BY <1>1, <1>2, SessionsTyped DEF Matching

LEMMA ReconcileKeeps ==
    ASSUME IInv, NEW r \in Runners, ReconcileUnknown(r) \/ ReconcileStale(r)
    PROVE  IInv'
<1>0. run[r] \in Run /\ Job(r) /\ run[r].listed \subseteq DOMAIN sessions /\ lane \in Lane
  BY LaneTyped DEF IInv, TypeOK, Job
<1>1. ASSUME NEW k \in Specs, NEW s \in Specs, NEW found, found = Matching(run[r].listed, s),
             Cardinality(found) = 1, lane.exists, UNCHANGED <<store, provider, faults>>,
             Become(r, [run[r] EXCEPT !.pc = "confirm", !.key = k, !.spec = s,
                          !.fp = CHOOSE i \in found : TRUE])
      PROVE  IInv'
  <2> DEFINE f == CHOOSE i \in found : TRUE
  <2>1. f \in DOMAIN sessions /\ f \in Sessions /\ sessions[f] = s
    BY <1>1, MatchingFound
  <2>2. Become(r, [run[r] EXCEPT !.pc = "confirm", !.key = k, !.spec = s, !.fp = f])
    BY <1>1
  <2> HIDE DEF f
  <2> DEFINE rec == [run[r] EXCEPT !.pc = "confirm", !.key = k, !.spec = s, !.fp = f]
  <2>3. /\ rec \in Run /\ rec.pc = "confirm" /\ rec.key = k /\ rec.spec = s /\ rec.fp = f
        /\ rec.listed = run[r].listed
    BY <1>0, <2>1 DEF Run, PCs
  <2>4. Become(r, rec)
    BY <2>2
  <2> HIDE DEF rec
  <2> QED
    BY <1>0, <1>1, <2>1, <2>3, <2>4, ControlKeeps, FaultsTyped DEF IInv
<1>2. CASE ReconcileUnknown(r)
  <2>1. lane.unknown # None /\ lane.pending # None /\ UNCHANGED <<store, provider, faults>>
    BY <1>2 DEF ReconcileUnknown, PendingInitial
  <2>2. lane.unknown \in Specs /\ lane.pending \in Specs /\ lane.exists
    BY <1>0, <2>1 DEF Lane, IInv, LaneOK
  <2> DEFINE found == Matching(run[r].listed, lane.pending)
  <2>3. CASE Cardinality(found) = 1
    BY <1>1, <1>2, <2>1, <2>2, <2>3 DEF ReconcileUnknown
  <2>4. CASE Cardinality(found) # 1
    BY <1>2, <2>1, <2>4, StopKeeps, FaultsTyped DEF ReconcileUnknown, IInv
  <2> QED
    BY <2>3, <2>4
<1>3. CASE ReconcileStale(r)
  <2> DEFINE found == Matching(run[r].listed, StaleKey)
             leased == lane.lease.key = StaleKey /\ lane.lease.live
  <2>1. UNCHANGED <<store, provider, faults>>
    BY <1>3 DEF ReconcileStale
  <2>2. CASE IsStale /\ ~leased /\ Cardinality(found) = 1
    <3>1. StaleKey \in Specs /\ lane.exists
      BY <1>0, <2>2 DEF IsStale, StaleKey, Lane, Receipt, NoReceipt
    <3> QED
      BY <1>1, <1>3, <2>1, <2>2, <3>1 DEF ReconcileStale
  <2>3. CASE ~(IsStale /\ ~leased /\ Cardinality(found) = 1)
    BY <1>3, <2>1, <2>3, StopKeeps, FaultsTyped DEF ReconcileStale, IInv
  <2> QED
    BY <2>2, <2>3
<1> QED
  BY <1>2, <1>3

LEMMA SnapshotKeeps ==
    ASSUME IInv, NEW r \in Runners, Snapshot(r) \/ SnapshotUnread(r)
    PROVE  IInv'
<1>1. /\ run[r] \in Run /\ run[r].listed \subseteq DOMAIN sessions
      /\ run[r].spec \in Specs /\ UNCHANGED <<store, provider>>
  BY DEF IInv, TypeOK, Job, Snapshot, SnapshotUnread, At
<1>2. faults' \in 0..MaxFaults
  BY FaultsTyped DEF IInv, Snapshot, SnapshotUnread
<1>3. ASSUME NEW ok \in BOOLEAN,
             Become(r, [run[r] EXCEPT !.pc = "ensure", !.key = run[r].spec, !.policy = ok])
      PROVE  IInv'
  <2> DEFINE rec == [run[r] EXCEPT !.pc = "ensure", !.key = run[r].spec, !.policy = ok]
  <2>1. /\ rec \in Run /\ rec.pc = "ensure" /\ rec.key = run[r].spec /\ rec.spec = run[r].spec
        /\ rec.listed = run[r].listed
    BY <1>1 DEF Run, PCs
  <2>2. Become(r, rec)
    BY <1>3
  <2> HIDE DEF rec
  <2> QED
    BY <1>1, <1>2, <2>1, <2>2, ControlKeeps
<1>4. EffectAuthorized(lane) \in BOOLEAN
  BY DEF EffectAuthorized
<1> QED
  BY <1>1, <1>2, <1>3, <1>4, StopKeeps DEF Snapshot, SnapshotUnread

-----------------------------------------------------------------------------
(* Steps that write the lane's record *)

\* The write is performed or not; the binding is none of its business.
LEMMA LaneWriteKeeps ==
    ASSUME IInv, NEW r \in Runners, NEW P, Moved(r, P), NEW new \in Lane, lane' \in {new, lane},
           UNCHANGED <<ops, account, provider>>, faults' \in 0..MaxFaults,
           new.exists = lane.exists, new.gen = lane.gen, new.fp = lane.fp, new.tkey = lane.tkey,
           new.unknown # None => lane.unknown # None \/ lane.exists,
           Follows(r, P, lane.exists)
    PROVE  IInv'
<1>1. lane' \in Lane /\ lane'.exists = lane.exists
  BY LaneTyped DEF IInv
<1>2. LaneOK'
  BY <1>1, LaneKept
<1> QED
  BY <1>1, <1>2, LaneStep

LEMMA EnsureKeeps == ASSUME IInv, NEW r \in Runners, EnsureInitialLane(r) PROVE IInv'
<1> DEFINE new == [NoLane EXCEPT !.exists = TRUE]
<1>1. /\ run[r].pc = "ensure" /\ TypeOK /\ lane \in Lane
      /\ UNCHANGED <<ops, account, provider>>
  BY LaneTyped DEF EnsureInitialLane, At, IInv
<1>2. faults' \in 0..MaxFaults
  BY <1>1, FaultsTyped DEF EnsureInitialLane, ReadOnly, Write
<1>5. /\ new \in Lane /\ new.exists /\ new.gen = 0 /\ new.tkey = None
  BY NoLaneTyped DEF Lane, NoLane
<1>6. UNCHANGED lane \/ (~lane.exists /\ lane' = new)
  BY DEF EnsureInitialLane, Write
<1>7. Stop(r) \/ (Goto(r, "assess") /\ lane'.exists)
  BY <1>5 DEF EnsureInitialLane, ReadOnly, Write
<1> HIDE DEF new
<1>8. LaneOK' /\ lane' \in Lane /\ (lane.exists => lane'.exists)
  <2>1. CASE UNCHANGED lane
    BY <1>1, <2>1, LaneKept DEF IInv
  <2>2. CASE lane' = new /\ ~lane.exists
    BY <1>5, <2>2 DEF LaneOK, BoundToItsSpec
  <2> QED
    BY <1>6, <2>1, <2>2
<1>9. CASE Goto(r, "assess") /\ lane'.exists
  <2>1. Moved(r, {"assess"})
    BY <1>1, <1>9, GotoMoves DEF PCs
  <2> QED
    BY <1>1, <1>2, <1>8, <1>9, <2>1, LaneStep DEF Follows, Effect, Recording, Found, Claims, Entered
<1>10. CASE Stop(r)
  <2>1. Moved(r, {})
    BY <1>1, <1>10, StopMoves
  <2> QED
    BY <1>1, <1>2, <1>8, <2>1, LaneStep DEF Follows
<1> QED
  BY <1>7, <1>9, <1>10

LEMMA AssessKeeps == ASSUME IInv, NEW r \in Runners, Assess(r) PROVE IInv'
<1>1. /\ run[r].pc = "assess" /\ TypeOK /\ lane \in Lane /\ lane.exists
      /\ UNCHANGED <<lane, ops, account, provider>> /\ UNCHANGED faults
  BY LaneTyped DEF Assess, At, IInv, store, Job, Entered, Effect
<1>2. Moved(r, {"pending"})
  BY <1>1, StopMoves, GotoMoves DEF Assess, PCs
<1>3. LaneOK'
  BY <1>1, LaneKept
<1>4. faults' \in 0..MaxFaults
  BY <1>1, FaultsTyped
<1> QED
  BY <1>1, <1>2, <1>3, <1>4, LaneStep DEF Follows, Effect, Recording, Found, Claims, Entered

LEMMA PersistPendingKeeps == ASSUME IInv, NEW r \in Runners, PersistPending(r) PROVE IInv'
<1> DEFINE P == {"authorize"}
           new == [lane EXCEPT !.pending = run[r].spec, !.open = FALSE]
<1>1. /\ run[r].pc = "pending" /\ TypeOK /\ lane \in Lane /\ lane.exists /\ run[r].spec \in Specs
      /\ UNCHANGED <<ops, account, provider>>
  BY LaneTyped DEF PersistPending, At, IInv, Job, Effect, Entered
<1>2. faults' \in 0..MaxFaults
  BY <1>1, FaultsTyped DEF PersistPending, ReadOnly, Write
<1>3. Moved(r, P)
  BY <1>1, StopMoves, GotoMoves DEF PersistPending, ReadOnly, Write, PCs
<1>4. /\ new \in Lane /\ new.exists = lane.exists /\ new.gen = lane.gen /\ new.fp = lane.fp
      /\ new.tkey = lane.tkey /\ new.unknown = lane.unknown
  BY <1>1 DEF Lane
<1>5. lane' \in {new, lane}
  BY DEF PersistPending, Write
<1> HIDE DEF new
<1>9. Follows(r, P, lane.exists)
  BY <1>1 DEF Follows, Effect, Recording, Found, Claims, Entered
<1> HIDE DEF P
<1> QED
  BY <1>1, <1>2, <1>3, <1>4, <1>5, <1>9, LaneWriteKeeps

LEMMA AuthorizeKeeps == ASSUME IInv, NEW r \in Runners, Authorize(r) PROVE IInv'
<1> DEFINE P == {"claim"}
           new == [lane EXCEPT !.open = TRUE]
           rec == [run[r] EXCEPT !.pc = "claim", !.executing = TRUE]
<1>1. /\ run[r].pc = "authorize" /\ TypeOK /\ lane \in Lane /\ lane.exists /\ run[r] \in Run
      /\ UNCHANGED <<ops, account, provider>>
  BY LaneTyped DEF Authorize, At, IInv, Job, Effect, Entered, TypeOK
<1>2. faults' \in 0..MaxFaults
  BY <1>1, FaultsTyped DEF Authorize, Write
<1>3. /\ rec \in Run /\ rec.pc = "claim" /\ rec.spec = run[r].spec /\ rec.key = run[r].key
      /\ rec.fp = run[r].fp /\ rec.listed = run[r].listed
  BY <1>1 DEF Run, PCs
<1>4. Stop(r) \/ Become(r, rec)
  BY DEF Authorize, Write
<1>5. /\ new \in Lane /\ new.exists = lane.exists /\ new.gen = lane.gen /\ new.fp = lane.fp
      /\ new.tkey = lane.tkey /\ new.unknown = lane.unknown
  BY <1>1 DEF Lane
<1>6. lane' \in {new, lane}
  BY DEF Authorize, Write
<1> HIDE DEF new, rec
<1>7. Moved(r, P)
  BY <1>1, <1>3, <1>4, StopMoves, BecomeMoves DEF Moved
<1>9. Follows(r, P, lane.exists)
  BY <1>1 DEF Follows, Effect, Recording, Found, Claims, Entered
<1> HIDE DEF P
<1> QED
  BY <1>1, <1>2, <1>5, <1>6, <1>7, <1>9, LaneWriteKeeps

LEMMA ClaimReadKeeps == ASSUME IInv, NEW r \in Runners, ClaimRead(r) PROVE IInv'
<1>1. /\ run[r].pc = "claim" /\ TypeOK /\ lane \in Lane /\ lane.exists
      /\ UNCHANGED <<lane, ops, account, provider>>
  BY LaneTyped DEF ClaimRead, At, IInv, store, Job, Entered, Effect
<1>2. Moved(r, {"lease", "restore"})
  BY <1>1, LeaveMoves, GotoMoves DEF ClaimRead, ReadOnly, PCs
<1>3. LaneOK'
  BY <1>1, LaneKept
<1>4. faults' \in 0..MaxFaults
  BY <1>1, FaultsTyped DEF ClaimRead, ReadOnly
<1> QED
  BY <1>1, <1>2, <1>3, <1>4, LaneStep DEF Follows, Effect, Recording, Found, Claims, Entered

LEMMA AcquireLeaseKeeps == ASSUME IInv, NEW r \in Runners, AcquireLease(r) PROVE IInv'
<1> DEFINE P == {"claimop", "restore"}
           new == [lane EXCEPT !.lease = [holder |-> r, key |-> run[r].key, live |-> TRUE]]
<1>1. /\ run[r].pc = "lease" /\ TypeOK /\ lane \in Lane /\ lane.exists /\ run[r].key \in Specs
      /\ UNCHANGED <<ops, account, provider>>
  BY LaneTyped DEF AcquireLease, At, IInv, Job, Effect, Entered
<1>2. faults' \in 0..MaxFaults
  BY <1>1, FaultsTyped DEF AcquireLease, Write
<1>3. Moved(r, P)
  BY <1>1, LeaveMoves, GotoMoves DEF AcquireLease, Write, PCs
<1>4. /\ new \in Lane /\ new.exists = lane.exists /\ new.gen = lane.gen /\ new.fp = lane.fp
      /\ new.tkey = lane.tkey /\ new.unknown = lane.unknown
  BY <1>1 DEF Lane, Lease
<1>5. lane' \in {new, lane}
  BY DEF AcquireLease, Write
<1> HIDE DEF new
<1>9. Follows(r, P, lane.exists)
  BY <1>1 DEF Follows, Effect, Recording, Found, Claims, Entered
<1> HIDE DEF P
<1> QED
  BY <1>1, <1>2, <1>3, <1>4, <1>5, <1>9, LaneWriteKeeps

LEMMA MarkLaneKeeps == ASSUME IInv, NEW r \in Runners, MarkLane(r) PROVE IInv'
<1> DEFINE P == {"send", "restore"}
           new == [lane EXCEPT !.opkey = run[r].key,
                     !.receipt = [key |-> run[r].key, state |-> "IN_FLIGHT", fp |-> 0]]
<1>1. /\ run[r].pc = "mark" /\ TypeOK /\ lane \in Lane /\ lane.exists /\ run[r].key \in Specs
      /\ UNCHANGED <<ops, account, provider>>
  BY LaneTyped DEF MarkLane, At, IInv, Job, Effect, Entered
<1>2. faults' \in 0..MaxFaults
  BY <1>1, FaultsTyped DEF MarkLane, Write
<1>3. Moved(r, P)
  BY <1>1, LeaveMoves, GotoMoves DEF MarkLane, Write, PCs
<1>4. /\ new \in Lane /\ new.exists = lane.exists /\ new.gen = lane.gen /\ new.fp = lane.fp
      /\ new.tkey = lane.tkey /\ new.unknown = lane.unknown
  BY <1>1 DEF Lane, Receipt
<1>5. lane' \in {new, lane}
  BY DEF MarkLane, Write
<1> HIDE DEF new
<1>9. Follows(r, P, lane.exists)
  BY <1>1 DEF Follows, Effect, Recording, Found, Claims, Entered
<1> HIDE DEF P
<1> QED
  BY <1>1, <1>2, <1>3, <1>4, <1>5, <1>9, LaneWriteKeeps

LEMMA ReleaseLeaseKeeps == ASSUME IInv, NEW r \in Runners, ReleaseLease(r) PROVE IInv'
<1> DEFINE P == {"restore"}
           new == [lane EXCEPT !.lease = NoLease]
<1>1. TypeOK /\ lane \in Lane /\ UNCHANGED <<ops, account, provider>>
  BY LaneTyped DEF ReleaseLease, IInv
<1>2. faults' \in 0..MaxFaults
  BY <1>1, FaultsTyped DEF ReleaseLease, Write
<1>3. Moved(r, P)
  BY <1>1, LeaveMoves DEF ReleaseLease, Write
<1>4. /\ new \in Lane /\ new.exists = lane.exists /\ new.gen = lane.gen /\ new.fp = lane.fp
      /\ new.tkey = lane.tkey /\ new.unknown = lane.unknown
  BY <1>1 DEF Lane
<1>5. lane' \in {new, lane}
  BY DEF ReleaseLease, Write
<1> HIDE DEF new
<1>9. Follows(r, P, lane.exists)
  BY <1>1 DEF Follows, Effect, Recording, Found, Claims, Entered
<1> HIDE DEF P
<1> QED
  BY <1>1, <1>2, <1>3, <1>4, <1>5, <1>9, LaneWriteKeeps

LEMMA RecordUnknownLaneKeeps == ASSUME IInv, NEW r \in Runners, RecordUnknownLane(r) PROVE IInv'
<1> DEFINE P == {"restore"}
           new == [lane EXCEPT !.unknown = run[r].key,
                     !.receipt = [key |-> run[r].key, state |-> "UNKNOWN", fp |-> 0]]
<1>1. /\ run[r].pc = "unknownlane" /\ TypeOK /\ lane \in Lane /\ lane.exists /\ run[r].key \in Specs
      /\ UNCHANGED <<ops, account, provider>>
  BY LaneTyped DEF RecordUnknownLane, At, IInv, Job, Recording, Entered
<1>2. faults' \in 0..MaxFaults
  BY <1>1, FaultsTyped DEF RecordUnknownLane, Write
<1>3. Moved(r, P)
  BY <1>1, LeaveMoves DEF RecordUnknownLane, Write
<1>4. /\ new \in Lane /\ new.exists = lane.exists /\ new.gen = lane.gen /\ new.fp = lane.fp
      /\ new.tkey = lane.tkey
  BY <1>1 DEF Lane, Receipt
<1>5. lane' \in {new, lane}
  BY DEF RecordUnknownLane, Write
<1> HIDE DEF new
<1>9. Follows(r, P, lane.exists)
  BY <1>1 DEF Follows, Effect, Recording, Found, Claims, Entered
<1> HIDE DEF P
<1> QED
  BY <1>1, <1>2, <1>3, <1>4, <1>5, <1>9, LaneWriteKeeps

LEMMA RecordReadbackLaneKeeps == ASSUME IInv, NEW r \in Runners, RecordReadbackLane(r) PROVE IInv'
<1> DEFINE P == {"bind", "restore"}
           lease == IF lane.lease.key = run[r].key THEN NoLease ELSE lane.lease
           new == [lane EXCEPT !.unknown = None,
                     !.receipt = [key |-> run[r].key, state |-> "CONFIRMED", fp |-> run[r].fp],
                     !.lease = lease]
<1>1. /\ run[r].pc = "confirmlane" /\ TypeOK /\ lane \in Lane /\ lane.exists /\ run[r].key \in Specs
      /\ run[r].fp \in Sessions \cup {0} /\ UNCHANGED <<ops, account, provider>>
  BY LaneTyped DEF RecordReadbackLane, At, IInv, Job, Recording, Found, Entered, TypeOK, Run
<1>2. faults' \in 0..MaxFaults
  BY <1>1, FaultsTyped DEF RecordReadbackLane, Write
<1>3. Moved(r, P)
  BY <1>1, LeaveMoves, GotoMoves DEF RecordReadbackLane, Write, PCs
<1>4. lease \in Lease \cup {NoLease}
  BY <1>1 DEF Lane
<1>5. lane' \in {new, lane}
  BY DEF RecordReadbackLane, Write
<1> HIDE DEF lease
<1>6. /\ new \in Lane /\ new.exists = lane.exists /\ new.gen = lane.gen /\ new.fp = lane.fp
      /\ new.tkey = lane.tkey /\ new.unknown = None
  BY <1>1, <1>4 DEF Lane, Receipt
<1> HIDE DEF new
<1>9. Follows(r, P, lane.exists)
  BY <1>1 DEF Follows, Effect, Recording, Found, Claims, Entered
<1> HIDE DEF P
<1> QED
  BY <1>1, <1>2, <1>3, <1>5, <1>6, <1>9, LaneWriteKeeps

LEMMA RestoreShadowKeeps == ASSUME IInv, NEW r \in Runners, RestoreShadow(r) PROVE IInv'
<1> DEFINE P == {"restore"}
           new == [lane EXCEPT !.open = FALSE]
<1>1. TypeOK /\ lane \in Lane /\ UNCHANGED <<ops, account, provider>>
  BY LaneTyped DEF RestoreShadow, IInv
<1>2. faults' \in 0..MaxFaults
  BY <1>1, FaultsTyped DEF RestoreShadow, ReadOnly, Write
<1>3. Moved(r, P)
  BY <1>1, StopMoves DEF RestoreShadow, ReadOnly, Write
<1>4. /\ new \in Lane /\ new.exists = lane.exists /\ new.gen = lane.gen /\ new.fp = lane.fp
      /\ new.tkey = lane.tkey /\ new.unknown = lane.unknown
  BY <1>1 DEF Lane
<1>5. lane' \in {new, lane}
  BY DEF RestoreShadow, ReadOnly, Write
<1> HIDE DEF new
<1>9. Follows(r, P, lane.exists)
  BY DEF Follows, Effect, Recording, Found, Claims, Entered
<1> HIDE DEF P
<1> QED
  BY <1>1, <1>2, <1>3, <1>4, <1>5, <1>9, LaneWriteKeeps

\* The session that is bound carries the marker of the specification it is bound for.
LEMMA PersistBindingKeeps == ASSUME IInv, NEW r \in Runners, PersistBinding(r) PROVE IInv'
<1> DEFINE P == {"account", "unknown"}
           new == Bound(lane, run[r].spec, run[r].fp)
<1>1. /\ run[r].pc = "bind" /\ TypeOK /\ lane \in Lane /\ lane.exists /\ run[r].spec \in Specs
      /\ run[r].fp \in DOMAIN sessions /\ sessions[run[r].fp] = run[r].spec
      /\ UNCHANGED <<ops, account, provider>> /\ UNCHANGED sessions
  BY LaneTyped DEF PersistBinding, At, IInv, Job, Recording, Found, Entered, provider
<1>2. faults' \in 0..MaxFaults
  BY <1>1, FaultsTyped DEF PersistBinding, ReadOnly, Write
<1>3. Moved(r, P)
  BY <1>1, GotoMoves DEF PersistBinding, ReadOnly, Write, PCs
<1>4. run[r].fp \in Sessions /\ run[r].fp # 0 /\ 1 \in 0..MaxGeneration
  BY <1>1, SessionsTyped, InitialAssumption DEF Sessions, MaxGeneration
<1>5. /\ new \in Lane /\ new.exists = lane.exists /\ new.gen = 1 /\ new.fp = run[r].fp
      /\ new.tkey = run[r].spec /\ new.unknown = None
  BY <1>1, <1>4 DEF Lane, Bound
<1>6. lane' \in {new, lane}
  BY DEF PersistBinding, ReadOnly, Write
<1> HIDE DEF new
<1>7. ops[run[r].spec] # "MISSING"
  BY <1>1 DEF IInv, RequestedClaimed, Requested
<1>8. LaneOK' /\ lane' \in Lane /\ lane'.exists
  <2>1. CASE lane' = new
    BY <1>1, <1>4, <1>5, <1>7, <2>1 DEF LaneOK, BoundToItsSpec
  <2>2. CASE lane' = lane
    BY <1>1, <2>2, LaneKept
  <2> QED
    BY <1>6, <2>1, <2>2
<1>9. Follows(r, P, lane'.exists)
  BY <1>1, <1>8 DEF Follows, Effect, Recording, Found, Claims, Entered
<1> HIDE DEF P
<1> QED
  BY <1>1, <1>2, <1>3, <1>8, <1>9, LaneStep

\* An observation writes a session and no transition.
LEMMA UpsertKeeps == ASSUME IInv, NEW r \in Runners, Upsert(r) PROVE IInv'
<1> DEFINE P == {"restore"}
           f == run[r].fp
           new == Observed(lane, f)
<1>1. /\ TypeOK /\ lane \in Lane /\ f \in Sessions \cup {0} /\ UNCHANGED <<ops, account, provider>>
      /\ LaneOK
  BY LaneTyped DEF Upsert, IInv, TypeOK, Run
<1>2. faults' \in 0..MaxFaults
  BY <1>1, FaultsTyped DEF Upsert, Write
<1>3. Moved(r, P)
  BY <1>1, StopMoves DEF Upsert, Write
<1>4. lane' \in {new, lane} /\ new.gen <= MaxGeneration
  BY DEF Upsert, Write
<1> HIDE DEF f
<1>5. /\ new.exists /\ new.tkey = None /\ new.unknown = lane.unknown
      /\ new.gen = (IF f \notin {0, lane.fp} THEN lane.gen + 1 ELSE lane.gen)
      /\ new.fp = (IF f \notin {0, lane.fp} THEN f ELSE lane.fp)
  BY <1>1 DEF Lane, Observed
<1>6. lane.gen \in Nat /\ MaxGeneration \in Nat
  BY <1>1, InitialAssumption DEF Lane, MaxGeneration
<1>7. new \in Lane
  <2> DEFINE g == IF f \notin {0, lane.fp} THEN lane.gen + 1 ELSE lane.gen
             h == IF f \notin {0, lane.fp} THEN f ELSE lane.fp
  <2>1. g \in 0..MaxGeneration
    BY <1>1, <1>4, <1>5, <1>6
  <2>2. h \in Sessions \cup {0}
    BY <1>1 DEF Lane
  <2>3. new = [lane EXCEPT !.exists = TRUE, !.gen = g, !.fp = h,
                 !.tkey = None, !.pending = None, !.open = FALSE]
    BY DEF Observed
  <2> HIDE DEF g, h
  <2> QED
    BY <1>1, <2>1, <2>2, <2>3 DEF Lane
<1>8. new.gen > 0 => new.fp # 0
  BY <1>1, <1>5, <1>6 DEF LaneOK
<1> HIDE DEF new
<1>9. LaneOK' /\ lane' \in Lane /\ (lane.exists => lane'.exists)
  <2>1. CASE lane' = new
    BY <1>5, <1>7, <1>8, <2>1 DEF LaneOK, BoundToItsSpec
  <2>2. CASE lane' = lane
    BY <1>1, <2>2, LaneKept
  <2> QED
    BY <1>4, <2>1, <2>2
<1>10. Follows(r, P, lane'.exists)
  BY DEF Follows, Effect, Recording, Found, Claims, Entered
<1> HIDE DEF P
<1> QED
  BY <1>1, <1>2, <1>3, <1>9, <1>10, LaneStep

LEMMA CrashKeeps == ASSUME IInv, NEW r \in Runners, Crash(r) PROVE IInv'
<1>1. faults' \in 0..MaxFaults
  BY FaultsTyped DEF IInv, Crash
<1> QED
  BY <1>1, StopKeeps DEF Crash

LEMMA ExpireLeaseKeeps == ASSUME IInv, ExpireLease PROVE IInv'
<1> DEFINE new == [lane EXCEPT !.lease.live = FALSE]
<1>1. /\ lane \in Lane /\ lane.lease.live /\ lane' = new
      /\ UNCHANGED <<ops, account, provider, run, faults>>
      /\ UNCHANGED <<ops, account, sessions, late, run, faults>>
  BY LaneTyped DEF ExpireLease, IInv, provider
<1>2. lane.lease \in Lease
  BY <1>1 DEF Lane, NoLease
<1>3. /\ new \in Lane /\ new.exists = lane.exists /\ new.gen = lane.gen /\ new.fp = lane.fp
      /\ new.tkey = lane.tkey /\ new.unknown = lane.unknown
  BY <1>1, <1>2 DEF Lane, Lease
<1> HIDE DEF new
<1>4. LaneOK'
  BY <1>1, <1>3, LaneKept DEF provider
<1>5. UNCHANGED Requested
  BY <1>1 DEF Requested
<1>6. \A r \in Runners : Job(r)'
  BY <1>1, <1>3, <1>5 DEF IInv, Job
<1>7. TypeOK' /\ Exclusive' /\ RequestedClaimed' /\ OneSessionPerSpec' /\ Counting'
  BY <1>1, <1>3, <1>5 DEF IInv, TypeOK, Exclusive, RequestedClaimed, OneSessionPerSpec, Counting, Runners
<1> QED
  BY <1>1, <1>4, <1>6, <1>7 DEF IInv, Runners

-----------------------------------------------------------------------------
(* Steps that write an operation *)

\* A write of a claimed operation that leaves it claimed.
LEMMA OpsWriteKeeps ==
    ASSUME IInv, NEW r \in Runners, NEW P, Moved(r, P), NEW k \in Specs,
           NEW v \in OpStates \ {"MISSING"}, ops' \in {[ops EXCEPT ![k] = v], ops},
           UNCHANGED <<lane, account, provider>>, faults' \in 0..MaxFaults,
           Follows(r, P, lane.exists)
    PROVE  IInv'
<1>1. lane \in Lane /\ ops \in [Specs -> OpStates] /\ UNCHANGED lane /\ UNCHANGED account
  BY LaneTyped DEF IInv, TypeOK
<1>2. /\ ops' \in [Specs -> OpStates]
      /\ \A s \in Specs : ops[s] # "MISSING" => ops'[s] # "MISSING"
  BY <1>1
<1>3. LaneOK'
  BY <1>1, <1>2, LaneKept
<1>4. Job(r)'
  BY <1>1, <1>2, MovedJob
<1>5. run'[r].pc \in Claims => run[r].pc \in Claims /\ run'[r].spec = run[r].spec
  BY MovedClaims DEF Follows
<1>6. account' \in [count : Nat, seen : SUBSET Specs] /\ Counting'
  BY <1>1 DEF IInv, TypeOK, Counting
<1>7. run' \in [Runners -> Run] /\ \A q \in Runners \ {r} : run'[q] = run[q]
  BY DEF Moved
<1> QED
  BY <1>1, <1>2, <1>3, <1>4, <1>5, <1>6, <1>7, StoreStep

LEMMA RecordUnknownKeeps == ASSUME IInv, NEW r \in Runners, RecordUnknown(r) PROVE IInv'
<1> DEFINE P == {"unknownlane", "restore"}
<1>1. /\ run[r].pc = "unknown" /\ TypeOK /\ lane.exists /\ run[r].key \in Specs
      /\ UNCHANGED <<lane, account, provider>>
  BY DEF RecordUnknown, At, IInv, Job, Recording, Entered
<1>2. faults' \in 0..MaxFaults
  BY <1>1, FaultsTyped DEF RecordUnknown, Write
<1>3. Moved(r, P)
  BY <1>1, LeaveMoves, GotoMoves DEF RecordUnknown, Write, PCs
<1>4. ops' \in {[ops EXCEPT ![run[r].key] = "UNKNOWN"], ops}
  BY DEF RecordUnknown, Write
<1>5. Follows(r, P, lane.exists)
  BY <1>1 DEF Follows, Effect, Recording, Found, Claims, Entered
<1>6. "UNKNOWN" \in OpStates \ {"MISSING"}
  BY DEF OpStates
<1> HIDE DEF P
<1> QED
  BY <1>1, <1>2, <1>3, <1>4, <1>5, <1>6, OpsWriteKeeps

LEMMA RecordReadbackKeeps == ASSUME IInv, NEW r \in Runners, RecordReadback(r) PROVE IInv'
<1> DEFINE P == {"confirmlane", "restore"}
<1>1. /\ run[r].pc = "confirm" /\ TypeOK /\ lane.exists /\ run[r].key \in Specs
      /\ UNCHANGED <<lane, account, provider>>
  BY DEF RecordReadback, At, IInv, Job, Recording, Found, Entered
<1>2. faults' \in 0..MaxFaults
  BY <1>1, FaultsTyped DEF RecordReadback, Write
<1>3. Moved(r, P)
  BY <1>1, LeaveMoves, GotoMoves DEF RecordReadback, Write, PCs
<1>4. ops' \in {[ops EXCEPT ![run[r].key] = "CONFIRMED"], ops}
  BY DEF RecordReadback, Write
<1>5. Follows(r, P, lane.exists)
  BY <1>1 DEF Follows, Effect, Recording, Found, Claims, Entered
<1>6. "CONFIRMED" \in OpStates \ {"MISSING"}
  BY DEF OpStates
<1> HIDE DEF P
<1> QED
  BY <1>1, <1>2, <1>3, <1>4, <1>5, <1>6, OpsWriteKeeps

\* The claim is the job's alone: the operation was missing, so nobody has claimed it and,
\* as what was asked for was claimed, the provider was not asked for it.
LEMMA ClaimOperationKeeps == ASSUME IInv, NEW r \in Runners, ClaimOperation(r) PROVE IInv'
<1> DEFINE k == run[r].key
<1>1. /\ run[r].pc = "claimop" /\ TypeOK /\ lane \in Lane /\ lane.exists /\ k \in Specs
      /\ run[r].spec = k /\ run[r].listed \subseteq DOMAIN sessions
      /\ UNCHANGED <<lane, account, provider>>
  BY LaneTyped DEF ClaimOperation, At, IInv, Job, Effect, Entered
<1>2. faults' \in 0..MaxFaults
  BY <1>1, FaultsTyped DEF ClaimOperation, Write
<1>3. CASE Goto(r, "release") /\ ops' \in {[ops EXCEPT ![k] = "IN_FLIGHT"], ops}
  <2>1. Moved(r, {"release"})
    BY <1>1, <1>3, GotoMoves DEF PCs
  <2>2. "IN_FLIGHT" \in OpStates \ {"MISSING"} /\ Follows(r, {"release"}, lane.exists)
    BY <1>1 DEF OpStates, Follows, Effect, Recording, Found, Claims, Entered
  <2> QED
    BY <1>1, <1>2, <1>3, <2>1, <2>2, OpsWriteKeeps
<1>4. CASE Goto(r, "mark") /\ ops[k] = "MISSING" /\ ops' = [ops EXCEPT ![k] = "IN_FLIGHT"]
  <2> DEFINE rec == [run[r] EXCEPT !.pc = "mark"]
  <2>1. /\ rec \in Run /\ rec.pc = "mark" /\ rec.spec = k /\ rec.key = k
        /\ rec.listed = run[r].listed
    <3>1. run[r] \in Run
      BY <1>1 DEF TypeOK
    <3> QED
      BY <1>1, <3>1 DEF Run, PCs
  <2>2. Become(r, rec)
    BY <1>4 DEF Goto
  <2> HIDE DEF rec
  <2>3. /\ run' \in [Runners -> Run] /\ run'[r] = rec
        /\ \A q \in Runners \ {r} : run'[q] = run[q]
    BY <1>1, <2>1, <2>2, BecomeMoves
  <2>4. ops \in [Specs -> OpStates] /\ UNCHANGED lane /\ UNCHANGED account /\ UNCHANGED sessions
        /\ UNCHANGED Requested
    BY <1>1 DEF TypeOK, provider, Requested
  <2>5. /\ ops' \in [Specs -> OpStates] /\ ops'[k] = "IN_FLIGHT"
        /\ \A s \in Specs : ops[s] # "MISSING" => ops'[s] # "MISSING"
    BY <1>1, <1>4, <2>4 DEF OpStates
  <2>6. k \notin Requested
    BY <1>4 DEF IInv, RequestedClaimed
  <2>7. Job(r)'
    BY <1>1, <2>1, <2>3, <2>4, <2>5, <2>6 DEF Job, Effect, Recording, Found, Claims, Entered
  <2>8. LaneOK'
    BY <1>1, <2>4, <2>5, LaneKept
  <2>9. account' \in [count : Nat, seen : SUBSET Specs] /\ Counting'
    BY <2>4 DEF IInv, TypeOK, Counting
  <2> QED
    BY <1>1, <1>2, <1>4, <2>1, <2>3, <2>4, <2>5, <2>7, <2>8, <2>9, StoreStep
<1> QED
  BY <1>3, <1>4 DEF ClaimOperation, Write, SafeToExecute

-----------------------------------------------------------------------------
(* The budget *)

LEMMA AccountKeeps == ASSUME IInv, NEW r \in Runners, RecordConfirmedGeneration(r) PROVE IInv'
<1> DEFINE P == {"unknown", "restore"}
           new == [count |-> account.count + 1, seen |-> account.seen \cup {run[r].key}]
<1>1. /\ run[r].pc = "account" /\ TypeOK /\ lane \in Lane /\ lane.exists /\ run[r].key \in Specs
      /\ UNCHANGED <<lane, ops, provider>> /\ UNCHANGED lane /\ UNCHANGED ops
      /\ account \in [count : Nat, seen : SUBSET Specs]
  BY LaneTyped DEF RecordConfirmedGeneration, At, IInv, Job, Recording, Found, Entered, TypeOK
<1>2. faults' \in 0..MaxFaults
  BY <1>1, FaultsTyped DEF RecordConfirmedGeneration, ReadOnly, Write
<1>3. Moved(r, P)
  BY <1>1, LeaveMoves, GotoMoves DEF RecordConfirmedGeneration, ReadOnly, Write, PCs
<1>4. account' = account \/ (run[r].key \notin account.seen /\ account' = new)
  BY DEF RecordConfirmedGeneration, Write
<1>5. account' \in [count : Nat, seen : SUBSET Specs]
  BY <1>1, <1>4
<1>6. Counting'
  <2>1. IsFiniteSet(account.seen) /\ account.count = Cardinality(account.seen)
    BY DEF IInv, Counting
  <2>2. CASE account' = account
    BY <2>1, <2>2 DEF Counting
  <2>3. CASE run[r].key \notin account.seen /\ account' = new
    <3>1. account'.count = account.count + 1 /\ account'.seen = account.seen \cup {run[r].key}
      BY <2>3
    <3>2. /\ IsFiniteSet(account.seen \cup {run[r].key})
          /\ Cardinality(account.seen \cup {run[r].key}) = Cardinality(account.seen) + 1
      BY <2>1, <2>3, FS_AddElement
    <3> QED
      BY <2>1, <3>1, <3>2 DEF Counting
  <2> QED
    BY <1>4, <2>2, <2>3
<1>7. Follows(r, P, lane'.exists)
  BY <1>1 DEF Follows, Effect, Recording, Found, Claims, Entered
<1> HIDE DEF P
<1>8. LaneOK'
  BY <1>1, LaneKept
<1>9. Job(r)'
  BY <1>1, <1>3, <1>7, MovedJob
<1>10. run'[r].pc \in Claims => run[r].pc \in Claims /\ run'[r].spec = run[r].spec
  BY <1>3, <1>7, MovedClaims DEF Follows
<1>11. run' \in [Runners -> Run] /\ \A q \in Runners \ {r} : run'[q] = run[q]
  BY <1>3 DEF Moved
<1>12. ops' \in [Specs -> OpStates]
  BY <1>1 DEF TypeOK
<1> QED
  BY <1>1, <1>2, <1>5, <1>6, <1>8, <1>9, <1>10, <1>11, <1>12, StoreStep

-----------------------------------------------------------------------------
(* Steps of the provider *)

\* The session of s, which nobody else has claimed, is asked for or created.
LEMMA ProviderStep ==
    ASSUME IInv, NEW s \in Specs, ops[s] # "MISSING", UNCHANGED <<store, faults>>,
           sessions' \in Seq(Specs), Len(sessions') <= MaxSessions, late' \subseteq Specs,
           \A i \in DOMAIN sessions : i \in DOMAIN sessions' /\ sessions'[i] = sessions[i],
           Requested' \subseteq Requested \cup {s}, OneSessionPerSpec',
           run' \in [Runners -> Run],
           \A q \in Runners : \/ run'[q] = run[q] /\ (run[q].pc \in Claims => run[q].spec # s)
                              \/ run'[q].pc \notin Claims /\ Job(q)'
    PROVE  IInv'
<1>1. /\ UNCHANGED <<lane, ops, account, faults>> /\ UNCHANGED lane /\ UNCHANGED ops
      /\ UNCHANGED account /\ UNCHANGED faults
  BY DEF store
<1>2. TypeOK' /\ Counting'
  BY <1>1 DEF IInv, TypeOK, Counting, Runners
<1>3. \A q \in Runners : Job(q)'
  <2> SUFFICES ASSUME NEW q \in Runners, run'[q] = run[q], run[q].pc \in Claims => run[q].spec # s
               PROVE  Job(q)'
    OBVIOUS
  <2>1. Job(q)
    BY DEF IInv
  <2>2. run[q].listed \subseteq DOMAIN sessions'
    BY <2>1 DEF Job
  <2> QED
    BY <1>1, <2>1, <2>2 DEF Job
<1>4. Exclusive'
  <2>1. \A q \in Runners : run'[q].pc \in Claims => run'[q] = run[q]
    OBVIOUS
  <2> QED
    BY <2>1 DEF IInv, Exclusive, Runners
<1>5. LaneOK'
  BY <1>1 DEF IInv, LaneOK, BoundToItsSpec
<1>6. RequestedClaimed'
  BY <1>1 DEF IInv, RequestedClaimed
<1> QED
  BY <1>2, <1>3, <1>4, <1>5, <1>6 DEF IInv, Runners

\* A session is added after those there are.
LEMMA CreateAdds ==
    ASSUME IInv, NEW s \in Specs, Create(s), s \notin Created, s \notin late', late' \subseteq late
    PROVE  /\ sessions' \in Seq(Specs) /\ Len(sessions') <= MaxSessions
           /\ \A i \in DOMAIN sessions : i \in DOMAIN sessions' /\ sessions'[i] = sessions[i]
           /\ Len(sessions) + 1 \in DOMAIN sessions' /\ sessions'[Len(sessions) + 1] = s
           /\ Len(sessions) + 1 \in Sessions
           /\ Requested' \subseteq Requested \cup {s}
           /\ OneSessionPerSpec'
<1>1. sessions \in Seq(Specs) /\ Len(sessions) < MaxSessions /\ sessions' = Append(sessions, s)
  BY DEF IInv, TypeOK, Create
<1>2. /\ sessions' \in Seq(Specs) /\ Len(sessions') = Len(sessions) + 1
      /\ DOMAIN sessions = 1..Len(sessions) /\ DOMAIN sessions' = 1..(Len(sessions) + 1)
      /\ \A i \in DOMAIN sessions : sessions'[i] = sessions[i]
      /\ sessions'[Len(sessions) + 1] = s /\ Len(sessions) \in Nat
  BY <1>1
<1>3. /\ Len(sessions') <= MaxSessions /\ Len(sessions) + 1 \in Sessions
      /\ \A i \in DOMAIN sessions : i \in DOMAIN sessions'
      /\ \A i \in DOMAIN sessions' : i \in DOMAIN sessions \/ i = Len(sessions) + 1
      /\ Len(sessions) + 1 \in DOMAIN sessions'
  BY <1>1, <1>2, InitialAssumption DEF Sessions
<1>4. Requested' \subseteq Requested \cup {s}
  BY <1>2, <1>3 DEF Requested
<1>5. OneSessionPerSpec'
  <2>1. /\ \A i, j \in DOMAIN sessions : sessions[i] = sessions[j] => i = j
        /\ \A i \in DOMAIN sessions : sessions[i] \notin late /\ sessions[i] # s
    BY DEF IInv, OneSessionPerSpec, Created
  <2>2. ASSUME NEW i \in DOMAIN sessions', NEW j \in DOMAIN sessions', sessions'[i] = sessions'[j]
        PROVE  i = j
    BY <1>2, <1>3, <2>1, <2>2
  <2>3. ASSUME NEW i \in DOMAIN sessions' PROVE sessions'[i] \notin late'
    BY <1>2, <1>3, <2>1
  <2> QED
    BY <2>2, <2>3 DEF OneSessionPerSpec
<1> QED
  BY <1>2, <1>3, <1>4, <1>5

\* At the create, the job has the only claim and the provider was not asked.
LEMMA SendFacts ==
    ASSUME IInv, NEW r \in Runners, run[r].pc = "send"
    PROVE  /\ run[r] \in Run /\ run[r].spec \in Specs /\ run[r].key = run[r].spec /\ lane.exists
           /\ ops[run[r].spec] # "MISSING"
           /\ run[r].spec \notin late /\ run[r].spec \notin Created
           /\ run[r].listed \subseteq DOMAIN sessions
           /\ \A q \in Runners \ {r} : run[q].pc \in Claims => run[q].spec # run[r].spec
<1>1. Job(r) /\ run[r].pc \in Claims /\ run[r].pc \in Effect /\ run[r].pc \in Entered
  BY DEF IInv, Claims, Effect, Entered
<1>2. run[r].spec \notin Requested
  BY <1>1 DEF Job
<1> QED
  BY <1>1, <1>2 DEF Job, IInv, TypeOK, Exclusive, Requested, Created

LEMMA CreateConfirmedKeeps == ASSUME IInv, NEW r \in Runners, CreateConfirmed(r) PROVE IInv'
<1> DEFINE s == run[r].spec
           n == Len(sessions) + 1
           rec == [run[r] EXCEPT !.pc = "confirm", !.fp = n]
<1>1. /\ run[r].pc = "send" /\ Create(s) /\ Become(r, rec) /\ UNCHANGED late
      /\ UNCHANGED <<store, faults>> /\ UNCHANGED lane
  BY DEF CreateConfirmed, At, store
<1>2. /\ run[r] \in Run /\ s \in Specs /\ run[r].key = s /\ lane.exists /\ ops[s] # "MISSING"
      /\ s \notin late /\ s \notin Created /\ run[r].listed \subseteq DOMAIN sessions
      /\ \A q \in Runners \ {r} : run[q].pc \in Claims => run[q].spec # s
  BY <1>1, SendFacts
<1> HIDE DEF s
<1>3. /\ sessions' \in Seq(Specs) /\ Len(sessions') <= MaxSessions
      /\ \A i \in DOMAIN sessions : i \in DOMAIN sessions' /\ sessions'[i] = sessions[i]
      /\ n \in DOMAIN sessions' /\ sessions'[n] = s /\ n \in Sessions
      /\ Requested' \subseteq Requested \cup {s} /\ OneSessionPerSpec'
  BY <1>1, <1>2, CreateAdds
<1> HIDE DEF n
<1>4. /\ rec \in Run /\ rec.pc = "confirm" /\ rec.key = s /\ rec.spec = s /\ rec.fp = n
      /\ rec.listed = run[r].listed
  BY <1>2, <1>3 DEF Run, PCs, s
<1> HIDE DEF rec
<1>5. /\ run' \in [Runners -> Run] /\ run'[r] = rec
      /\ \A q \in Runners \ {r} : run'[q] = run[q]
  BY <1>1, <1>4, BecomeMoves DEF IInv
<1>6. run'[r].pc \notin Claims /\ Job(r)'
  BY <1>1, <1>2, <1>3, <1>4, <1>5 DEF Job, Effect, Recording, Found, Claims, Entered
<1>7. late' \subseteq Specs
  BY <1>1 DEF IInv, TypeOK
<1> QED
  BY <1>1, <1>2, <1>3, <1>5, <1>6, <1>7, ProviderStep

LEMMA CreateUnprovenKeeps == ASSUME IInv, NEW r \in Runners, CreateUnproven(r) PROVE IInv'
<1> DEFINE s == run[r].spec
           rec == [run[r] EXCEPT !.pc = "unknown"]
<1>1. /\ run[r].pc = "send" /\ CreateSessionRaises(s) /\ Become(r, rec)
      /\ UNCHANGED <<store, faults>> /\ UNCHANGED lane
  BY DEF CreateUnproven, At, store, Goto
<1>2. /\ run[r] \in Run /\ s \in Specs /\ run[r].key = s /\ lane.exists /\ ops[s] # "MISSING"
      /\ s \notin late /\ s \notin Created /\ run[r].listed \subseteq DOMAIN sessions
      /\ \A q \in Runners \ {r} : run[q].pc \in Claims => run[q].spec # s
  BY <1>1, SendFacts
<1> HIDE DEF s
<1>3. /\ sessions' \in Seq(Specs) /\ Len(sessions') <= MaxSessions /\ late' \subseteq Specs
      /\ \A i \in DOMAIN sessions : i \in DOMAIN sessions' /\ sessions'[i] = sessions[i]
      /\ Requested' \subseteq Requested \cup {s} /\ OneSessionPerSpec'
  <2>1. CASE UNCHANGED provider
    BY <2>1 DEF provider, IInv, TypeOK, Requested, OneSessionPerSpec
  <2>2. CASE Create(s) /\ UNCHANGED late
    BY <1>2, <2>2, CreateAdds DEF IInv, TypeOK
  <2>3. CASE late' = late \cup {s} /\ UNCHANGED sessions
    BY <1>2, <2>3 DEF IInv, TypeOK, Requested, OneSessionPerSpec, Created
  <2> QED
    BY <1>1, <2>1, <2>2, <2>3 DEF CreateSessionRaises
<1>4. /\ rec \in Run /\ rec.pc = "unknown" /\ rec.key = s /\ rec.spec = s
      /\ rec.listed = run[r].listed
  BY <1>2 DEF Run, PCs, s
<1> HIDE DEF rec
<1>5. /\ run' \in [Runners -> Run] /\ run'[r] = rec
      /\ \A q \in Runners \ {r} : run'[q] = run[q]
  BY <1>1, <1>4, BecomeMoves DEF IInv
<1>6. run'[r].pc \notin Claims /\ Job(r)'
  BY <1>1, <1>2, <1>3, <1>4, <1>5 DEF Job, Effect, Recording, Found, Claims, Entered
<1> QED
  BY <1>1, <1>2, <1>3, <1>5, <1>6, ProviderStep

LEMMA ProviderCreatesLateKeeps ==
    ASSUME IInv, NEW s \in late, ProviderCreatesLate(s) PROVE IInv'
<1>1. Create(s) /\ late' = late \ {s} /\ UNCHANGED <<store, run, faults>> /\ UNCHANGED <<store, faults>>
      /\ UNCHANGED run
  BY DEF ProviderCreatesLate
<1>2. s \in Specs /\ s \in Requested /\ s \notin Created /\ ops[s] # "MISSING"
  BY DEF IInv, TypeOK, Requested, OneSessionPerSpec, Created, RequestedClaimed
<1>3. /\ sessions' \in Seq(Specs) /\ Len(sessions') <= MaxSessions
      /\ \A i \in DOMAIN sessions : i \in DOMAIN sessions' /\ sessions'[i] = sessions[i]
      /\ Requested' \subseteq Requested \cup {s} /\ OneSessionPerSpec'
  BY <1>1, <1>2, CreateAdds
<1>4. late' \subseteq Specs /\ run' \in [Runners -> Run]
  BY <1>1 DEF IInv, TypeOK
<1>5. \A q \in Runners : run'[q] = run[q] /\ (run[q].pc \in Claims => run[q].spec # s)
  BY <1>1, <1>2 DEF IInv, Job
<1> QED
  BY <1>1, <1>2, <1>3, <1>4, <1>5, ProviderStep

-----------------------------------------------------------------------------
(* The theorems, for any number of executors at a time *)

LEMMA StepKeeps == ASSUME IInv, NEW r \in Runners, Step(r) PROVE IInv'
BY ReconcileKeeps, SnapshotKeeps, EnsureKeeps, AssessKeeps, PersistPendingKeeps, AuthorizeKeeps,
   ClaimReadKeeps, AcquireLeaseKeeps, ClaimOperationKeeps, MarkLaneKeeps, ReleaseLeaseKeeps,
   CreateConfirmedKeeps, CreateUnprovenKeeps, RecordUnknownKeeps, RecordUnknownLaneKeeps,
   RecordReadbackKeeps, RecordReadbackLaneKeeps, PersistBindingKeeps, AccountKeeps,
   RestoreShadowKeeps, UpsertKeeps
   DEF Step

LEMMA StutterKeeps == ASSUME IInv, UNCHANGED vars PROVE IInv'
<1>1. UNCHANGED <<lane, ops, account, sessions, late, run, faults>> /\ UNCHANGED Requested
  BY DEF vars, Requested
<1> QED
  BY <1>1 DEF IInv, TypeOK, Job, Exclusive, LaneOK, BoundToItsSpec, RequestedClaimed,
              OneSessionPerSpec, Counting, Runners

LEMMA NextKeeps == ASSUME IInv, [Next]_vars PROVE IInv'
<1>1. Executors \subseteq Runners
  BY DEF Runners
<1>2. CASE Next
  BY <1>1, <1>2, StartKeeps, InventoryKeeps, StepKeeps, CrashKeeps, ProviderCreatesLateKeeps,
     ExpireLeaseKeeps DEF Next
<1>3. CASE UNCHANGED vars
  BY <1>3, StutterKeeps
<1> QED
  BY <1>2, <1>3

\* The inductive invariant of the creation, its two reconcilers and the observation holds,
\* whatever jobs interleave, are cancelled or lose writes.
THEOREM InvariantHolds == Spec => []IInv
<1>1. Init => IInv
  BY InitIInv
<1>2. IInv /\ [Next]_vars => IInv'
  BY NextKeeps
<1> QED
  BY <1>1, <1>2, PTL DEF Spec

\* The lane, the operations, the budget and the jobs keep their types.
THEOREM TypesHold == Spec => []TypeOK
BY InvariantHolds, PTL DEF IInv

\* However many jobs run initial_lineage_effects.py's create at a time, the provider is
\* asked at most once for the session of a specification.
THEOREM OneSession == Spec => []OneSessionPerSpec
BY InvariantHolds, PTL DEF IInv

\* What _persist_initial_binding and the observations leave on a lane that names a
\* transition: the session that was created for it, in the first generation.
THEOREM BindingHolds == Spec => []BoundToItsSpec
<1>1. IInv => BoundToItsSpec
  BY DEF IInv, LaneOK
<1> QED
  BY <1>1, InvariantHolds, PTL

-----------------------------------------------------------------------------
(* A binding is kept *)

SameBinding == lane'.gen = lane.gen /\ lane'.fp = lane.fp

\* Every write of the lane but two leaves the binding alone, and those of the first record
\* and of the first binding meet an unbound lane.
LEMMA WriterKeepsBinding ==
    ASSUME IInv, NEW r \in Runners,
           \/ EnsureInitialLane(r) \/ PersistPending(r) \/ Authorize(r) \/ AcquireLease(r)
           \/ MarkLane(r) \/ ReleaseLease(r) \/ RecordUnknownLane(r) \/ RecordReadbackLane(r)
           \/ PersistBinding(r) \/ RestoreShadow(r)
    PROVE  SameBinding \/ lane.gen = 0
<1>1. lane \in Lane /\ LaneOK
  BY LaneTyped DEF IInv
<1>2. ~lane.exists => lane.gen = 0
  BY <1>1 DEF LaneOK
<1>3. CASE EnsureInitialLane(r)
  BY <1>2, <1>3 DEF EnsureInitialLane, SameBinding
<1>4. CASE PersistPending(r)
  BY <1>1, <1>4 DEF PersistPending, Write, SameBinding, Lane
<1>5. CASE Authorize(r)
  BY <1>1, <1>5 DEF Authorize, Write, SameBinding, Lane
<1>6. CASE AcquireLease(r)
  BY <1>1, <1>6 DEF AcquireLease, Write, SameBinding, Lane
<1>7. CASE MarkLane(r)
  BY <1>1, <1>7 DEF MarkLane, Write, SameBinding, Lane
<1>8. CASE ReleaseLease(r)
  BY <1>1, <1>8 DEF ReleaseLease, Write, SameBinding, Lane
<1>9. CASE RecordUnknownLane(r)
  BY <1>1, <1>9 DEF RecordUnknownLane, Write, SameBinding, Lane
<1>10. CASE RecordReadbackLane(r)
  BY <1>1, <1>10 DEF RecordReadbackLane, Write, SameBinding, Lane
<1>11. CASE PersistBinding(r)
  BY <1>11 DEF PersistBinding, SameBinding
<1>12. CASE RestoreShadow(r)
  BY <1>1, <1>12 DEF RestoreShadow, Write, SameBinding, Lane
<1> QED
  BY <1>3, <1>4, <1>5, <1>6, <1>7, <1>8, <1>9, <1>10, <1>11, <1>12

\* An observation opens the next generation with its session, or keeps the one there is.
LEMMA UpsertKeepsBinding ==
    ASSUME IInv, NEW r \in Runners, Upsert(r)
    PROVE  KeepStep
<1> DEFINE f == run[r].fp
           new == Observed(lane, f)
<1>1. lane \in Lane /\ LaneOK
  BY LaneTyped DEF IInv
<1>2. lane' \in {new, lane}
  BY DEF Upsert, Write
<1> HIDE DEF f
<1>3. /\ new.gen = (IF f \notin {0, lane.fp} THEN lane.gen + 1 ELSE lane.gen)
      /\ new.fp = (IF f \notin {0, lane.fp} THEN f ELSE lane.fp)
  BY <1>1 DEF Lane, Observed
<1>4. lane.gen \in Nat /\ (lane.gen > 0 => lane.fp # 0)
  BY <1>1 DEF Lane, LaneOK, MaxGeneration
<1> HIDE DEF new
<1> QED
  BY <1>2, <1>3, <1>4 DEF KeepStep

\* The other steps do not write the lane.
LEMMA OthersKeepBinding ==
    ASSUME IInv, NEW r \in Runners,
           \/ \E s \in Specs : StartRun(r, s)
           \/ StartStale(r)
           \/ \E listed \in SUBSET DOMAIN sessions : ListSessions(r, listed)
           \/ InventoryUnavailable(r) \/ StaleInventoryUnavailable(r)
           \/ \E f \in Sessions \cup {0} : Observe(r, f)
           \/ ReconcileUnknown(r) \/ Snapshot(r) \/ SnapshotUnread(r) \/ Assess(r)
           \/ ClaimRead(r) \/ ClaimOperation(r) \/ CreateConfirmed(r) \/ CreateUnproven(r)
           \/ RecordUnknown(r) \/ RecordReadback(r) \/ RecordConfirmedGeneration(r)
           \/ ReconcileStale(r) \/ Crash(r)
    PROVE  SameBinding
BY DEF StartRun, StartStale, ListSessions, InventoryUnavailable, StaleInventoryUnavailable, Observe,
       ReconcileUnknown, Snapshot, SnapshotUnread, Assess, ClaimRead, ClaimOperation,
       CreateConfirmed, CreateUnproven, RecordUnknown, RecordReadback, RecordConfirmedGeneration,
       ReconcileStale, Crash, store, SameBinding

LEMMA NextKeepsBinding == ASSUME IInv, [Next]_vars PROVE KeepStep
<1>1. lane \in Lane /\ lane.gen \in Nat /\ (lane.gen > 0 => lane.fp # 0)
  BY LaneTyped DEF IInv, Lane, LaneOK, MaxGeneration
<1>2. SameBinding \/ lane.gen = 0 => KeepStep
  BY <1>1 DEF SameBinding, KeepStep
<1>3. ASSUME NEW s \in late, ProviderCreatesLate(s) PROVE SameBinding
  BY <1>3 DEF ProviderCreatesLate, store, SameBinding
<1>4. ASSUME ExpireLease PROVE SameBinding
  BY <1>1, <1>4 DEF ExpireLease, SameBinding, Lane
<1>5. ASSUME UNCHANGED vars PROVE SameBinding
  BY <1>5 DEF vars, SameBinding
<1>6. ASSUME NEW r \in Runners, Step(r) PROVE KeepStep
  BY <1>2, <1>6, WriterKeepsBinding, UpsertKeepsBinding, OthersKeepBinding DEF Step
<1>7. Executors \subseteq Runners
  BY DEF Runners
<1> QED
  BY <1>2, <1>3, <1>4, <1>5, <1>6, <1>7, OthersKeepBinding DEF Next

\* Once a lane is bound, by its executor, a reconciler or an observation, no step unbinds
\* it, and a generation keeps its session.
THEOREM FirstKept == Spec => FirstSessionKept
<1>1. IInv /\ [Next]_vars => [KeepStep]_vars
  BY NextKeepsBinding
<1> QED
  BY <1>1, InvariantHolds, PTL DEF Spec, FirstSessionKept

-----------------------------------------------------------------------------
(* The budget, with one executor at a time *)

LEMMA InitAttributed == Init => Attributed
<1> SUFFICES ASSUME Init PROVE Attributed
  OBVIOUS
<1>1. \A r \in Runners : run[r].pc = "idle"
  BY DEF Init, Idle
<1>2. lane.unknown = None /\ account.seen = {}
  BY DEF Init, NoLane
<1> QED
  BY <1>1, <1>2 DEF Attributed, Attribution, Marked, Asking, Found, Runners

\* A step of the only executor.
LEMMA ExecutorStep ==
    ASSUME Serialised, Attributed, NEW r \in Executors,
           \A q \in Runners \ {r} : run'[q] = run[q],
           Attribution(r)', Marked', account'.seen \subseteq Created'
    PROVE  Attributed'
BY DEF Serialised, Attributed, Runners

\* A step of an observer that is not an executor, or of the environment.
LEMMA ObserverStep ==
    ASSUME Attributed, Created \subseteq Created', UNCHANGED account,
           \A q \in Executors : run'[q] = run[q],
           \A q \in Observers \ Executors : run'[q] = run[q] \/ run'[q].pc \in {"idle", "upsert"},
           lane'.pending \in {lane.pending, None}, lane'.unknown \in {lane.unknown, None}
    PROVE  Attributed'
<1>1. \A q \in Executors : Attribution(q)'
  BY DEF Attributed, Attribution
<1>2. Marked'
  BY DEF Attributed, Marked
<1> QED
  BY <1>1, <1>2 DEF Attributed

\* The executor starts, waits for the inventory or gives up.
Apart == PCs \ ({"pending"} \cup Asking \cup Found)

LEMMA ApartStep ==
    ASSUME Serialised, Attributed, NEW r \in Executors,
           \A q \in Runners \ {r} : run'[q] = run[q], run'[r].pc \in Apart,
           Created \subseteq Created', UNCHANGED account,
           lane'.pending \in {lane.pending, None}, lane'.unknown \in {lane.unknown, None}
    PROVE  Attributed'
<1>1. Attribution(r)'
  BY DEF Attribution, Apart
<1>2. Marked'
  BY DEF Attributed, Marked
<1> QED
  BY <1>1, <1>2, ExecutorStep DEF Attributed

\* The executor goes on with the operation it has.
LEMMA GoingOn ==
    ASSUME Serialised, Attributed, NEW r \in Executors, NEW P, Moved(r, P),
           UNCHANGED <<account, sessions>>,
           lane'.pending \in {lane.pending, None}, lane'.unknown \in {lane.unknown, None},
           \A l \in P : /\ l = "pending" => lane.unknown = None
                        /\ l \in Asking => run[r].pc \in Asking \cup Found
                        /\ l \in Found => run[r].pc \in Found
    PROVE  Attributed'
<1>1. UNCHANGED Created /\ UNCHANGED account
  BY DEF Created
<1>2. Attribution(r)
  BY DEF Attributed
<1>3. Attribution(r)'
  <2>1. CASE run'[r] = Idle
    BY <2>1 DEF Attribution, Idle, Asking, Found
  <2>2. CASE run'[r].pc \in P /\ run'[r].key = run[r].key
    BY <1>1, <1>2, <2>2 DEF Attribution
  <2> QED
    BY <2>1, <2>2 DEF Moved
<1>4. Marked'
  BY <1>1 DEF Attributed, Marked
<1>5. \A q \in Runners \ {r} : run'[q] = run[q]
  BY DEF Moved
<1> QED
  BY <1>1, <1>3, <1>4, <1>5, ExecutorStep DEF Attributed

LEMMA StartAttributed ==
    ASSUME IInv, Serialised, Attributed, NEW r \in Executors,
           \/ \E s \in Specs : StartRun(r, s)
           \/ StartStale(r)
           \/ \E listed \in SUBSET DOMAIN sessions : ListSessions(r, listed)
           \/ InventoryUnavailable(r) \/ StaleInventoryUnavailable(r)
           \/ \E f \in Sessions \cup {0} : Observe(r, f)
           \/ Snapshot(r) \/ SnapshotUnread(r) \/ Crash(r)
    PROVE  Attributed'
<1>1. /\ UNCHANGED <<lane, account, sessions>> /\ UNCHANGED lane /\ UNCHANGED account
      /\ UNCHANGED Created
  BY DEF StartRun, StartStale, ListSessions, InventoryUnavailable, StaleInventoryUnavailable, Observe,
         Snapshot, SnapshotUnread, Crash, store, provider, Created
<1>2. r \in Runners /\ run \in [Runners -> Run] /\ run[r] \in Run /\ Idle \in Run
  BY IdleTyped DEF IInv, TypeOK, Runners
<1>3. run[r].pc = "inventory" => run[r].then \in {"snapshot", "stale"}
  BY <1>2 DEF IInv, Job
<1>4. \E rec : Become(r, rec) /\ rec.pc \in {"idle", "inventory", "snapshot", "stale", "ensure", "upsert"}
  <2>1. CASE \E s \in Specs : StartRun(r, s)
    <3> PICK s \in Specs : StartRun(r, s)
      BY <2>1
    <3> DEFINE rec == [Idle EXCEPT !.pc = "inventory", !.then = "snapshot", !.spec = s]
    <3>1. rec.pc = "inventory" /\ Become(r, rec)
      BY <1>2 DEF StartRun, Run
    <3> HIDE DEF rec
    <3> QED
      BY <3>1
  <2>2. CASE StartStale(r)
    <3> DEFINE rec == [Idle EXCEPT !.pc = "inventory", !.then = "stale"]
    <3>1. rec.pc = "inventory" /\ Become(r, rec)
      BY <1>2, <2>2 DEF StartStale, Run
    <3> HIDE DEF rec
    <3> QED
      BY <3>1
  <2>3. CASE \E listed \in SUBSET DOMAIN sessions : ListSessions(r, listed)
    <3> PICK listed \in SUBSET DOMAIN sessions : ListSessions(r, listed)
      BY <2>3
    <3> DEFINE rec == [run[r] EXCEPT !.pc = run[r].then, !.listed = listed, !.tries = 0]
    <3>1. rec.pc = run[r].then /\ Become(r, rec)
      BY <1>2 DEF ListSessions, Run
    <3>2. run[r].then \in {"snapshot", "stale"}
      BY <1>3 DEF ListSessions, At
    <3> HIDE DEF rec
    <3> QED
      BY <3>1, <3>2
  <2>4. CASE InventoryUnavailable(r) \/ StaleInventoryUnavailable(r)
    <3> DEFINE rec == [run[r] EXCEPT !.tries = @ + 1]
    <3>1. rec.pc = "inventory" /\ (Become(r, rec) \/ Stop(r))
      BY <1>2, <2>4 DEF InventoryUnavailable, StaleInventoryUnavailable, RetryInventory, At, Run
    <3> HIDE DEF rec
    <3> QED
      BY <3>1 DEF Stop, Idle
  <2>5. CASE \E f \in Sessions \cup {0} : Observe(r, f)
    <3> PICK f \in Sessions \cup {0} : Observe(r, f)
      BY <2>5
    <3> DEFINE rec == [Idle EXCEPT !.pc = "upsert", !.fp = f]
    <3>1. rec.pc = "upsert" /\ Become(r, rec)
      BY <1>2 DEF Observe, Run
    <3> HIDE DEF rec
    <3> QED
      BY <3>1
  <2>6. CASE Snapshot(r) \/ SnapshotUnread(r)
    <3> DEFINE resolved == [run[r] EXCEPT !.pc = "ensure", !.key = run[r].spec,
                              !.policy = EffectAuthorized(lane)]
               unread == [run[r] EXCEPT !.pc = "ensure", !.key = run[r].spec, !.policy = TRUE]
    <3>1. resolved.pc = "ensure" /\ unread.pc = "ensure" /\ Idle.pc = "idle"
      BY <1>2 DEF Run, Idle
    <3>2. Become(r, Idle) \/ Become(r, resolved) \/ Become(r, unread)
      BY <2>6 DEF Snapshot, SnapshotUnread, Stop
    <3> HIDE DEF resolved, unread
    <3> QED
      BY <3>1, <3>2
  <2>7. CASE Crash(r)
    BY <2>7 DEF Crash, Stop, Idle
  <2> QED
    BY <2>1, <2>2, <2>3, <2>4, <2>5, <2>6, <2>7
<1>5. /\ run'[r].pc \in {"idle", "inventory", "snapshot", "stale", "ensure", "upsert"}
      /\ \A q \in Runners \ {r} : run'[q] = run[q]
  BY <1>2, <1>4 DEF Become
<1>6. run'[r].pc \in Apart
  BY <1>5 DEF Apart, PCs, Asking, Found
<1> QED
  BY <1>1, <1>5, <1>6, ApartStep

\* The operation that a reconciler confirms is that of the session it found.
LEMMA ReconcileAttributed ==
    ASSUME IInv, Serialised, Attributed, NEW r \in Executors,
           ReconcileUnknown(r) \/ ReconcileStale(r)
    PROVE  Attributed'
<1>1. /\ UNCHANGED <<lane, account, sessions>> /\ UNCHANGED lane /\ UNCHANGED account
      /\ UNCHANGED Created
  BY DEF ReconcileUnknown, ReconcileStale, store, provider, Created
<1>2. r \in Runners /\ run \in [Runners -> Run] /\ run[r] \in Run
  BY DEF IInv, TypeOK, Runners
<1>3. \A q \in Runners \ {r} : run'[q] = run[q]
  BY <1>2 DEF ReconcileUnknown, ReconcileStale, Become, Stop
<1>4. Marked'
  BY <1>1 DEF Attributed, Marked
<1>5. ASSUME NEW k \in Created, NEW s, NEW f,
             Become(r, [run[r] EXCEPT !.pc = "confirm", !.key = k, !.spec = s, !.fp = f])
      PROVE  Attributed'
  <2> DEFINE rec == [run[r] EXCEPT !.pc = "confirm", !.key = k, !.spec = s, !.fp = f]
  <2>1. rec.pc = "confirm" /\ rec.key = k /\ run'[r] = rec
    BY <1>2, <1>5 DEF Run, Become
  <2> HIDE DEF rec
  <2>2. Attribution(r)'
    BY <1>1, <2>1 DEF Attribution, Asking, Found
  <2> QED
    BY <1>1, <1>3, <1>4, <2>2, ExecutorStep DEF Attributed
<1>6. ASSUME Stop(r) PROVE Attributed'
  <2>1. run'[r].pc \in Apart
    BY <1>2, <1>6 DEF Stop, Become, Idle, Apart, PCs, Asking, Found
  <2> QED
    BY <1>1, <1>3, <2>1, ApartStep
<1>7. ASSUME NEW s, Cardinality(Matching(run[r].listed, s)) = 1 PROVE s \in Created
  BY <1>2, <1>7, MatchingFound DEF Created
<1>8. CASE ReconcileUnknown(r)
  <2> DEFINE known == Matching(run[r].listed, lane.pending)
  <2>1. CASE Cardinality(known) = 1
    <3>1. lane.pending \in Created /\ lane.unknown # None /\ lane.pending # None
      BY <1>7, <1>8, <2>1 DEF ReconcileUnknown, PendingInitial
    <3>2. lane.unknown \in Created
      BY <3>1 DEF Attributed, Marked
    <3> QED
      BY <1>5, <1>8, <2>1, <3>2 DEF ReconcileUnknown
  <2>2. CASE Cardinality(known) # 1
    BY <1>6, <1>8, <2>2 DEF ReconcileUnknown
  <2> QED
    BY <2>1, <2>2
<1>9. CASE ReconcileStale(r)
  <2> DEFINE found == Matching(run[r].listed, StaleKey)
             leased == lane.lease.key = StaleKey /\ lane.lease.live
  <2>1. CASE IsStale /\ ~leased /\ Cardinality(found) = 1
    <3>1. StaleKey \in Created
      BY <1>7, <2>1
    <3> QED
      BY <1>5, <1>9, <2>1, <3>1 DEF ReconcileStale
  <2>2. CASE ~(IsStale /\ ~leased /\ Cardinality(found) = 1)
    BY <1>6, <1>9, <2>2 DEF ReconcileStale
  <2> QED
    BY <2>1, <2>2
<1> QED
  BY <1>8, <1>9

\* Steps up to the claim.
LEMMA EffectAttributed ==
    ASSUME IInv, Serialised, Attributed, NEW r \in Executors,
           \/ EnsureInitialLane(r) \/ Assess(r) \/ Authorize(r) \/ ClaimRead(r) \/ AcquireLease(r)
           \/ ClaimOperation(r) \/ MarkLane(r) \/ ReleaseLease(r)
    PROVE  Attributed'
<1>1. r \in Runners /\ TypeOK /\ lane \in Lane /\ run[r] \in Run
  BY LaneTyped DEF IInv, TypeOK, Runners
<1>2. UNCHANGED <<account, sessions>>
  BY DEF EnsureInitialLane, Assess, Authorize, ClaimRead, AcquireLease, ClaimOperation, MarkLane,
         ReleaseLease, store, provider
<1>3. CASE EnsureInitialLane(r)
  <2>1. run[r].pc = "ensure" /\ Moved(r, {"assess"})
    BY <1>1, <1>3, StopMoves, GotoMoves DEF EnsureInitialLane, At, ReadOnly, Write, PCs
  <2>2. lane'.pending \in {lane.pending, None} /\ lane'.unknown \in {lane.unknown, None}
    BY <1>3 DEF EnsureInitialLane, Write, NoLane
  <2> QED
    BY <1>2, <2>1, <2>2, GoingOn DEF Asking, Found
<1>4. CASE Assess(r)
  <2>1. UNCHANGED lane /\ (Stop(r) \/ (Goto(r, "pending") /\ lane.unknown = None))
    BY <1>4 DEF Assess, CreationAllowed, store
  <2>2. CASE Stop(r)
    <3>1. Moved(r, {})
      BY <1>1, <2>2, StopMoves
    <3> QED
      BY <1>2, <2>1, <3>1, GoingOn
  <2>3. CASE Goto(r, "pending") /\ lane.unknown = None
    <3>1. Moved(r, {"pending"})
      BY <1>1, <2>3, GotoMoves DEF PCs
    <3> QED
      BY <1>2, <2>1, <2>3, <3>1, GoingOn DEF Asking, Found
  <2> QED
    BY <2>1, <2>2, <2>3
<1>5. CASE Authorize(r)
  <2> DEFINE rec == [run[r] EXCEPT !.pc = "claim", !.executing = TRUE]
  <2>1. /\ rec \in Run /\ rec.pc = "claim" /\ rec.spec = run[r].spec /\ rec.key = run[r].key
        /\ rec.fp = run[r].fp /\ rec.listed = run[r].listed
    BY <1>1 DEF Run, PCs
  <2>2. run[r].pc = "authorize" /\ (Stop(r) \/ Become(r, rec))
    BY <1>5 DEF Authorize, Write, At
  <2>3. lane'.pending = lane.pending /\ lane'.unknown = lane.unknown
    BY <1>1, <1>5 DEF Authorize, Write, Lane
  <2> HIDE DEF rec
  <2>4. Moved(r, {"claim"})
    BY <1>1, <2>1, <2>2, StopMoves, BecomeMoves DEF Moved
  <2> QED
    BY <1>2, <2>2, <2>3, <2>4, GoingOn DEF Asking, Found
<1>6. CASE ClaimRead(r)
  <2>1. run[r].pc = "claim" /\ UNCHANGED lane /\ Moved(r, {"lease", "restore"})
    BY <1>1, <1>6, LeaveMoves, GotoMoves DEF ClaimRead, At, ReadOnly, PCs, store
  <2> QED
    BY <1>2, <2>1, GoingOn DEF Asking, Found
<1>7. CASE AcquireLease(r)
  <2>1. run[r].pc = "lease" /\ Moved(r, {"claimop", "restore"})
    BY <1>1, <1>7, LeaveMoves, GotoMoves DEF AcquireLease, At, Write, PCs
  <2>2. lane'.pending = lane.pending /\ lane'.unknown = lane.unknown
    BY <1>1, <1>7 DEF AcquireLease, Write, Lane
  <2> QED
    BY <1>2, <2>1, <2>2, GoingOn DEF Asking, Found
<1>8. CASE ClaimOperation(r)
  <2>1. run[r].pc = "claimop" /\ UNCHANGED lane /\ Moved(r, {"mark", "release"})
    BY <1>1, <1>8, GotoMoves DEF ClaimOperation, At, Write, PCs
  <2> QED
    BY <1>2, <2>1, GoingOn DEF Asking, Found
<1>9. CASE MarkLane(r)
  <2>1. run[r].pc = "mark" /\ Moved(r, {"send", "restore"})
    BY <1>1, <1>9, LeaveMoves, GotoMoves DEF MarkLane, At, Write, PCs
  <2>2. lane'.pending = lane.pending /\ lane'.unknown = lane.unknown
    BY <1>1, <1>9 DEF MarkLane, Write, Lane
  <2> QED
    BY <1>2, <2>1, <2>2, GoingOn DEF Asking, Found
<1>10. CASE ReleaseLease(r)
  <2>1. Moved(r, {"restore"})
    BY <1>1, <1>10, LeaveMoves DEF ReleaseLease, Write
  <2>2. lane'.pending = lane.pending /\ lane'.unknown = lane.unknown
    BY <1>1, <1>10 DEF ReleaseLease, Write, Lane
  <2> QED
    BY <1>2, <2>1, <2>2, GoingOn DEF Asking, Found
<1> QED
  BY <1>3, <1>4, <1>5, <1>6, <1>7, <1>8, <1>9, <1>10

\* The intention replaces another only on a lane without a marker.
LEMMA PersistPendingAttributed ==
    ASSUME IInv, Serialised, Attributed, NEW r \in Executors, PersistPending(r)
    PROVE  Attributed'
<1> DEFINE new == [lane EXCEPT !.pending = run[r].spec, !.open = FALSE]
<1>1. /\ r \in Runners /\ TypeOK /\ lane \in Lane /\ run[r].pc = "pending"
      /\ run[r].key = run[r].spec
  BY LaneTyped DEF IInv, Runners, PersistPending, At, Job, Effect
<1>2. lane.unknown = None
  BY <1>1 DEF Attributed, Attribution
<1>3. UNCHANGED account /\ UNCHANGED Created
  BY DEF PersistPending, provider, Created
<1>4. new.pending = run[r].spec /\ new.unknown = lane.unknown
  BY <1>1 DEF Lane
<1>5. Moved(r, {"authorize"})
  BY <1>1, StopMoves, GotoMoves DEF PersistPending, ReadOnly, Write, PCs
<1>6. Stop(r) \/ lane'.pending = run[r].spec
  BY <1>4 DEF PersistPending, ReadOnly, Write
<1>7. lane' \in {new, lane}
  BY DEF PersistPending, Write
<1> HIDE DEF new
<1>8. Marked'
  BY <1>2, <1>4, <1>7 DEF Marked
<1>9. Attribution(r)'
  <2>1. CASE run'[r].pc = "idle"
    BY <2>1 DEF Attribution, Asking, Found
  <2>2. CASE run'[r].pc # "idle"
    <3>1. ~Stop(r)
      BY <1>1, <2>2 DEF Stop, Become, Idle, TypeOK
    <3>2. run'[r].pc = "authorize" /\ run'[r].key = run[r].key
      BY <1>5, <2>2 DEF Moved, Idle
    <3> QED
      BY <1>1, <1>6, <3>1, <3>2 DEF Attribution, Asking, Found
  <2> QED
    BY <2>1, <2>2
<1>10. \A q \in Runners \ {r} : run'[q] = run[q]
  BY <1>5 DEF Moved
<1> QED
  BY <1>3, <1>8, <1>9, <1>10, ExecutorStep DEF Attributed

\* A session is created, for the job's own operation or for one asked for earlier.
LEMMA CreateAttributed ==
    ASSUME IInv, Serialised, Attributed, NEW r \in Executors, CreateConfirmed(r) \/ CreateUnproven(r)
    PROVE  Attributed'
<1> DEFINE s == run[r].spec
<1>1. /\ r \in Runners /\ run[r].pc = "send" /\ UNCHANGED lane /\ UNCHANGED account
      /\ run \in [Runners -> Run]
  BY DEF CreateConfirmed, CreateUnproven, At, store, Runners, IInv, TypeOK
<1>2. /\ run[r] \in Run /\ s \in Specs /\ run[r].key = s /\ s \notin late /\ s \notin Created
  BY <1>1, SendFacts
<1> HIDE DEF s
<1>3. Attribution(r)
  BY DEF Attributed
<1>4. ASSUME Create(s), UNCHANGED late PROVE Created \subseteq Created' /\ s \in Created'
  <2>1. /\ \A i \in DOMAIN sessions : i \in DOMAIN sessions' /\ sessions'[i] = sessions[i]
        /\ Len(sessions) + 1 \in DOMAIN sessions' /\ sessions'[Len(sessions) + 1] = s
    BY <1>2, <1>4, CreateAdds
  <2> QED
    BY <2>1 DEF Created
<1>5. CASE CreateConfirmed(r)
  <2> DEFINE rec == [run[r] EXCEPT !.pc = "confirm", !.fp = Len(sessions) + 1]
  <2>1. rec.pc = "confirm" /\ rec.key = s /\ run' = [run EXCEPT ![r] = rec]
    BY <1>2, <1>5 DEF CreateConfirmed, Become, Run
  <2> HIDE DEF rec
  <2>2. Created \subseteq Created' /\ s \in Created'
    BY <1>4, <1>5 DEF CreateConfirmed, s
  <2>3. Attribution(r)'
    BY <1>1, <2>1, <2>2 DEF Attribution, Asking, Found
  <2>4. Marked'
    BY <1>1, <2>2 DEF Marked, Attributed
  <2> QED
    BY <1>1, <2>1, <2>2, <2>3, <2>4, ExecutorStep DEF Attributed
<1>6. CASE CreateUnproven(r)
  <2> DEFINE rec == [run[r] EXCEPT !.pc = "unknown"]
  <2>1. rec.pc = "unknown" /\ rec.key = s /\ run' = [run EXCEPT ![r] = rec]
    BY <1>2, <1>6 DEF CreateUnproven, Goto, Become, Run
  <2> HIDE DEF rec
  <2>2. CreateSessionRaises(s)
    BY <1>6 DEF CreateUnproven, s
  <2>3. Created \subseteq Created'
    BY <1>4, <2>2 DEF CreateSessionRaises, provider, Created
  <2>4. Attribution(r)'
    BY <1>1, <1>2, <1>3, <2>1, <2>3 DEF Attribution, Asking, Found
  <2>5. Marked'
    BY <1>1, <2>3 DEF Marked, Attributed
  <2> QED
    BY <1>1, <2>1, <2>3, <2>4, <2>5, ExecutorStep DEF Attributed
<1> QED
  BY <1>5, <1>6

LEMMA LateAttributed ==
    ASSUME IInv, Attributed, NEW s \in late, ProviderCreatesLate(s)
    PROVE  Attributed'
<1>1. Create(s) /\ late' = late \ {s} /\ UNCHANGED <<lane, account, run>> /\ UNCHANGED account
      /\ UNCHANGED lane /\ UNCHANGED run
  BY DEF ProviderCreatesLate, store
<1>2. s \in Specs /\ s \notin Created
  BY DEF IInv, TypeOK, OneSessionPerSpec, Created
<1>3. \A i \in DOMAIN sessions : i \in DOMAIN sessions' /\ sessions'[i] = sessions[i]
  BY <1>1, <1>2, CreateAdds
<1>4. Created \subseteq Created'
  BY <1>3 DEF Created
<1> QED
  BY <1>1, <1>4, ObserverStep

\* The outcome is recorded: the marker is that of the intention or of a created session.
LEMMA RecordAttributed ==
    ASSUME IInv, Serialised, Attributed, NEW r \in Executors,
           \/ RecordUnknown(r) \/ RecordReadback(r) \/ RecordReadbackLane(r) \/ PersistBinding(r)
           \/ RestoreShadow(r)
    PROVE  Attributed'
<1>1. r \in Runners /\ TypeOK /\ lane \in Lane
  BY LaneTyped DEF IInv, Runners
<1>2. UNCHANGED <<account, sessions>>
  BY DEF RecordUnknown, RecordReadback, RecordReadbackLane, PersistBinding, RestoreShadow, provider
<1>3. CASE RecordUnknown(r)
  <2>1. run[r].pc = "unknown" /\ UNCHANGED lane /\ Moved(r, {"unknownlane", "restore"})
    BY <1>1, <1>3, LeaveMoves, GotoMoves DEF RecordUnknown, At, Write, PCs
  <2> QED
    BY <1>2, <2>1, GoingOn DEF Asking, Found
<1>4. CASE RecordReadback(r)
  <2>1. run[r].pc = "confirm" /\ UNCHANGED lane /\ Moved(r, {"confirmlane", "restore"})
    BY <1>1, <1>4, LeaveMoves, GotoMoves DEF RecordReadback, At, Write, PCs
  <2> QED
    BY <1>2, <2>1, GoingOn DEF Asking, Found
<1>5. CASE RecordReadbackLane(r)
  <2>1. run[r].pc = "confirmlane" /\ Moved(r, {"bind", "restore"})
    BY <1>1, <1>5, LeaveMoves, GotoMoves DEF RecordReadbackLane, At, Write, PCs
  <2>2. lane'.pending = lane.pending /\ lane'.unknown \in {lane.unknown, None}
    BY <1>1, <1>5 DEF RecordReadbackLane, Write, Lane
  <2> QED
    BY <1>2, <2>1, <2>2, GoingOn DEF Asking, Found
<1>6. CASE PersistBinding(r)
  <2>1. run[r].pc = "bind" /\ Moved(r, {"account", "unknown"})
    BY <1>1, <1>6, GotoMoves DEF PersistBinding, At, ReadOnly, Write, PCs
  <2>2. lane'.pending \in {lane.pending, None} /\ lane'.unknown \in {lane.unknown, None}
    BY <1>1, <1>6 DEF PersistBinding, Bound, Write, Lane
  <2> QED
    BY <1>2, <2>1, <2>2, GoingOn DEF Asking, Found
<1>7. CASE RestoreShadow(r)
  <2>1. Moved(r, {})
    BY <1>1, <1>7, StopMoves DEF RestoreShadow, ReadOnly, Write
  <2>2. lane'.pending = lane.pending /\ lane'.unknown = lane.unknown
    BY <1>1, <1>7 DEF RestoreShadow, Write, Lane
  <2> QED
    BY <1>2, <2>1, <2>2, GoingOn
<1> QED
  BY <1>3, <1>4, <1>5, <1>6, <1>7

LEMMA MarkerAttributed ==
    ASSUME IInv, Serialised, Attributed, NEW r \in Executors, RecordUnknownLane(r)
    PROVE  Attributed'
<1> DEFINE new == [lane EXCEPT !.unknown = run[r].key,
                     !.receipt = [key |-> run[r].key, state |-> "UNKNOWN", fp |-> 0]]
<1>1. r \in Runners /\ TypeOK /\ lane \in Lane /\ run[r].pc = "unknownlane"
  BY LaneTyped DEF IInv, Runners, RecordUnknownLane, At
<1>2. lane.pending \in {None, run[r].key} \/ run[r].key \in Created
  BY <1>1 DEF Attributed, Attribution, Asking
<1>3. UNCHANGED account /\ UNCHANGED Created
  BY DEF RecordUnknownLane, provider, Created
<1>4. new.pending = lane.pending /\ new.unknown = run[r].key
  BY <1>1 DEF Lane
<1>5. Moved(r, {"restore"})
  BY <1>1, LeaveMoves DEF RecordUnknownLane, Write
<1>6. lane' \in {new, lane}
  BY DEF RecordUnknownLane, Write
<1> HIDE DEF new
<1>7. Marked'
  BY <1>2, <1>3, <1>4, <1>6 DEF Marked, Attributed
<1>8. Attribution(r)'
  BY <1>5 DEF Moved, Attribution, Asking, Found, Idle
<1>9. \A q \in Runners \ {r} : run'[q] = run[q]
  BY <1>5 DEF Moved
<1> QED
  BY <1>3, <1>7, <1>8, <1>9, ExecutorStep DEF Attributed

LEMMA AccountAttributed ==
    ASSUME IInv, Serialised, Attributed, NEW r \in Executors, RecordConfirmedGeneration(r)
    PROVE  Attributed'
<1>1. /\ r \in Runners /\ TypeOK /\ run[r].pc = "account" /\ UNCHANGED lane
      /\ account \in [count : Nat, seen : SUBSET Specs]
  BY DEF IInv, Runners, RecordConfirmedGeneration, At, TypeOK
<1>2. run[r].key \in Created
  BY <1>1 DEF Attributed, Attribution, Found
<1>3. UNCHANGED Created
  BY DEF RecordConfirmedGeneration, provider, Created
<1>4. Moved(r, {"unknown", "restore"})
  BY <1>1, LeaveMoves, GotoMoves DEF RecordConfirmedGeneration, ReadOnly, Write, PCs
<1>5. account'.seen \subseteq account.seen \cup {run[r].key}
  BY <1>1 DEF RecordConfirmedGeneration, Write
<1>6. Attribution(r)'
  BY <1>2, <1>3, <1>4 DEF Moved, Attribution, Asking, Found, Idle
<1>7. Marked'
  BY <1>1, <1>3 DEF Marked, Attributed
<1>8. \A q \in Runners \ {r} : run'[q] = run[q]
  BY <1>4 DEF Moved
<1> QED
  BY <1>2, <1>3, <1>5, <1>6, <1>7, <1>8, ExecutorStep DEF Attributed

\* An observation takes the intention off the lane.
LEMMA UpsertAttributed ==
    ASSUME IInv, Serialised, Attributed, NEW r \in Runners, Upsert(r)
    PROVE  Attributed'
<1>1. /\ TypeOK /\ lane \in Lane /\ UNCHANGED <<account, sessions>> /\ UNCHANGED account
      /\ UNCHANGED Created
  BY LaneTyped DEF IInv, Upsert, provider, Created
<1>2. Stop(r)
  BY DEF Upsert, Write
<1>3. lane'.pending \in {lane.pending, None} /\ lane'.unknown = lane.unknown
  BY <1>1 DEF Upsert, Write, Observed, Lane
<1>4. run'[r] = Idle /\ \A q \in Runners \ {r} : run'[q] = run[q]
  BY <1>1, <1>2 DEF Stop, Become, TypeOK
<1>5. CASE r \in Executors
  BY <1>1, <1>3, <1>4, <1>5, ApartStep DEF Apart, PCs, Asking, Found, Idle
<1>6. CASE r \in Observers \ Executors
  BY <1>1, <1>3, <1>4, <1>6, ObserverStep DEF Runners, Idle
<1> QED
  BY <1>5, <1>6 DEF Runners

\* Whoever has no authority only observes.
LEMMA ObserverAttributed ==
    ASSUME IInv, Serialised, Attributed, NEW r \in Observers \ Executors,
           (\E f \in Sessions \cup {0} : Observe(r, f)) \/ Step(r) \/ Crash(r)
    PROVE  Attributed'
<1>1. r \in Runners /\ run \in [Runners -> Run] /\ run[r].pc \in {"idle", "upsert"}
  BY DEF Runners, IInv, TypeOK, Attributed
<1>2. CASE Step(r)
  <2>1. Upsert(r)
    BY <1>1, <1>2 DEF Step, At, ReconcileUnknown, Snapshot, SnapshotUnread, EnsureInitialLane, Assess,
          PersistPending, Authorize, ClaimRead, AcquireLease, ClaimOperation, MarkLane, ReleaseLease,
          CreateConfirmed, CreateUnproven, RecordUnknown, RecordUnknownLane, RecordReadback,
          RecordReadbackLane, PersistBinding, RecordConfirmedGeneration, RestoreShadow, ReconcileStale
  <2> QED
    BY <1>1, <2>1, UpsertAttributed
<1>3. CASE (\E f \in Sessions \cup {0} : Observe(r, f)) \/ Crash(r)
  <2>1. UNCHANGED lane /\ UNCHANGED account /\ UNCHANGED Created
    BY <1>3 DEF Observe, Crash, store, provider, Created
  <2>2. \E rec : Become(r, rec) /\ rec.pc \in {"idle", "upsert"}
    <3>1. CASE Crash(r)
      BY <3>1 DEF Crash, Stop, Idle
    <3>2. ASSUME NEW f, Observe(r, f)
          PROVE  \E rec : Become(r, rec) /\ rec.pc \in {"idle", "upsert"}
      <4> DEFINE rec == [Idle EXCEPT !.pc = "upsert", !.fp = f]
      <4>1. rec.pc = "upsert" /\ Become(r, rec)
        BY <3>2 DEF Observe, Idle
      <4> HIDE DEF rec
      <4> QED
        BY <4>1
    <3> QED
      BY <1>3, <3>1, <3>2
  <2>3. run'[r].pc \in {"idle", "upsert"} /\ \A q \in Runners \ {r} : run'[q] = run[q]
    BY <1>1, <2>2 DEF Become
  <2> QED
    BY <2>1, <2>3, ObserverStep DEF Runners
<1> QED
  BY <1>2, <1>3

LEMMA NextAttributed == ASSUME IInv, Serialised, Attributed, [Next]_vars PROVE Attributed'
<1>1. ASSUME NEW r \in Executors, Step(r) PROVE Attributed'
  <2>1. r \in Runners
    BY DEF Runners
  <2> QED
    BY <1>1, <2>1, ReconcileAttributed, StartAttributed, EffectAttributed, PersistPendingAttributed,
       CreateAttributed, RecordAttributed, MarkerAttributed, AccountAttributed, UpsertAttributed
       DEF Step
<1>2. ASSUME ExpireLease PROVE Attributed'
  <2>1. lane \in Lane
    BY LaneTyped DEF IInv
  <2>2. lane'.pending = lane.pending /\ lane'.unknown = lane.unknown
    BY <1>2, <2>1 DEF ExpireLease, Lane
  <2>3. UNCHANGED account /\ UNCHANGED run /\ UNCHANGED Created
    BY <1>2 DEF ExpireLease, provider, Created
  <2> QED
    BY <2>2, <2>3, ObserverStep
<1>3. ASSUME UNCHANGED vars PROVE Attributed'
  <2>1. UNCHANGED account /\ UNCHANGED run /\ UNCHANGED lane /\ UNCHANGED Created
    BY <1>3 DEF vars, Created
  <2> QED
    BY <2>1, ObserverStep
<1>4. \A r \in Runners : r \in Executors \/ r \in Observers \ Executors
  BY DEF Runners
<1> QED
  BY <1>1, <1>2, <1>3, <1>4, StartAttributed, ObserverAttributed, LateAttributed DEF Next

\* With one executor of a project at a time, as its concurrency group serialises them, the
\* budget counts every specification once, and only one whose session was created: the
\* operation that reconcile_unknown_initial_lineage confirms is the intention's.
THEOREM BudgetCounts == Serialised => (Spec => []CountedOnce)
<1> SUFFICES ASSUME Serialised PROVE Spec => []CountedOnce
  OBVIOUS
<1>1. Init => Attributed
  BY InitAttributed
<1>2. IInv /\ Attributed /\ [Next]_vars => Attributed'
  BY NextAttributed
<1>3. IInv /\ Attributed => CountedOnce
  BY DEF IInv, Counting, Attributed, CountedOnce, Created
<1> QED
  BY <1>1, <1>2, <1>3, InvariantHolds, PTL DEF Spec
=============================================================================

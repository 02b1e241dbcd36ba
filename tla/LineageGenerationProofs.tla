---------------------- MODULE LineageGenerationProofs ----------------------
(***************************************************************************)
(* Proofs about LineageGeneration, for any executors, observers, causes,   *)
(* generations and sessions, with or without messages and failures.        *)
(***************************************************************************)
EXTENDS LineageGeneration, TLAPS, FiniteSetTheorems

\* Steps of an effect up to the request, and those of a job that has claimed its operation
\* and not asked the provider yet.
Effect == {"pending", "authorize", "claim", "lease", "claimop", "mark", "release", "send"}
Claims == {"mark", "send"}

\* Steps without an operation.
Free == {"idle", "before", "upsert", "preserve"}

Created == 2..Len(sessions)

\* The creations the provider was asked for, performed or not.
Requested ==
    {CreationKey(sessions[s]) : s \in Created} \cup {e[1] : e \in {d \in late : IsCreation(d[1])}}

\* The job has a session in its hands.
Holding(j) ==
    \/ j.pc \in {"bind", "account", "clear"}
    \/ j.pc \in {"confirm", "confirmlane"} /\ (j.then = "bind" \/ IsCreation(j.key))
    \/ j.pc = "restore" /\ j.then = "bind"

\* A session that may become the lane's: the initial one, or one created from a generation.
Lawful(s) == s = 1 \/ (s \in Created /\ sessions[s].from >= 1)

\* What a job knows at its step.
Knows(j) ==
    /\ j.pc \notin Free => j.key \in Key
    /\ j.pc \in Effect /\ IsCreation(j.key) => j.t \in Transition /\ j.key = CreationKey(j.t)
    /\ j.pc \in Effect => j.then = "idle"
    /\ j.pc \in {"unknown", "unknownlane"} => j.then \in {"idle", "restore"}
    /\ j.pc \in {"confirm", "confirmlane"} => j.then \in {"idle", "bind"}
    /\ j.pc = "restore" => j.then \in {"idle", "unknown", "bind"}
    /\ Holding(j) => j.t \in Transition /\ j.fp \in DOMAIN sessions /\ sessions[j.fp] = j.t
    /\ j.pc \in {"account", "clear"} => j.t.from >= 1
    /\ j.match # 0 => Lawful(j.match)

\* Its creation is claimed and not asked for.
HasClaim(j) ==
    j.pc \in Claims /\ IsCreation(j.key) => ops[j.key].state # "MISSING" /\ j.key \notin Requested

Job(r) == Knows(run[r]) /\ HasClaim(run[r])

\* A creation is claimed by one job.
Exclusive ==
    \A q, r \in Runners :
        /\ q # r /\ run[q].pc \in Claims /\ run[r].pc \in Claims
        /\ IsCreation(run[q].key) /\ IsCreation(run[r].key)
        => run[q].key # run[r].key

\* What was asked for was claimed.
RequestedClaimed == \A k \in Requested : ops[k].state # "MISSING"

\* No creation is asked for twice.
OneRequest ==
    /\ \A s, u \in Created : CreationKey(sessions[s]) = CreationKey(sessions[u]) => s = u
    /\ \A s \in Created, e \in late : IsCreation(e[1]) => CreationKey(sessions[s]) # e[1]
    /\ \A d, e \in late : IsCreation(e[1]) /\ d[1] = e[1] => d = e

SessionsOK ==
    /\ Len(sessions) \in 1..MaxSessions /\ sessions[1] = NoMarker
    /\ \A s \in Created : sessions[s] \in Transition
    /\ \A e \in late : IsCreation(e[1]) => e[2] \in Transition /\ e[1] = CreationKey(e[2])

LaneOK ==
    /\ Lawful(lane.fp)
    /\ lane.tkey # None => lane.fp \in DOMAIN sessions /\ BoundToItsTransition

\* The transitions that some record, request or job still names.
Live ==
    {run[r].t : r \in Runners} \cup {run[r].saw : r \in Runners} \cup {lane.pending}
      \cup {sessions[s] : s \in Created} \cup {e[2] : e \in late}

\* A generation had one session, the predecessor in every transition from it; history says
\* which.  A job that could not read the lane knows of no generation and no session.
Past(history, t) ==
    \/ t.from = 0 /\ t.pred = 0
    \/ t.from \in 1..lane.gen /\ t.pred = history[t.from]

Ordered ==
    \E history \in [1..MaxGeneration -> Sessions] :
        /\ history[lane.gen] = lane.fp
        /\ \A t \in Live \ {None} : Past(history, t)

IInv ==
    /\ RecordsOK
    /\ SessionsOK
    /\ \A r \in Runners : Job(r)
    /\ Exclusive
    /\ RequestedClaimed
    /\ OneRequest
    /\ LaneOK
    /\ Ordered

\* The accounting record remembers every transition it has counted.
Remembers == MaxGeneration - 1 <= Window

\* The transitions of the sessions that were created from a generation.
Titles == {sessions[s] : s \in {c \in Created : sessions[c].from >= 1}}

Counted == {account.seen[i].t : i \in DOMAIN account.seen}

Counting ==
    /\ IsFiniteSet(Counted)
    /\ account.count = Cardinality(Counted) /\ account.count = Len(account.seen)
    /\ Counted \subseteq Titles

-----------------------------------------------------------------------------
(* Facts about the records and the initial state *)

LEMMA IdleTyped == Idle \in Run
BY LineageAssumption DEF Idle, Run, PCs

LEMMA TransitionFields ==
    ASSUME NEW t \in Transition
    PROVE  /\ t.from \in 0..(MaxGeneration - 1) /\ t.from \in Nat /\ t.pred \in Sessions \cup {0}
           /\ Target(t) \in 1..MaxGeneration
           /\ Target(t) = t.from + 1 /\ CreationKey(t) \in Key /\ IsCreation(CreationKey(t))
           /\ CreationKey(t).gen = Target(t) /\ CreationKey(t).pred = t.pred
           /\ t # None /\ t # NoMarker
<1>1. t.from \in 0..(MaxGeneration - 1) /\ t.pred \in Sessions \cup {0} /\ t.cause \in Causes
  BY DEF Transition
<1>2. Target(t) \in 1..MaxGeneration /\ Target(t) = t.from + 1 /\ t.from \in Nat
  BY <1>1, LineageAssumption DEF Target
<1>3. CreationKey(t) \in Key /\ CreationKey(t).gen = Target(t) /\ CreationKey(t).pred = t.pred
  BY <1>1, <1>2 DEF CreationKey, Key
<1>4. IsCreation(CreationKey(t))
  BY <1>2, <1>3 DEF IsCreation
<1>5. t # None /\ t # NoMarker
  <2>1. NoMarker.cause = None
    BY DEF NoMarker
  <2> QED
    BY <1>1, <2>1, LineageAssumption, NoneAssumption
<1> QED
  BY <1>1, <1>2, <1>3, <1>4, <1>5

LEMMA SessionsTyped ==
    ASSUME RecordsOK, SessionsOK
    PROVE  /\ DOMAIN sessions = 1..Len(sessions) /\ DOMAIN sessions \subseteq Sessions
           /\ Created \subseteq DOMAIN sessions /\ Len(sessions) \in Nat
BY LineageAssumption DEF RecordsOK, SessionsOK, Sessions, Created

LEMMA RequestedTyped == ASSUME RecordsOK, SessionsOK PROVE Requested \subseteq Key
BY TransitionFields DEF RecordsOK, SessionsOK, Requested

LEMMA InitIInv == Init => IInv
<1> SUFFICES ASSUME Init PROVE IInv
  OBVIOUS
<1>1. sessions = <<NoMarker>> /\ DOMAIN sessions = {1} /\ Len(sessions) = 1 /\ sessions[1] = NoMarker
  BY DEF Init
<1>2. Created = {} /\ late = {}
  BY <1>1 DEF Init, Created
<1>3. lane \in Lane /\ lane.gen = 1 /\ lane.fp = 1 /\ lane.pending = None /\ lane.tkey = None
  <2>1. 1 \in 1..MaxGeneration /\ 1 \in Sessions
    BY LineageAssumption DEF Sessions
  <2> QED
    BY <2>1 DEF Init, Lane
<1>4. \A r \in Runners : run[r] = Idle
  BY DEF Init
<1>5. RecordsOK
  <2>1. ops \in [Key -> Operation]
    BY DEF Init, Operation, OpStates
  <2>2. account \in [count : Nat, seen : Seq([key : Key, t : Transition])]
    BY DEF Init
  <2>3. sessions \in Seq(Transition \cup {NoMarker})
    BY DEF Init
  <2>4. run \in [Runners -> Run]
    BY IdleTyped DEF Init
  <2> QED
    BY <1>3, <2>1, <2>2, <2>3, <2>4 DEF Init, RecordsOK
<1>6. SessionsOK
  BY <1>1, <1>2, LineageAssumption DEF SessionsOK
<1>7. \A r \in Runners : Job(r)
  BY <1>4 DEF Job, Knows, HasClaim, Holding, Idle, Effect, Claims, Free, Lawful
<1>8. Exclusive
  BY <1>4 DEF Exclusive, Idle, Claims
<1>9. RequestedClaimed /\ OneRequest /\ LaneOK
  BY <1>2, <1>3 DEF RequestedClaimed, Requested, OneRequest, LaneOK, Lawful
<1>10. Ordered
  <2>1. Live \subseteq {None}
    BY <1>2, <1>3, <1>4 DEF Live, Idle
  <2> DEFINE h == [g \in 1..MaxGeneration |-> 1]
  <2>2. h \in [1..MaxGeneration -> Sessions] /\ h[lane.gen] = lane.fp
    BY <1>3, LineageAssumption DEF Sessions
  <2> HIDE DEF h
  <2> QED
    BY <2>1, <2>2 DEF Ordered
<1> QED
  BY <1>5, <1>6, <1>7, <1>8, <1>9, <1>10 DEF IInv

-----------------------------------------------------------------------------
(* What a job does next *)

\* Job r goes on with what it knows; the others stay where they are.
Continues(r) ==
    /\ run' \in [Runners -> Run]
    /\ \A q \in Runners \ {r} : run'[q] = run[q]
    /\ Knows(run'[r])
    /\ run'[r].pc \in Claims => run[r].pc \in Claims /\ run'[r].key = run[r].key
    /\ run'[r].t \in {run[r].t, None} /\ run'[r].saw \in {run[r].saw, None}

LEMMA BecomeMoves ==
    ASSUME RecordsOK, NEW r \in Runners, NEW rec \in Run, Become(r, rec)
    PROVE  /\ run' \in [Runners -> Run] /\ run'[r] = rec
           /\ \A q \in Runners \ {r} : run'[q] = run[q]
BY DEF RecordsOK, Become

LEMMA StopContinues == ASSUME RecordsOK, NEW r \in Runners, Stop(r) PROVE Continues(r)
<1>1. /\ run' \in [Runners -> Run] /\ run'[r] = Idle
      /\ \A q \in Runners \ {r} : run'[q] = run[q]
  BY IdleTyped, BecomeMoves DEF Stop
<1>2. Knows(Idle) /\ Idle.pc \notin Claims /\ Idle.t = None /\ Idle.saw = None
  BY DEF Knows, Holding, Idle, Effect, Claims, Free
<1> QED
  BY <1>1, <1>2 DEF Continues

\* A change of step alone.
LEMMA RecContinues ==
    ASSUME RecordsOK, NEW r \in Runners, NEW rec \in Run, Become(r, rec), Knows(run[r]), Knows(rec),
           rec.pc \in Claims => run[r].pc \in Claims,
           rec.key = run[r].key, rec.t = run[r].t, rec.saw = run[r].saw
    PROVE  Continues(r)
BY BecomeMoves DEF Continues

LEMMA GotoContinues ==
    ASSUME RecordsOK, NEW r \in Runners, Knows(run[r]), NEW l \in PCs, Goto(r, l),
           run[r].pc \notin Free, l # "restore", l \notin {"unknown"},
           l = "unknownlane" => run[r].pc = "unknown",
           l \in Effect => run[r].pc \in Effect,
           l \in Claims => run[r].pc \in Claims,
           l \in {"confirm", "confirmlane"} => run[r].pc \in {"confirm", "confirmlane"},
           l \in {"bind", "account", "clear"} => Holding(run[r]),
           l \in {"account", "clear"} => run[r].t.from >= 1
    PROVE  Continues(r)
<1> DEFINE rec == [run[r] EXCEPT !.pc = l]
<1>1. run[r] \in Run
  BY DEF RecordsOK
<1>2. /\ rec \in Run /\ rec.pc = l /\ rec.then = run[r].then /\ rec.key = run[r].key
      /\ rec.t = run[r].t /\ rec.fp = run[r].fp /\ rec.saw = run[r].saw /\ rec.match = run[r].match
  BY <1>1 DEF Run
<1>3. Become(r, rec)
  BY DEF Goto
<1> HIDE DEF rec
<1>4. Holding(rec) => Holding(run[r])
  BY <1>2 DEF Holding
<1>5. Knows(rec)
  BY <1>2, <1>4 DEF Knows
<1> QED
  BY <1>2, <1>3, <1>5, RecContinues

LEMMA LeaveContinues ==
    ASSUME RecordsOK, NEW r \in Runners, Knows(run[r]), NEW l \in {"idle", "unknown", "bind"},
           Leave(r, l), run[r].pc \notin Free, l = "bind" => Holding(run[r])
    PROVE  Continues(r)
<1> DEFINE rec == [run[r] EXCEPT !.pc = "restore", !.then = l]
<1>1. run[r] \in Run
  BY DEF RecordsOK
<1>2. /\ rec \in Run /\ rec.pc = "restore" /\ rec.then = l /\ rec.key = run[r].key
      /\ rec.t = run[r].t /\ rec.fp = run[r].fp /\ rec.saw = run[r].saw /\ rec.match = run[r].match
  BY <1>1 DEF Run, PCs
<1>3. Become(r, rec)
  BY DEF Leave
<1> HIDE DEF rec
<1>4. Knows(rec)
  BY <1>2 DEF Knows, Holding, Effect, Free
<1> QED
  BY <1>2, <1>3, <1>4, RecContinues DEF Claims

LEMMA NoteContinues ==
    ASSUME RecordsOK, NEW r \in Runners, Knows(run[r]), NEW l \in {"idle", "restore"},
           NoteUnknown(r, l), run[r].pc \notin Free
    PROVE  Continues(r)
<1> DEFINE rec == [run[r] EXCEPT !.pc = "unknown", !.then = l]
<1>1. run[r] \in Run
  BY DEF RecordsOK
<1>2. /\ rec \in Run /\ rec.pc = "unknown" /\ rec.then = l /\ rec.key = run[r].key
      /\ rec.t = run[r].t /\ rec.fp = run[r].fp /\ rec.saw = run[r].saw /\ rec.match = run[r].match
  BY <1>1 DEF Run, PCs
<1>3. Become(r, rec)
  BY DEF NoteUnknown
<1> HIDE DEF rec
<1>4. Knows(rec)
  BY <1>2 DEF Knows, Holding, Effect, Free
<1> QED
  BY <1>2, <1>3, <1>4, RecContinues DEF Claims

LEMMA ResumeContinues ==
    ASSUME RecordsOK, NEW r \in Runners, Knows(run[r]), run[r].pc \in {"unknown", "unknownlane", "restore"},
           Resume(r, run[r].then)
    PROVE  Continues(r)
<1>1. run[r].then \in {"idle", "restore", "unknown", "bind"} /\ run[r].pc \notin Free
  BY DEF Knows, Free
<1>2. CASE run[r].then = "idle"
  BY <1>2, StopContinues DEF Resume
<1>3. CASE run[r].then = "restore"
  <2>1. Leave(r, "idle")
    BY <1>3 DEF Resume
  <2> QED
    BY <1>1, <2>1, LeaveContinues
<1>4. CASE run[r].then = "unknown"
  <2>1. NoteUnknown(r, "idle")
    BY <1>4 DEF Resume
  <2> QED
    BY <1>1, <2>1, NoteContinues
<1>5. CASE run[r].then = "bind"
  <2>1. Goto(r, "bind") /\ run[r].pc = "restore" /\ Holding(run[r])
    BY <1>5 DEF Resume, Knows, Holding
  <2> QED
    BY <1>1, <2>1, GotoContinues DEF PCs, Effect, Claims
<1> QED
  BY <1>1, <1>2, <1>3, <1>4, <1>5

LEMMA AbandonContinues ==
    ASSUME RecordsOK, NEW r \in Runners, Knows(run[r]), Abandon(r), run[r].pc \notin Free
    PROVE  Continues(r)
BY StopContinues, LeaveContinues DEF Abandon

-----------------------------------------------------------------------------
(* The history of the lineage *)

\* The generation stays; a new transition starts from it.
LEMMA HistoryStays ==
    ASSUME IInv, lane' \in Lane, lane'.gen = lane.gen, lane'.fp = lane.fp,
           \A t \in Live' \ {None} :
              \/ t \in Live
              \/ t.from = lane.gen /\ t.pred = lane.fp
              \/ t.from = 0 /\ t.pred = 0
    PROVE  Ordered'
<1>1. PICK h \in [1..MaxGeneration -> Sessions] :
         h[lane.gen] = lane.fp /\ \A t \in Live \ {None} : Past(h, t)
  BY DEF IInv, Ordered
<1>2. lane.gen \in 1..MaxGeneration
  BY DEF IInv, RecordsOK, Lane
<1>3. ASSUME NEW t \in Live' \ {None} PROVE Past(h, t)'
  BY <1>1, <1>2, <1>3 DEF Past
<1> QED
  BY <1>1, <1>3 DEF Ordered

\* The generation is the next one.
LEMMA HistoryMoves ==
    ASSUME IInv, lane' \in Lane, lane'.gen = lane.gen + 1, Live' \subseteq Live \cup {None},
           \A t \in Live \ {None} : t \in Transition
    PROVE  Ordered'
<1>1. PICK h \in [1..MaxGeneration -> Sessions] :
         h[lane.gen] = lane.fp /\ \A t \in Live \ {None} : Past(h, t)
  BY DEF IInv, Ordered
<1>2. lane.gen \in 1..MaxGeneration /\ lane'.gen \in 1..MaxGeneration /\ lane'.fp \in Sessions
  BY DEF IInv, RecordsOK, Lane
<1>3. PICK k \in [1..MaxGeneration -> Sessions] :
         k[lane'.gen] = lane'.fp /\ \A g \in 1..MaxGeneration : g # lane'.gen => k[g] = h[g]
  <2> DEFINE n == [h EXCEPT ![lane'.gen] = lane'.fp]
  <2>1. /\ n \in [1..MaxGeneration -> Sessions] /\ n[lane'.gen] = lane'.fp
        /\ \A g \in 1..MaxGeneration : g # lane'.gen => n[g] = h[g]
    BY <1>2
  <2> HIDE DEF n
  <2> QED
    BY <2>1
<1>4. ASSUME NEW t \in Live' \ {None} PROVE Past(k, t)'
  <2>1. Past(h, t)
    BY <1>1, <1>4
  <2>2. CASE t.from = 0 /\ t.pred = 0
    BY <2>2 DEF Past
  <2>3. CASE t.from \in 1..lane.gen /\ t.pred = h[t.from]
    <3>1. t.from \in 1..lane'.gen /\ t.from # lane'.gen /\ t.from \in 1..MaxGeneration
      BY <1>2, <2>3, LineageAssumption
    <3> QED
      BY <1>3, <2>3, <3>1 DEF Past
  <2> QED
    BY <2>1, <2>2, <2>3 DEF Past
<1> QED
  BY <1>3, <1>4 DEF Ordered

LEMMA LiveTyped == ASSUME RecordsOK, SessionsOK, NEW t \in Live \ {None} PROVE t \in Transition
<1>1. \A r \in Runners : run[r] \in Run
  BY DEF RecordsOK
<1>2. \A r \in Runners : run[r].t \in Transition \cup {None} /\ run[r].saw \in Transition \cup {None}
  BY <1>1 DEF Run
<1>3. lane.pending \in Transition \cup {None}
  BY DEF RecordsOK, Lane
<1>4. \A e \in late : e[2] \in Transition \cup {None}
  BY DEF RecordsOK
<1> QED
  BY <1>2, <1>3, <1>4 DEF Live, SessionsOK

\* A job that goes on names nothing new.
LEMMA LiveStays ==
    ASSUME NEW r \in Runners, Continues(r), UNCHANGED <<sessions, late>>,
           lane'.pending \in Live \cup {None}
    PROVE  Live' \subseteq Live \cup {None}
<1>1. run[r].t \in Live /\ run[r].saw \in Live
  BY DEF Live
<1>2. \A q \in Runners : run'[q].t \in Live \cup {None} /\ run'[q].saw \in Live \cup {None}
  <2> TAKE q \in Runners
  <2>1. CASE q = r
    BY <1>1, <2>1 DEF Continues
  <2>2. CASE q # r
    BY <2>2 DEF Continues, Live
  <2> QED
    BY <2>1, <2>2
<1>3. /\ {sessions[s] : s \in Created}' = {sessions[s] : s \in Created}
      /\ {e[2] : e \in late}' = {e[2] : e \in late}
  BY DEF Created
<1> QED
  BY <1>2, <1>3 DEF Live

-----------------------------------------------------------------------------
(* Steps that do not reach the provider *)

\* A step of one job that gives up no claim, and takes only one that nobody has.
LEMMA StoreStep ==
    ASSUME IInv, NEW r \in Runners, UNCHANGED <<sessions, delivered, late>>,
           run' \in [Runners -> Run], \A q \in Runners \ {r} : run'[q] = run[q],
           lane' \in Lane, LaneOK', Ordered',
           ops' \in [Key -> Operation],
           \A k \in Key : ops[k].state # "MISSING" => ops'[k].state # "MISSING",
           account' \in [count : Nat, seen : Seq([key : Key, t : Transition])],
           Job(r)',
           run'[r].pc \in Claims /\ IsCreation(run'[r].key) =>
               \/ ops[run'[r].key].state = "MISSING"
               \/ run[r].pc \in Claims /\ run'[r].key = run[r].key
    PROVE  IInv'
<1>1. Requested' = Requested /\ Created' = Created /\ Requested \subseteq Key
  BY RequestedTyped DEF Requested, Created, IInv
<1>2. RecordsOK' /\ SessionsOK'
  BY <1>1 DEF IInv, RecordsOK, SessionsOK
<1>3. \A q \in Runners \ {r} : Job(q)'
  <2> SUFFICES ASSUME NEW q \in Runners \ {r} PROVE Job(q)'
    OBVIOUS
  <2>1. Job(q) /\ run'[q] = run[q]
    BY DEF IInv
  <2>2. run[q].pc \in Claims => run[q].key \in Key
    BY <2>1 DEF Job, Knows, Claims, Free
  <2>3. Knows(run[q])'
    BY <2>1 DEF Job, Knows, Lawful, Created
  <2>4. HasClaim(run[q])'
    BY <1>1, <2>1, <2>2 DEF Job, HasClaim
  <2> QED
    BY <2>3, <2>4 DEF Job
<1>4. \A q \in Runners : run[q].pc \in Claims /\ IsCreation(run[q].key)
                             => ops[run[q].key].state # "MISSING"
  BY DEF IInv, Job, HasClaim
<1>5. Exclusive'
  <2> SUFFICES ASSUME NEW q \in Runners, NEW p \in Runners, q # p,
                      run'[q].pc \in Claims, run'[p].pc \in Claims,
                      IsCreation(run'[q].key), IsCreation(run'[p].key)
               PROVE  run'[q].key # run'[p].key
    BY DEF Exclusive
  <2>1. CASE q # r /\ p # r
    BY <2>1 DEF IInv, Exclusive
  <2>2. CASE q = r
    BY <1>4, <2>2 DEF IInv, Exclusive
  <2>3. CASE p = r
    BY <1>4, <2>3 DEF IInv, Exclusive
  <2> QED
    BY <2>1, <2>2, <2>3
<1>6. RequestedClaimed' /\ OneRequest'
  BY <1>1 DEF IInv, RequestedClaimed, OneRequest
<1>7. \A q \in Runners : Job(q)'
  BY <1>3
<1> QED
  BY <1>2, <1>5, <1>6, <1>7 DEF IInv

LEMMA ContinuesJob ==
    ASSUME IInv, NEW r \in Runners, Continues(r), UNCHANGED <<sessions, late>>,
           \A k \in Key : ops[k].state # "MISSING" => ops'[k].state # "MISSING"
    PROVE  Job(r)'
<1>1. Requested' = Requested /\ Job(r)
  BY DEF Requested, Created, IInv
<1>2. run[r].pc \in Claims => run[r].key \in Key
  BY <1>1 DEF Job, Knows, Claims, Free
<1>3. Knows(run[r])'
  BY DEF Continues, Knows, Lawful, Created
<1>4. HasClaim(run[r])'
  BY <1>1, <1>2 DEF Continues, HasClaim, Job
<1> QED
  BY <1>3, <1>4 DEF Job

LEMMA LaneTyped == IInv => lane \in Lane
BY DEF IInv, RecordsOK

\* A job goes on and writes the lane, not its binding.
LEMMA LaneStep ==
    ASSUME IInv, NEW r \in Runners, Continues(r), UNCHANGED <<ops, account, provider>>,
           lane' \in Lane, lane'.gen = lane.gen, lane'.fp = lane.fp,
           lane'.tkey \in {lane.tkey, None}, lane'.pending \in Live \cup {None}
    PROVE  IInv'
<1>1. UNCHANGED <<sessions, delivered, late>>
  BY DEF provider
<1>2. Job(r)' /\ Live' \subseteq Live \cup {None}
  BY <1>1, ContinuesJob, LiveStays
<1>3. Ordered'
  BY <1>2, HistoryStays
<1>4. LaneOK'
  BY <1>1 DEF IInv, LaneOK, BoundToItsTransition, Lawful, Created
<1>5. /\ ops' \in [Key -> Operation]
      /\ account' \in [count : Nat, seen : Seq([key : Key, t : Transition])]
  BY DEF IInv, RecordsOK
<1> QED
  BY <1>1, <1>2, <1>3, <1>4, <1>5, StoreStep DEF Continues

\* A job goes on and binds the lane to the next generation.
LEMMA BindingStep ==
    ASSUME IInv, NEW r \in Runners, Continues(r), UNCHANGED <<ops, account, provider>>,
           lane' \in Lane, lane'.gen = lane.gen + 1, LaneOK', lane'.pending \in Live \cup {None}
    PROVE  IInv'
<1>1. UNCHANGED <<sessions, delivered, late>>
  BY DEF provider
<1>2. Job(r)' /\ Live' \subseteq Live \cup {None}
  BY <1>1, ContinuesJob, LiveStays
<1>3. Ordered'
  BY <1>2, HistoryMoves, LiveTyped DEF IInv
<1>4. /\ ops' \in [Key -> Operation]
      /\ account' \in [count : Nat, seen : Seq([key : Key, t : Transition])]
  BY DEF IInv, RecordsOK
<1> QED
  BY <1>1, <1>2, <1>3, <1>4, StoreStep DEF Continues

\* A job goes on and writes its operation or the accounting, or nothing.
LEMMA RecordStep ==
    ASSUME IInv, NEW r \in Runners, Continues(r), UNCHANGED <<lane, provider>>,
           ops' \in [Key -> Operation],
           \A k \in Key : ops[k].state # "MISSING" => ops'[k].state # "MISSING",
           account' \in [count : Nat, seen : Seq([key : Key, t : Transition])]
    PROVE  IInv'
<1>1. UNCHANGED <<sessions, delivered, late>>
  BY DEF provider
<1>2. lane' \in Lane /\ lane.pending \in Live
  BY LaneTyped DEF Live
<1>3. Job(r)' /\ Live' \subseteq Live \cup {None}
  BY <1>1, <1>2, ContinuesJob, LiveStays
<1>4. Ordered' /\ LaneOK'
  BY <1>1, <1>2, <1>3, HistoryStays DEF IInv, LaneOK, BoundToItsTransition, Lawful, Created
<1> QED
  BY <1>1, <1>2, <1>3, <1>4, StoreStep DEF Continues

LEMMA QuietStep ==
    ASSUME IInv, NEW r \in Runners, Continues(r), UNCHANGED <<store, provider>>
    PROVE  IInv'
<1>1. UNCHANGED <<lane, provider>> /\ UNCHANGED ops /\ UNCHANGED account
  BY DEF store
<1>2. /\ ops \in [Key -> Operation]
      /\ account \in [count : Nat, seen : Seq([key : Key, t : Transition])]
  BY DEF IInv, RecordsOK
<1> QED
  BY <1>1, <1>2, RecordStep

-----------------------------------------------------------------------------
(* A job starts *)

\* A job takes up something new; its transition is known or starts from the lane.
LEMMA StartStep ==
    ASSUME IInv, NEW r \in Runners, NEW rec \in Run, Become(r, rec), UNCHANGED <<store, provider>>,
           Knows(rec), rec.pc \notin Claims,
           \/ rec.t \in Live \cup {None}
           \/ rec.t.from = lane.gen /\ rec.t.pred = lane.fp
           \/ rec.t.from = 0 /\ rec.t.pred = 0,
           rec.saw \in Live \cup {None}
    PROVE  IInv'
<1>1. UNCHANGED <<lane, ops, account, sessions, delivered, late>>
  BY DEF store, provider
<1>2. /\ run' \in [Runners -> Run] /\ run'[r] = rec
      /\ \A q \in Runners \ {r} : run'[q] = run[q]
  BY BecomeMoves DEF IInv
<1>3. Live' \subseteq Live \cup {None, rec.t}
  <2>1. \A q \in Runners : run'[q].t \in Live \cup {None, rec.t} /\ run'[q].saw \in Live \cup {None}
    <3> TAKE q \in Runners
    <3>1. CASE q = r
      BY <1>2, <3>1
    <3>2. CASE q # r
      BY <1>2, <3>2 DEF Live
    <3> QED
      BY <3>1, <3>2
  <2>2. /\ {sessions[s] : s \in Created}' = {sessions[s] : s \in Created}
        /\ {e[2] : e \in late}' = {e[2] : e \in late} /\ lane'.pending = lane.pending
    BY <1>1 DEF Created
  <2> QED
    BY <2>1, <2>2 DEF Live
<1>4. lane' \in Lane /\ lane'.gen = lane.gen /\ lane'.fp = lane.fp
  BY <1>1, LaneTyped
<1>5. Ordered'
  BY <1>3, <1>4, HistoryStays
<1>6. LaneOK'
  BY <1>1 DEF IInv, LaneOK, BoundToItsTransition, Lawful, Created
<1>7. Job(r)'
  <2>1. Knows(run[r])'
    BY <1>1, <1>2 DEF Knows, Lawful, Created
  <2>2. HasClaim(run[r])'
    BY <1>2 DEF HasClaim
  <2> QED
    BY <2>1, <2>2 DEF Job
<1>8. /\ ops' \in [Key -> Operation]
      /\ account' \in [count : Nat, seen : Seq([key : Key, t : Transition])]
  BY <1>1 DEF IInv, RecordsOK
<1> QED
  BY <1>1, <1>2, <1>4, <1>5, <1>6, <1>7, <1>8, StoreStep

\* The intention of a transition, from what was read of the lane or from nothing.
LEMMA IntendKeeps ==
    ASSUME IInv, NEW r \in Runners, NEW t \in Transition, Intend(r, t), UNCHANGED <<store, provider>>,
           (t.from = lane.gen /\ t.pred = lane.fp) \/ (t.from = 0 /\ t.pred = 0)
    PROVE  IInv'
<1> DEFINE rec == [Idle EXCEPT !.pc = "pending", !.t = t, !.key = CreationKey(t)]
<1>1. CreationKey(t) \in Key
  BY TransitionFields
<1>2. /\ rec \in Run /\ rec.pc = "pending" /\ rec.t = t /\ rec.key = CreationKey(t)
      /\ rec.then = "idle" /\ rec.saw = None /\ rec.match = 0
  BY <1>1, IdleTyped DEF Run, PCs, Idle
<1>3. Become(r, rec)
  BY DEF Intend
<1> HIDE DEF rec
<1>4. Knows(rec)
  BY <1>1, <1>2 DEF Knows, Holding, Effect, Free
<1> QED
  BY <1>2, <1>3, <1>4, StartStep DEF Claims

LEMMA StartGenerationKeeps ==
    ASSUME IInv, NEW r \in Runners, NEW c \in Causes, StartGeneration(r, c) PROVE IInv'
<1> DEFINE t == FromHere(c)
<1>1. lane.gen \in 1..MaxGeneration /\ lane.fp \in Sessions /\ lane.gen < MaxGeneration
  BY LaneTyped DEF Lane, StartGeneration
<1>2. t \in Transition /\ t.from = lane.gen /\ t.pred = lane.fp
  BY <1>1, LineageAssumption DEF FromHere, Transition
<1>3. Intend(r, t) /\ UNCHANGED <<store, provider>>
  BY DEF StartGeneration, store, provider
<1> HIDE DEF t
<1> QED
  BY <1>2, <1>3, IntendKeeps

LEMMA StartUnreadKeeps ==
    ASSUME IInv, NEW r \in Runners, NEW c \in Causes, StartGenerationUnread(r, c) PROVE IInv'
<1> DEFINE t == FromNothing(c)
<1>1. t \in Transition /\ t.from = 0 /\ t.pred = 0
  BY LineageAssumption DEF FromNothing, Transition
<1>2. Intend(r, t) /\ UNCHANGED <<store, provider>>
  BY DEF StartGenerationUnread
<1> HIDE DEF t
<1> QED
  BY <1>1, <1>2, IntendKeeps

LEMMA StartMessageKeeps == ASSUME IInv, NEW r \in Runners, StartMessage(r) PROVE IInv'
<1> DEFINE k == MessageKey(lane.fp)
<1>1. k \in Key /\ ~IsCreation(k)
  BY LaneTyped, LineageAssumption DEF Lane, MessageKey, Key, IsCreation
<1> HIDE DEF k
<1> DEFINE rec == [Idle EXCEPT !.pc = "authorize", !.key = k]
<1>2. /\ rec \in Run /\ rec.pc = "authorize" /\ rec.t = None /\ rec.key = k
      /\ rec.then = "idle" /\ rec.saw = None /\ rec.match = 0
  BY <1>1, IdleTyped DEF Run, PCs, Idle
<1>3. Become(r, rec) /\ UNCHANGED <<store, provider>>
  BY DEF StartMessage, k, store, provider
<1> HIDE DEF rec
<1>4. Knows(rec)
  BY <1>1, <1>2 DEF Knows, Holding, Effect, Free
<1> QED
  BY <1>2, <1>3, <1>4, StartStep DEF Claims

LEMMA StartReconcileKeeps == ASSUME IInv, NEW r \in Runners, StartReconcile(r) PROVE IInv'
<1>1. PICK listed \in SUBSET Marked(lane.pending) :
         /\ Cardinality(listed) = 1
         /\ Become(r, [Idle EXCEPT !.pc = "confirm", !.key = lane.unknown,
                                   !.t = lane.pending, !.then = "bind",
                                   !.fp = CHOOSE s \in listed : TRUE])
  BY DEF StartReconcile
<1> DEFINE i == CHOOSE s \in listed : TRUE
<1>2. listed # {}
  BY <1>1, FS_EmptySet
<1>3. i \in listed
  BY <1>2
<1>4. i \in DOMAIN sessions /\ sessions[i] = lane.pending
  BY <1>3 DEF Marked
<1>5. i \in Sessions
  BY <1>4, SessionsTyped DEF IInv
<1>6. lane.pending \in Transition /\ lane.unknown \in Key
  BY LaneTyped DEF StartReconcile, Unresolved, Lane
<1> HIDE DEF i
<1> DEFINE rec == [Idle EXCEPT !.pc = "confirm", !.key = lane.unknown, !.t = lane.pending,
                               !.then = "bind", !.fp = i]
<1>7. /\ rec \in Run /\ rec.pc = "confirm" /\ rec.t = lane.pending /\ rec.key = lane.unknown
      /\ rec.then = "bind" /\ rec.saw = None /\ rec.fp = i /\ rec.match = 0
  BY <1>5, <1>6, IdleTyped DEF Run, PCs, Idle
<1>8. Become(r, rec) /\ UNCHANGED <<store, provider>>
  BY <1>1 DEF StartReconcile, i, store, provider
<1> HIDE DEF rec
<1>9. Knows(rec)
  BY <1>4, <1>6, <1>7 DEF Knows, Holding, Effect, Free
<1>10. rec.t \in Live
  BY <1>7 DEF Live
<1> QED
  BY <1>7, <1>8, <1>9, <1>10, StartStep DEF Claims

LEMMA StartObservationKeeps == ASSUME IInv, NEW r \in Runners, StartObservation(r) PROVE IInv'
<1>1. PICK s \in {0, lane.fp} : Become(r, [Idle EXCEPT !.pc = "before", !.match = s])
  BY DEF StartObservation
<1> DEFINE rec == [Idle EXCEPT !.pc = "before", !.match = s]
<1>2. s \in Sessions \cup {0}
  BY LaneTyped DEF Lane
<1>3. rec \in Run /\ rec.pc = "before" /\ rec.t = None /\ rec.saw = None /\ rec.match = s
  BY <1>2, IdleTyped DEF Run, PCs, Idle
<1>4. Become(r, rec) /\ UNCHANGED <<store, provider>>
  BY <1>1 DEF StartObservation, store, provider
<1> HIDE DEF rec
<1>5. Knows(rec)
  <2>1. s # 0 => Lawful(s)
    BY DEF IInv, LaneOK
  <2> QED
    BY <1>3, <2>1 DEF Knows, Holding, Effect, Free
<1> QED
  BY <1>3, <1>4, <1>5, StartStep DEF Claims

LEMMA ReadBeforeKeeps == ASSUME IInv, NEW r \in Runners, ReadBefore(r) PROVE IInv'
<1> DEFINE u == IF lane.pending = None THEN None ELSE lane.unknown
<1>1. run[r] \in Run /\ lane \in Lane /\ Knows(run[r])
  BY LaneTyped DEF IInv, RecordsOK, Job
<1>2. lane.pending \in Transition \cup {None} /\ u \in Key \cup {None}
  BY <1>1 DEF Lane
<1> HIDE DEF u
<1> DEFINE rec == [run[r] EXCEPT !.pc = "upsert", !.saw = lane.pending, !.sawUnknown = u]
<1>3. /\ rec \in Run /\ rec.pc = "upsert" /\ rec.t = run[r].t /\ rec.saw = lane.pending
      /\ rec.match = run[r].match
  BY <1>1, <1>2 DEF Run, PCs
<1>4. Become(r, rec) /\ UNCHANGED <<store, provider>>
  BY DEF ReadBefore, u, store, provider
<1> HIDE DEF rec
<1>5. Knows(rec)
  BY <1>1, <1>3 DEF Knows, Holding, Effect, Free
<1>6. rec.t \in Live /\ rec.saw \in Live
  BY <1>3 DEF Live
<1> QED
  BY <1>3, <1>4, <1>5, <1>6, StartStep DEF Claims

-----------------------------------------------------------------------------
(* Steps that write the lane *)

\* What a job knows, and what its lane is.
LEMMA JobFacts ==
    ASSUME IInv, NEW r \in Runners
    PROVE  /\ RecordsOK /\ lane \in Lane /\ run[r] \in Run /\ Knows(run[r]) /\ HasClaim(run[r])
           /\ lane.pending \in Live /\ run[r].t \in Live /\ run[r].saw \in Live
BY DEF IInv, RecordsOK, Job, Live

\* The write of a lane that keeps its binding, whatever becomes of it.
LEMMA WriteKeeps ==
    ASSUME IInv, NEW r \in Runners, Continues(r), UNCHANGED <<ops, account, provider>>,
           NEW new \in Lane, lane' \in {lane, new}, new.gen = lane.gen, new.fp = lane.fp,
           new.tkey \in {lane.tkey, None}, new.pending \in Live \cup {None}
    PROVE  IInv'
BY LaneStep, LaneTyped DEF Live

LEMMA PersistPendingKeeps == ASSUME IInv, NEW r \in Runners, PersistPending(r) PROVE IInv'
<1>1. /\ RecordsOK /\ lane \in Lane /\ run[r] \in Run /\ Knows(run[r]) /\ run[r].pc = "pending"
      /\ run[r].t \in Live
  BY JobFacts DEF PersistPending, At
<1> DEFINE new == [lane EXCEPT !.pending = run[r].t, !.open = FALSE]
<1>2. /\ new \in Lane /\ new.gen = lane.gen /\ new.fp = lane.fp /\ new.tkey = lane.tkey
      /\ new.pending = run[r].t
  BY <1>1 DEF Lane, Run
<1>3. lane' \in {lane, new} /\ (Goto(r, "authorize") \/ Stop(r))
  BY DEF PersistPending, Write
<1>4. UNCHANGED <<ops, account, provider>>
  BY DEF PersistPending
<1> HIDE DEF new
<1>5. Continues(r)
  BY <1>1, <1>3, StopContinues, GotoContinues DEF PCs, Free, Effect, Claims
<1> QED
  BY <1>1, <1>2, <1>3, <1>4, <1>5, WriteKeeps

LEMMA AuthorizeKeeps == ASSUME IInv, NEW r \in Runners, Authorize(r) PROVE IInv'
<1>1. /\ RecordsOK /\ lane \in Lane /\ Knows(run[r]) /\ run[r].pc = "authorize" /\ lane.pending \in Live
  BY JobFacts DEF Authorize, At
<1> DEFINE new == [lane EXCEPT !.open = TRUE]
<1>2. /\ new \in Lane /\ new.gen = lane.gen /\ new.fp = lane.fp /\ new.tkey = lane.tkey
      /\ new.pending = lane.pending
  BY <1>1 DEF Lane
<1>3. lane' \in {lane, new} /\ (Goto(r, "claim") \/ Stop(r))
  BY DEF Authorize, Write
<1>4. UNCHANGED <<ops, account, provider>>
  BY DEF Authorize
<1> HIDE DEF new
<1>5. Continues(r)
  BY <1>1, <1>3, StopContinues, GotoContinues DEF PCs, Free, Effect, Claims
<1> QED
  BY <1>1, <1>2, <1>3, <1>4, <1>5, WriteKeeps

LEMMA ClaimReadKeeps == ASSUME IInv, NEW r \in Runners, ClaimRead(r) PROVE IInv'
<1>1. RecordsOK /\ Knows(run[r]) /\ run[r].pc = "claim"
  BY JobFacts DEF ClaimRead, At
<1>2. Goto(r, "lease") \/ Leave(r, "unknown") \/ Leave(r, "idle")
  BY DEF ClaimRead, ReadOnly
<1>3. UNCHANGED <<store, provider>>
  BY DEF ClaimRead
<1>4. Continues(r)
  BY <1>1, <1>2, GotoContinues, LeaveContinues DEF PCs, Free, Effect, Claims
<1> QED
  BY <1>3, <1>4, QuietStep

LEMMA AcquireLeaseKeeps == ASSUME IInv, NEW r \in Runners, AcquireLease(r) PROVE IInv'
<1>1. /\ RecordsOK /\ lane \in Lane /\ Knows(run[r]) /\ run[r].pc = "lease" /\ lane.pending \in Live
  BY JobFacts DEF AcquireLease, At
<1> DEFINE lease == [holder |-> r, key |-> run[r].key, live |-> TRUE]
<1>2. lease \in Lease
  BY <1>1 DEF Lease, Knows, Free
<1> HIDE DEF lease
<1> DEFINE new == [lane EXCEPT !.lease = lease]
<1>3. /\ new \in Lane /\ new.gen = lane.gen /\ new.fp = lane.fp /\ new.tkey = lane.tkey
      /\ new.pending = lane.pending
  BY <1>1, <1>2 DEF Lane
<1>4. lane' \in {lane, new} /\ (Goto(r, "claimop") \/ Leave(r, "idle"))
  BY DEF AcquireLease, Write, lease
<1>5. UNCHANGED <<ops, account, provider>>
  BY DEF AcquireLease
<1> HIDE DEF new
<1>6. Continues(r)
  BY <1>1, <1>4, LeaveContinues, GotoContinues DEF PCs, Free, Effect, Claims
<1> QED
  BY <1>1, <1>3, <1>4, <1>5, <1>6, WriteKeeps

LEMMA MarkLaneKeeps == ASSUME IInv, NEW r \in Runners, MarkLane(r) PROVE IInv'
<1>1. /\ RecordsOK /\ lane \in Lane /\ Knows(run[r]) /\ run[r].pc = "mark" /\ lane.pending \in Live
  BY JobFacts DEF MarkLane, At
<1>2. lane' = lane /\ (Goto(r, "send") \/ Leave(r, "idle"))
  BY DEF MarkLane, Write
<1>3. UNCHANGED <<ops, account, provider>>
  BY DEF MarkLane
<1>4. Continues(r)
  BY <1>1, <1>2, LeaveContinues, GotoContinues DEF PCs, Free, Effect, Claims
<1> QED
  BY <1>1, <1>2, <1>3, <1>4, WriteKeeps

LEMMA ReleaseLeaseKeeps == ASSUME IInv, NEW r \in Runners, ReleaseLease(r) PROVE IInv'
<1>1. /\ RecordsOK /\ lane \in Lane /\ Knows(run[r]) /\ run[r].pc = "release" /\ lane.pending \in Live
  BY JobFacts DEF ReleaseLease, At
<1> DEFINE new == [lane EXCEPT !.lease = NoLease]
<1>2. /\ new \in Lane /\ new.gen = lane.gen /\ new.fp = lane.fp /\ new.tkey = lane.tkey
      /\ new.pending = lane.pending
  BY <1>1 DEF Lane
<1>3. lane' \in {lane, new} /\ Leave(r, "idle")
  BY DEF ReleaseLease, Write
<1>4. UNCHANGED <<ops, account, provider>>
  BY DEF ReleaseLease
<1> HIDE DEF new
<1>5. Continues(r)
  BY <1>1, <1>3, LeaveContinues DEF Free
<1> QED
  BY <1>1, <1>2, <1>3, <1>4, <1>5, WriteKeeps

LEMMA RecordUnknownLaneKeeps == ASSUME IInv, NEW r \in Runners, RecordUnknownLane(r) PROVE IInv'
<1>1. /\ RecordsOK /\ lane \in Lane /\ Knows(run[r]) /\ run[r].pc = "unknownlane" /\ lane.pending \in Live
  BY JobFacts DEF RecordUnknownLane, At
<1>2. run[r].key \in Key
  BY <1>1 DEF Knows, Free
<1> DEFINE new == [lane EXCEPT !.unknown = run[r].key]
<1>3. /\ new \in Lane /\ new.gen = lane.gen /\ new.fp = lane.fp /\ new.tkey = lane.tkey
      /\ new.pending = lane.pending
  BY <1>1, <1>2 DEF Lane
<1>4. lane' \in {lane, new} /\ Resume(r, run[r].then)
  BY DEF RecordUnknownLane, Write
<1>5. UNCHANGED <<ops, account, provider>>
  BY DEF RecordUnknownLane
<1> HIDE DEF new
<1>6. Continues(r)
  BY <1>1, <1>4, ResumeContinues
<1> QED
  BY <1>1, <1>3, <1>4, <1>5, <1>6, WriteKeeps

LEMMA RecordReadbackLaneKeeps == ASSUME IInv, NEW r \in Runners, RecordReadbackLane(r) PROVE IInv'
<1>1. /\ RecordsOK /\ lane \in Lane /\ Knows(run[r]) /\ run[r].pc = "confirmlane" /\ lane.pending \in Live
  BY JobFacts DEF RecordReadbackLane, At
<1> DEFINE new == [lane EXCEPT !.unknown = None,
                               !.lease = IF @.key = run[r].key THEN NoLease ELSE @]
<1>2. /\ new \in Lane /\ new.gen = lane.gen /\ new.fp = lane.fp /\ new.tkey = lane.tkey
      /\ new.pending = lane.pending
  BY <1>1 DEF Lane
<1>3. /\ lane' \in {lane, new}
      /\ \/ Abandon(r)
         \/ Reconciling(r) /\ Goto(r, "bind")
         \/ IsCreation(run[r].key) /\ Leave(r, "bind")
         \/ Leave(r, "idle")
  BY DEF RecordReadbackLane, Write
<1>4. UNCHANGED <<ops, account, provider>>
  BY DEF RecordReadbackLane
<1> HIDE DEF new
<1>5. (Reconciling(r) \/ IsCreation(run[r].key)) => Holding(run[r])
  BY <1>1 DEF Holding, Reconciling
<1>6. Continues(r)
  BY <1>1, <1>3, <1>5, AbandonContinues, GotoContinues, LeaveContinues DEF PCs, Free, Effect, Claims
<1> QED
  BY <1>1, <1>2, <1>3, <1>4, <1>6, WriteKeeps

LEMMA RestoreShadowKeeps == ASSUME IInv, NEW r \in Runners, RestoreShadow(r) PROVE IInv'
<1>1. /\ RecordsOK /\ lane \in Lane /\ Knows(run[r]) /\ run[r].pc = "restore" /\ lane.pending \in Live
  BY JobFacts DEF RestoreShadow, At
<1> DEFINE new == [lane EXCEPT !.open = FALSE]
<1>2. /\ new \in Lane /\ new.gen = lane.gen /\ new.fp = lane.fp /\ new.tkey = lane.tkey
      /\ new.pending = lane.pending
  BY <1>1 DEF Lane
<1>3. lane' \in {lane, new} /\ (Resume(r, run[r].then) \/ Stop(r))
  BY DEF RestoreShadow, Write, ReadOnly
<1>4. UNCHANGED <<ops, account, provider>>
  BY DEF RestoreShadow
<1> HIDE DEF new
<1>5. Continues(r)
  BY <1>1, <1>3, ResumeContinues, StopContinues
<1> QED
  BY <1>1, <1>2, <1>3, <1>4, <1>5, WriteKeeps

LEMMA ClearPendingKeeps == ASSUME IInv, NEW r \in Runners, ClearPending(r) PROVE IInv'
<1>1. /\ RecordsOK /\ lane \in Lane /\ Knows(run[r]) /\ run[r].pc = "clear"
  BY JobFacts DEF ClearPending, At
<1> DEFINE new == [lane EXCEPT !.pending = None]
<1>2. /\ new \in Lane /\ new.gen = lane.gen /\ new.fp = lane.fp /\ new.tkey = lane.tkey
      /\ new.pending = None
  BY <1>1 DEF Lane
<1>3. lane' \in {lane, new} /\ (NoteUnknown(r, "idle") \/ Stop(r))
  BY DEF ClearPending, Write, ReadOnly
<1>4. UNCHANGED <<ops, account, provider>>
  BY DEF ClearPending
<1> HIDE DEF new
<1>5. Continues(r)
  BY <1>1, <1>3, NoteContinues, StopContinues DEF Free
<1> QED
  BY <1>1, <1>2, <1>3, <1>4, <1>5, WriteKeeps

LEMMA PreserveKeeps == ASSUME IInv, NEW r \in Runners, PreserveEffects(r) PROVE IInv'
<1>1. /\ RecordsOK /\ lane \in Lane /\ run[r] \in Run /\ run[r].saw \in Live
  BY JobFacts
<1>2. run[r].saw \in Transition \cup {None} /\ run[r].sawUnknown \in Key \cup {None}
  BY <1>1 DEF Run
<1> DEFINE new == [lane EXCEPT !.pending = run[r].saw, !.open = FALSE,
                          !.unknown = IF run[r].sawUnknown = None THEN @ ELSE run[r].sawUnknown]
<1>3. /\ new \in Lane /\ new.gen = lane.gen /\ new.fp = lane.fp /\ new.tkey = lane.tkey
      /\ new.pending = run[r].saw
  BY <1>1, <1>2 DEF Lane
<1>4. lane' \in {lane, new} /\ Stop(r)
  BY DEF PreserveEffects, Write
<1>5. UNCHANGED <<ops, account, provider>>
  BY DEF PreserveEffects
<1> HIDE DEF new
<1> QED
  BY <1>1, <1>3, <1>4, <1>5, StopContinues, WriteKeeps

\* The lane keeps its generation, or a stale match opens the next one.
LEMMA UpsertKeeps == ASSUME IInv, NEW r \in Runners, Upsert(r) PROVE IInv'
<1>1. /\ RecordsOK /\ lane \in Lane /\ Knows(run[r]) /\ run[r] \in Run /\ run[r].pc = "upsert"
  BY JobFacts DEF Upsert, At
<1> DEFINE new == Matched(lane, run[r].match)
           moved == run[r].match \notin {0, lane.fp}
<1>2. run[r].match \in Sessions \cup {0} /\ new.gen <= MaxGeneration
  BY <1>1 DEF Run, Upsert
<1>3. /\ new.gen = (IF moved THEN lane.gen + 1 ELSE lane.gen)
      /\ new.fp = (IF moved THEN run[r].match ELSE lane.fp)
      /\ new.tkey = None /\ new.pending = None
  BY <1>1 DEF Matched, Lane
<1>4. new \in Lane
  <2>1. new.gen \in 1..MaxGeneration /\ new.fp \in Sessions
    BY <1>1, <1>2, <1>3, LineageAssumption DEF Lane
  <2> QED
    BY <1>1, <2>1 DEF Matched, Lane
<1>5. /\ lane' \in {lane, new}
      /\ Stop(r) \/ Become(r, [run[r] EXCEPT !.pc = "preserve", !.match = 0])
  BY DEF Upsert, Write
<1>6. UNCHANGED <<ops, account, provider>>
  BY DEF Upsert
<1>7. Continues(r)
  <2>1. CASE Stop(r)
    BY <1>1, <2>1, StopContinues
  <2>2. CASE Become(r, [run[r] EXCEPT !.pc = "preserve", !.match = 0])
    <3> DEFINE rec == [run[r] EXCEPT !.pc = "preserve", !.match = 0]
    <3>1. /\ rec \in Run /\ rec.pc = "preserve" /\ rec.key = run[r].key
          /\ rec.t = run[r].t /\ rec.saw = run[r].saw /\ rec.match = 0
      BY <1>1 DEF Run, PCs
    <3>2. Become(r, rec)
      BY <2>2
    <3> HIDE DEF rec
    <3>3. Knows(rec) /\ rec.pc \notin Claims
      BY <3>1 DEF Knows, Holding, Effect, Free, Claims
    <3> QED
      BY <1>1, <3>1, <3>2, <3>3, RecContinues
  <2> QED
    BY <1>5, <2>1, <2>2
<1>8. CASE lane' = lane
  BY <1>1, <1>6, <1>7, <1>8, WriteKeeps, JobFacts
<1>9. CASE lane' = new /\ ~moved
  <2>1. new.gen = lane.gen /\ new.fp = lane.fp
    BY <1>3, <1>9
  <2> QED
    BY <1>3, <1>4, <1>6, <1>7, <1>9, <2>1, LaneStep
<1>10. CASE lane' = new /\ moved
  <2>1. lane'.gen = lane.gen + 1 /\ lane' \in Lane /\ lane'.tkey = None /\ lane'.pending = None
    BY <1>3, <1>4, <1>10
  <2>2. LaneOK'
    <3>1. Lawful(run[r].match) /\ lane'.fp = run[r].match /\ UNCHANGED sessions
      BY <1>1, <1>3, <1>6, <1>10 DEF Knows, provider
    <3> QED
      BY <2>1, <3>1 DEF LaneOK, Lawful, Created
  <2> QED
    BY <1>6, <1>7, <2>1, <2>2, BindingStep
<1> QED
  BY <1>5, <1>8, <1>9, <1>10

LEMMA PersistBindingKeeps == ASSUME IInv, NEW r \in Runners, PersistBinding(r) PROVE IInv'
<1> DEFINE t == run[r].t
           s == run[r].fp
<1>1. /\ RecordsOK /\ lane \in Lane /\ Knows(run[r]) /\ run[r] \in Run /\ run[r].pc = "bind"
      /\ t \in Live /\ lane.pending \in Live
  BY JobFacts DEF PersistBinding, At
<1>2. Holding(run[r]) /\ t \in Transition /\ s \in DOMAIN sessions /\ sessions[s] = t /\ t # None
  BY <1>1, TransitionFields DEF Knows, Holding
<1>3. Target(t) \in 1..MaxGeneration /\ s \in Sessions
  BY <1>2, TransitionFields, SessionsTyped, LineageAssumption DEF IInv
<1> DEFINE new == [lane EXCEPT !.gen = Target(t), !.fp = s, !.tkey = t,
                               !.unknown = None, !.open = FALSE]
<1>4. /\ new \in Lane /\ new.gen = Target(t) /\ new.fp = s /\ new.tkey = t
      /\ new.pending = lane.pending
  BY <1>1, <1>2, <1>3 DEF Lane
<1>5. /\ lane' = lane \/ (lane' = new /\ ~Conflicts(lane, t, s) /\ lane.gen # Target(t))
      /\ NoteUnknown(r, "idle") \/ (Goto(r, "account") /\ ~Conflicts(lane, t, s))
  BY DEF PersistBinding, Write, ReadOnly
<1>6. UNCHANGED <<ops, account, provider>> /\ UNCHANGED sessions
  BY DEF PersistBinding, provider
<1>10. ~Conflicts(lane, t, s) => t.from >= 1 /\ s \in Created
  <2>1. lane.gen \in Nat \ {0} /\ t.from \in Nat /\ Target(t) = t.from + 1
    BY <1>1, <1>2, TransitionFields, LineageAssumption DEF Lane
  <2>2. s \in Created
    BY <1>2, TransitionFields, SessionsTyped DEF IInv, SessionsOK, Created
  <2>3. ASSUME ~Conflicts(lane, t, s), t.from = 0 PROVE FALSE
    <3>1. lane.fp = s
      BY <2>1, <2>3 DEF Conflicts
    <3>2. s = 1
      BY <1>2, <2>3, <3>1 DEF IInv, LaneOK, Lawful
    <3> QED
      BY <2>2, <3>2 DEF Created
  <2> QED
    BY <2>1, <2>2, <2>3
<1>7. Continues(r)
  BY <1>1, <1>2, <1>5, <1>10, NoteContinues, GotoContinues DEF PCs, Free, Effect, Claims
<1> HIDE DEF new
<1>8. CASE lane' = lane
  BY <1>1, <1>6, <1>7, <1>8, WriteKeeps
<1>9. CASE lane' = new /\ ~Conflicts(lane, t, s) /\ lane.gen # Target(t)
  <2>1. lane'.gen = lane.gen + 1
    BY <1>1, <1>3, <1>4, <1>9 DEF Conflicts, Lane
  <2>2. LaneOK'
    BY <1>2, <1>4, <1>6, <1>9, <1>10 DEF LaneOK, BoundToItsTransition, Lawful, Created
  <2> QED
    BY <1>1, <1>4, <1>6, <1>7, <1>9, <2>1, <2>2, BindingStep
<1> QED
  BY <1>5, <1>8, <1>9

-----------------------------------------------------------------------------
(* Steps that write the operation or the accounting *)

\* The state of a claimed operation is written.
LEMMA StateStep ==
    ASSUME IInv, NEW r \in Runners, Continues(r), UNCHANGED <<lane, account, provider>>,
           NEW k \in Key, NEW st \in OpStates \ {"MISSING"},
           ops' \in {ops, [ops EXCEPT ![k].state = st]}
    PROVE  IInv'
<1>1. ops \in [Key -> Operation] /\ ops[k] \in Operation
  BY DEF IInv, RecordsOK
<1> DEFINE new == [ops EXCEPT ![k].state = st]
<1>2. /\ new \in [Key -> Operation] /\ new[k].state = st
      /\ \A x \in Key : x # k => new[x] = ops[x]
  BY <1>1 DEF Operation
<1> HIDE DEF new
<1>3. /\ ops' \in [Key -> Operation]
      /\ \A x \in Key : ops[x].state # "MISSING" => ops'[x].state # "MISSING"
  BY <1>1, <1>2 DEF new
<1>4. account' \in [count : Nat, seen : Seq([key : Key, t : Transition])] /\ UNCHANGED <<lane, provider>>
  BY DEF IInv, RecordsOK
<1> QED
  BY <1>3, <1>4, RecordStep

LEMMA RecordUnknownKeeps == ASSUME IInv, NEW r \in Runners, RecordUnknown(r) PROVE IInv'
<1>1. RecordsOK /\ Knows(run[r]) /\ run[r].pc = "unknown" /\ run[r].key \in Key
  BY JobFacts DEF RecordUnknown, At, Knows, Free
<1>2. /\ ops' \in {ops, [ops EXCEPT ![run[r].key].state = "UNKNOWN"]}
      /\ Goto(r, "unknownlane") \/ Resume(r, run[r].then)
  BY DEF RecordUnknown, Write
<1>3. UNCHANGED <<lane, account, provider>>
  BY DEF RecordUnknown
<1>4. Continues(r)
  BY <1>1, <1>2, GotoContinues, ResumeContinues DEF PCs, Free, Effect, Claims
<1> QED
  BY <1>1, <1>2, <1>3, <1>4, StateStep DEF OpStates

LEMMA RecordReadbackKeeps == ASSUME IInv, NEW r \in Runners, RecordReadback(r) PROVE IInv'
<1>1. RecordsOK /\ Knows(run[r]) /\ run[r].pc = "confirm" /\ run[r].key \in Key
  BY JobFacts DEF RecordReadback, At, Knows, Free
<1>2. /\ ops' \in {ops, [ops EXCEPT ![run[r].key].state = "CONFIRMED"]}
      /\ Goto(r, "confirmlane") \/ Abandon(r)
  BY DEF RecordReadback, Write
<1>3. UNCHANGED <<lane, account, provider>>
  BY DEF RecordReadback
<1>4. Continues(r)
  BY <1>1, <1>2, GotoContinues, AbandonContinues DEF PCs, Free, Effect, Claims
<1> QED
  BY <1>1, <1>2, <1>3, <1>4, StateStep DEF OpStates

\* The one step that takes a claim: the operation was MISSING.
LEMMA ClaimOperationKeeps == ASSUME IInv, NEW r \in Runners, ClaimOperation(r) PROVE IInv'
<1>1. /\ RecordsOK /\ Knows(run[r]) /\ run[r] \in Run /\ run[r].pc = "claimop" /\ run[r].key \in Key
      /\ ops \in [Key -> Operation]
  BY JobFacts DEF ClaimOperation, At, Knows, Free, RecordsOK
<1> DEFINE k == run[r].key
           o == [state |-> "IN_FLIGHT", digest |-> run[r].t]
           new == [ops EXCEPT ![k] = o]
<1>2. o \in Operation /\ o.state = "IN_FLIGHT"
  BY <1>1 DEF Operation, OpStates, Run
<1> HIDE DEF o
<1>3. new \in [Key -> Operation] /\ new[k] = o /\ \A x \in Key : x # k => new[x] = ops[x]
  BY <1>1, <1>2
<1>4. UNCHANGED <<lane, account, provider>> /\ UNCHANGED <<lane, provider>> /\ UNCHANGED account
  BY DEF ClaimOperation
<1>5. /\ account' \in [count : Nat, seen : Seq([key : Key, t : Transition])]
  BY <1>1, <1>4 DEF RecordsOK
<1>6. \/ ops' \in {ops, new} /\ Goto(r, "release")
      \/ ops' = new /\ Goto(r, "mark") /\ ops[k].state = "MISSING"
  BY DEF ClaimOperation, Write, o
<1> HIDE DEF new
<1>7. /\ ops' \in [Key -> Operation]
      /\ \A x \in Key : ops[x].state # "MISSING" => ops'[x].state # "MISSING"
  BY <1>1, <1>2, <1>3, <1>6
<1>8. CASE Goto(r, "release")
  <2>1. Continues(r)
    BY <1>1, <1>8, GotoContinues DEF PCs, Free, Effect, Claims
  <2> QED
    BY <1>4, <1>5, <1>7, <2>1, RecordStep
<1>9. CASE ops' = new /\ Goto(r, "mark") /\ ops[k].state = "MISSING"
  <2> DEFINE rec == [run[r] EXCEPT !.pc = "mark"]
  <2>1. /\ rec \in Run /\ rec.pc = "mark" /\ rec.then = run[r].then /\ rec.key = k
        /\ rec.t = run[r].t /\ rec.fp = run[r].fp /\ rec.saw = run[r].saw /\ rec.match = run[r].match
    BY <1>1 DEF Run, PCs
  <2>2. Become(r, rec)
    BY <1>9 DEF Goto
  <2> HIDE DEF rec
  <2>3. /\ run' \in [Runners -> Run] /\ run'[r] = rec
        /\ \A q \in Runners \ {r} : run'[q] = run[q]
    BY <1>1, <2>1, <2>2, BecomeMoves
  <2>4. UNCHANGED <<sessions, delivered, late>> /\ UNCHANGED lane
    BY <1>4 DEF provider
  <2>5. Knows(run[r])'
    BY <1>1, <2>1, <2>3, <2>4 DEF Knows, Holding, Effect, Free, Lawful, Created
  <2>6. HasClaim(run[r])'
    <3>1. Requested' = Requested
      BY <2>4 DEF Requested, Created
    <3>2. k \notin Requested
      BY <1>9 DEF IInv, RequestedClaimed
    <3>3. ops'[k].state # "MISSING"
      BY <1>2, <1>3, <1>9
    <3> QED
      BY <2>1, <2>3, <3>1, <3>2, <3>3 DEF HasClaim
  <2>7. Job(r)'
    BY <2>5, <2>6 DEF Job
  <2>8. lane' \in Lane /\ LaneOK'
    BY <2>4, LaneTyped DEF IInv, LaneOK, BoundToItsTransition, Lawful, Created
  <2>9. Ordered'
    <3>1. \A q \in Runners : run'[q].t = run[q].t /\ run'[q].saw = run[q].saw
      BY <2>1, <2>3
    <3>2. Live' = Live
      BY <2>4, <3>1 DEF Live, Created
    <3> QED
      BY <2>4, <2>8, <3>2, HistoryStays
  <2> QED
    BY <1>5, <1>7, <1>9, <2>1, <2>3, <2>4, <2>7, <2>8, <2>9, StoreStep
<1> QED
  BY <1>6, <1>8, <1>9

\* What is counted, if anything, is the transition in the job's hands.
LEMMA AccountFacts ==
    ASSUME IInv, NEW r \in Runners, RecordConfirmedGeneration(r)
    PROVE  LET e == [key |-> run[r].key, t |-> run[r].t] IN
           /\ e \in [key : Key, t : Transition] /\ Holding(run[r]) /\ run[r].t \in Transition /\ run[r].t.from >= 1
           /\ run[r].fp \in DOMAIN sessions /\ sessions[run[r].fp] = run[r].t
           /\ \/ account' = account
              \/ /\ account' = [count |-> account.count + 1, seen |-> Remember(account.seen, e)]
                 /\ run[r].t \notin Counted
<1>1. Knows(run[r]) /\ run[r].pc = "account"
  BY JobFacts DEF RecordConfirmedGeneration, At
<1>2. /\ run[r].key \in Key /\ Holding(run[r]) /\ run[r].t \in Transition /\ run[r].t.from >= 1
      /\ run[r].fp \in DOMAIN sessions /\ sessions[run[r].fp] = run[r].t
  BY <1>1 DEF Knows, Holding, Free
<1> QED
  BY <1>2 DEF RecordConfirmedGeneration, Write, Counted

LEMMA RememberTyped ==
    ASSUME NEW S, NEW q \in Seq(S), NEW e \in S PROVE Remember(q, e) \in Seq(S)
<1> DEFINE all == Append(q, e)
<1>1. all \in Seq(S) /\ Len(all) = Len(q) + 1 /\ Len(q) \in Nat
  OBVIOUS
<1>2. Tail(all) \in Seq(S)
  BY <1>1, LineageAssumption
<1> QED
  BY <1>1, <1>2 DEF Remember

LEMMA AccountKeeps == ASSUME IInv, NEW r \in Runners, RecordConfirmedGeneration(r) PROVE IInv'
<1> DEFINE e == [key |-> run[r].key, t |-> run[r].t]
           E == [key : Key, t : Transition]
<1>1. /\ RecordsOK /\ Knows(run[r]) /\ run[r].pc = "account"
      /\ account \in [count : Nat, seen : Seq(E)] /\ ops \in [Key -> Operation]
  BY JobFacts DEF RecordConfirmedGeneration, At, RecordsOK
<1>2. /\ e \in E /\ Holding(run[r])
      /\ \/ account' = account
         \/ account' = [count |-> account.count + 1, seen |-> Remember(account.seen, e)]
  BY AccountFacts
<1>3. account' \in [count : Nat, seen : Seq(E)]
  <2> HIDE DEF e, E
  <2>1. Remember(account.seen, e) \in Seq(E) /\ account.count + 1 \in Nat
    BY <1>1, <1>2, RememberTyped
  <2> QED
    BY <1>1, <1>2, <2>1
<1>4. UNCHANGED <<lane, provider>> /\ UNCHANGED ops /\ (Goto(r, "clear") \/ NoteUnknown(r, "idle"))
  BY DEF RecordConfirmedGeneration, Write, ReadOnly
<1>5. Continues(r)
  <2>1. run[r].t.from >= 1
    BY <1>1 DEF Knows
  <2> QED
    BY <1>1, <1>2, <1>4, <2>1, GotoContinues, NoteContinues DEF PCs, Free, Effect, Claims
<1> QED
  BY <1>1, <1>3, <1>4, <1>5, RecordStep

-----------------------------------------------------------------------------
(* Steps of the provider *)

\* A session stays lawful.
LEMMA LawfulStays ==
    ASSUME sessions \in Seq(Transition \cup {NoMarker}), sessions' \in Seq(Transition \cup {NoMarker}),
           \A i \in DOMAIN sessions : i \in DOMAIN sessions' /\ sessions'[i] = sessions[i]
    PROVE  \A s : Lawful(s) => s = 1 \/ (s \in Created' /\ sessions'[s].from >= 1)
<1>1. DOMAIN sessions = 1..Len(sessions) /\ DOMAIN sessions' = 1..Len(sessions')
      /\ Len(sessions) \in Nat /\ Len(sessions') \in Nat
  OBVIOUS
<1>2. \A s \in Created : s \in DOMAIN sessions /\ s \in Created'
  BY <1>1 DEF Created
<1> QED
  BY <1>2 DEF Lawful

\* The effect k, which nobody else has claimed if it is a creation, is asked for or performed.
LEMMA ProviderStep ==
    ASSUME IInv, NEW k, IsCreation(k) => ops[k].state # "MISSING", UNCHANGED store,
           sessions' \in Seq(Transition \cup {NoMarker}), SessionsOK', OneRequest',
           delivered' \subseteq Key, late' \subseteq Key \X (Transition \cup {None}),
           \A i \in DOMAIN sessions : i \in DOMAIN sessions' /\ sessions'[i] = sessions[i],
           \A x \in Requested' : x \in Requested \/ (x = k /\ IsCreation(k)),
           \A s \in Created' : sessions'[s] \in Live,
           \A e \in late' : e[2] \in Live,
           run' \in [Runners -> Run],
           \A q \in Runners :
              /\ run'[q].t = run[q].t /\ run'[q].saw = run[q].saw
              /\ \/ run'[q] = run[q] /\ (run[q].pc \in Claims /\ IsCreation(run[q].key) => run[q].key # k)
                 \/ run'[q].pc \notin Claims /\ Knows(run[q])'
    PROVE  IInv'
<1>1. UNCHANGED lane /\ UNCHANGED ops /\ UNCHANGED account
  BY DEF store
<1>2. RecordsOK'
  BY <1>1 DEF IInv, RecordsOK
<1>3. \A q \in Runners : Job(q)'
  <2> TAKE q \in Runners
  <2>1. CASE run'[q] = run[q] /\ (run[q].pc \in Claims /\ IsCreation(run[q].key) => run[q].key # k)
    <3>1. Job(q)
      BY DEF IInv
    <3>2. Knows(run[q])'
      <4>1. Lawful(run[q].match) => Lawful(run[q].match)'
        BY <2>1, LawfulStays DEF Lawful, IInv, RecordsOK
      <4> QED
        BY <2>1, <3>1, <4>1 DEF Job, Knows
    <3>3. HasClaim(run[q])'
      BY <1>1, <2>1, <3>1 DEF Job, HasClaim
    <3> QED
      BY <3>2, <3>3 DEF Job
  <2>2. CASE run'[q].pc \notin Claims /\ Knows(run[q])'
    BY <2>2 DEF Job, HasClaim
  <2> QED
    BY <2>1, <2>2
<1>4. Exclusive'
  <2>1. \A q \in Runners : run'[q].pc \in Claims => run'[q] = run[q]
    OBVIOUS
  <2> QED
    BY <2>1 DEF IInv, Exclusive
<1>5. LaneOK' /\ RequestedClaimed'
  <2>1. Lawful(lane.fp)'
    BY <1>1, LawfulStays DEF Lawful, IInv, RecordsOK, LaneOK
  <2> QED
    BY <1>1, <2>1 DEF IInv, LaneOK, BoundToItsTransition, RequestedClaimed
<1>6. Ordered'
  <2>1. Live' \subseteq Live
    BY <1>1 DEF Live
  <2>2. lane' \in Lane
    BY <1>1, LaneTyped
  <2> QED
    BY <1>1, <2>1, <2>2, HistoryStays
<1> QED
  BY <1>2, <1>3, <1>4, <1>5, <1>6 DEF IInv

\* A request that was not performed before and is not waiting any more is performed.
LEMMA PerformAdds ==
    ASSUME IInv, NEW k \in Key, NEW t \in Live, Perform(k, t),
           IsCreation(k) => t \in Transition /\ k = CreationKey(t),
           IsCreation(k) => \A s \in Created : CreationKey(sessions[s]) # k,
           late' \subseteq late,
           IsCreation(k) => \A e \in late' : e[1] # k
    PROVE  /\ sessions' \in Seq(Transition \cup {NoMarker}) /\ SessionsOK' /\ OneRequest'
           /\ delivered' \subseteq Key
           /\ \A i \in DOMAIN sessions : i \in DOMAIN sessions' /\ sessions'[i] = sessions[i]
           /\ \A x \in Requested' : x \in Requested \/ (x = k /\ IsCreation(k))
           /\ \A s \in Created' : sessions'[s] \in Live
           /\ IsCreation(k) => /\ Len(sessions) + 1 \in DOMAIN sessions'
                               /\ sessions'[Len(sessions) + 1] = t
                               /\ Len(sessions) + 1 \in Sessions
<1>0. /\ sessions \in Seq(Transition \cup {NoMarker}) /\ delivered \subseteq Key
      /\ Len(sessions) \in 1..MaxSessions /\ sessions[1] = NoMarker
      /\ \A s \in Created : sessions[s] \in Transition
      /\ \A e \in late : IsCreation(e[1]) => e[2] \in Transition /\ e[1] = CreationKey(e[2])
  BY DEF IInv, RecordsOK, SessionsOK
<1>1. CASE ~IsCreation(k)
  <2>1. UNCHANGED sessions /\ delivered' \subseteq Key
    BY <1>0, <1>1 DEF Perform
  <2>2. Created' = Created /\ SessionsOK' /\ OneRequest'
    BY <2>1 DEF IInv, SessionsOK, OneRequest, Created
  <2>3. \A x \in Requested' : x \in Requested
    BY <2>1, <2>2 DEF Requested
  <2> QED
    BY <1>0, <1>1, <2>1, <2>2, <2>3 DEF Live
<1>2. CASE IsCreation(k)
  <2> DEFINE n == Len(sessions) + 1
  <2>1. Len(sessions) < MaxSessions /\ sessions' = Append(sessions, t) /\ UNCHANGED delivered
    BY <1>2 DEF Perform
  <2>2. /\ sessions' \in Seq(Transition \cup {NoMarker}) /\ Len(sessions') = n
        /\ DOMAIN sessions = 1..Len(sessions) /\ DOMAIN sessions' = 1..n
        /\ \A i \in DOMAIN sessions : sessions'[i] = sessions[i]
        /\ sessions'[n] = t /\ Len(sessions) \in Nat
    BY <1>0, <1>2, <2>1
  <2>3. /\ n \in 1..MaxSessions /\ n \in Sessions /\ 1 \in DOMAIN sessions
        /\ \A i \in DOMAIN sessions : i \in DOMAIN sessions'
        /\ n \in DOMAIN sessions'
        /\ \A s \in Created' : s = n \/ (s \in Created /\ sessions'[s] = sessions[s])
    BY <1>0, <2>1, <2>2, LineageAssumption DEF Sessions, Created
  <2> HIDE DEF n
  <2>4. SessionsOK'
    BY <1>0, <1>2, <2>2, <2>3 DEF SessionsOK
  <2>5. \A s \in Created' : sessions'[s] \in Live
    BY <2>2, <2>3 DEF Live
  <2>6. \A x \in Requested' : x \in Requested \/ x = k
    BY <1>2, <2>2, <2>3 DEF Requested
  <2>7. OneRequest'
    <3>1. /\ \A s, u \in Created : CreationKey(sessions[s]) = CreationKey(sessions[u]) => s = u
          /\ \A s \in Created, e \in late : IsCreation(e[1]) => CreationKey(sessions[s]) # e[1]
          /\ \A d, e \in late : IsCreation(e[1]) /\ d[1] = e[1] => d = e
      BY DEF IInv, OneRequest
    <3>2. ASSUME NEW s \in Created', NEW u \in Created', CreationKey(sessions'[s]) = CreationKey(sessions'[u])
          PROVE  s = u
      BY <1>2, <2>2, <2>3, <3>1, <3>2
    <3>3. ASSUME NEW s \in Created', NEW e \in late', IsCreation(e[1])
          PROVE  CreationKey(sessions'[s]) # e[1]
      BY <1>2, <2>2, <2>3, <3>1, <3>3
    <3> QED
      BY <3>1, <3>2, <3>3 DEF OneRequest
  <2> QED
    BY <1>0, <1>2, <2>1, <2>2, <2>3, <2>4, <2>5, <2>6, <2>7 DEF n
<1> QED
  BY <1>1, <1>2

\* At the request, the job has the only claim and the provider was not asked.
LEMMA SendFacts ==
    ASSUME IInv, NEW r \in Runners, run[r].pc = "send"
    PROVE  /\ run[r] \in Run /\ run[r].key \in Key /\ run[r].t \in Live /\ run[r].then = "idle"
           /\ run[r].t \in Transition \cup {None}
           /\ IsCreation(run[r].key) =>
                 /\ run[r].t \in Transition /\ run[r].key = CreationKey(run[r].t)
                 /\ ops[run[r].key].state # "MISSING"
                 /\ \A s \in Created : CreationKey(sessions[s]) # run[r].key
                 /\ \A e \in late : e[1] # run[r].key
           /\ \A q \in Runners \ {r} : run[q].pc \in Claims /\ IsCreation(run[q].key)
                                          => run[q].key # run[r].key
<1>1. Knows(run[r]) /\ HasClaim(run[r]) /\ run[r] \in Run /\ run[r].t \in Live
  BY JobFacts
<1>2. run[r].key \in Key /\ run[r].t \in Transition \cup {None} /\ run[r].then = "idle"
  BY <1>1 DEF Knows, Free, Effect, Run
<1>3. \A q \in Runners \ {r} : run[q].pc \in Claims /\ IsCreation(run[q].key) => run[q].key # run[r].key
  BY DEF IInv, Exclusive, Claims
<1>4. ASSUME IsCreation(run[r].key)
      PROVE  /\ run[r].t \in Transition /\ run[r].key = CreationKey(run[r].t)
             /\ ops[run[r].key].state # "MISSING" /\ run[r].key \notin Requested
  BY <1>1, <1>4 DEF Knows, HasClaim, Effect, Claims
<1>5. ASSUME IsCreation(run[r].key)
      PROVE  /\ \A s \in Created : CreationKey(sessions[s]) # run[r].key
             /\ \A e \in late : e[1] # run[r].key
  BY <1>4, <1>5 DEF Requested
<1> QED
  BY <1>1, <1>2, <1>3, <1>4, <1>5

LEMMA SendConfirmedKeeps == ASSUME IInv, NEW r \in Runners, SendConfirmed(r) PROVE IInv'
<1> DEFINE k == run[r].key
           t == run[r].t
           n == IF IsCreation(k) THEN Len(sessions) + 1 ELSE 0
           rec == [run[r] EXCEPT !.pc = "confirm", !.fp = n]
<1>1. /\ run[r].pc = "send" /\ Perform(k, t) /\ Become(r, rec) /\ UNCHANGED late /\ UNCHANGED store
  BY DEF SendConfirmed, At
<1>2. /\ run[r] \in Run /\ k \in Key /\ t \in Live /\ run[r].then = "idle"
      /\ IsCreation(k) =>
            /\ t \in Transition /\ k = CreationKey(t)
            /\ ops[k].state # "MISSING"
            /\ \A s \in Created : CreationKey(sessions[s]) # k
            /\ \A e \in late : e[1] # k
      /\ \A q \in Runners \ {r} : run[q].pc \in Claims /\ IsCreation(run[q].key) => run[q].key # k
  BY <1>1, SendFacts
<1>3. k = run[r].key /\ t = run[r].t
  OBVIOUS
<1> HIDE DEF k, t
<1>4. /\ sessions' \in Seq(Transition \cup {NoMarker}) /\ SessionsOK' /\ OneRequest'
      /\ delivered' \subseteq Key
      /\ \A i \in DOMAIN sessions : i \in DOMAIN sessions' /\ sessions'[i] = sessions[i]
      /\ \A x \in Requested' : x \in Requested \/ (x = k /\ IsCreation(k))
      /\ \A s \in Created' : sessions'[s] \in Live
      /\ IsCreation(k) => n \in DOMAIN sessions' /\ sessions'[n] = t /\ n \in Sessions
  BY <1>1, <1>2, PerformAdds
<1>5. n \in Sessions \cup {0}
  BY <1>4
<1> HIDE DEF n
<1>6. /\ rec \in Run /\ rec.pc = "confirm" /\ rec.key = k /\ rec.t = t /\ rec.fp = n
      /\ rec.then = "idle" /\ rec.saw = run[r].saw /\ rec.match = run[r].match
  BY <1>2, <1>3, <1>5 DEF Run, PCs
<1> HIDE DEF rec
<1>7. /\ run' \in [Runners -> Run] /\ run'[r] = rec
      /\ \A q \in Runners \ {r} : run'[q] = run[q]
  BY <1>1, <1>6, BecomeMoves DEF IInv
<1>8. run'[r].pc \notin Claims /\ Knows(run[r])'
  <2>1. run[r].match # 0 => Lawful(run[r].match)
    BY JobFacts DEF Knows
  <2>2. rec.match # 0 => rec.match = 1 \/ (rec.match \in Created' /\ sessions'[rec.match].from >= 1)
    BY <1>4, <1>6, <2>1, LawfulStays DEF IInv, RecordsOK
  <2> QED
    BY <1>2, <1>4, <1>6, <1>7, <2>2 DEF Knows, Holding, Effect, Free, Claims, Lawful
<1>9. late' \subseteq Key \X (Transition \cup {None}) /\ \A e \in late' : e[2] \in Live
  BY <1>1 DEF IInv, RecordsOK, Live
<1>10. \A q \in Runners :
          /\ run'[q].t = run[q].t /\ run'[q].saw = run[q].saw
          /\ \/ run'[q] = run[q] /\ (run[q].pc \in Claims /\ IsCreation(run[q].key) => run[q].key # k)
             \/ run'[q].pc \notin Claims /\ Knows(run[q])'
  BY <1>2, <1>3, <1>6, <1>7, <1>8
<1> QED
  BY <1>1, <1>2, <1>4, <1>7, <1>9, <1>10, ProviderStep

LEMMA SendUnprovenKeeps == ASSUME IInv, NEW r \in Runners, SendUnproven(r) PROVE IInv'
<1> DEFINE k == run[r].key
           t == run[r].t
           rec == [run[r] EXCEPT !.pc = "unknown", !.then = "restore"]
<1>1. /\ run[r].pc = "send" /\ Become(r, rec) /\ UNCHANGED store
      /\ \/ Perform(k, t) /\ UNCHANGED late
         \/ UNCHANGED provider
         \/ late' = late \cup {<<k, t>>} /\ UNCHANGED <<sessions, delivered>>
  BY DEF SendUnproven, At, NoteUnknown
<1>2. /\ run[r] \in Run /\ k \in Key /\ t \in Live /\ t \in Transition \cup {None}
      /\ IsCreation(k) =>
            /\ t \in Transition /\ k = CreationKey(t)
            /\ ops[k].state # "MISSING"
            /\ \A s \in Created : CreationKey(sessions[s]) # k
            /\ \A e \in late : e[1] # k
      /\ \A q \in Runners \ {r} : run[q].pc \in Claims /\ IsCreation(run[q].key) => run[q].key # k
  BY <1>1, SendFacts
<1>3. k = run[r].key /\ t = run[r].t
  OBVIOUS
<1> HIDE DEF k, t
<1>4. /\ sessions' \in Seq(Transition \cup {NoMarker}) /\ SessionsOK' /\ OneRequest'
      /\ delivered' \subseteq Key /\ late' \subseteq Key \X (Transition \cup {None})
      /\ \A i \in DOMAIN sessions : i \in DOMAIN sessions' /\ sessions'[i] = sessions[i]
      /\ \A x \in Requested' : x \in Requested \/ (x = k /\ IsCreation(k))
      /\ \A s \in Created' : sessions'[s] \in Live
      /\ \A e \in late' : e[2] \in Live
  <2>0. /\ sessions \in Seq(Transition \cup {NoMarker}) /\ delivered \subseteq Key
        /\ late \subseteq Key \X (Transition \cup {None}) /\ SessionsOK /\ OneRequest
        /\ \A s \in Created : sessions[s] \in Live
        /\ \A e \in late : e[2] \in Live
    BY DEF IInv, RecordsOK, Live
  <2>1. CASE Perform(k, t) /\ UNCHANGED late
    BY <1>2, <2>0, <2>1, PerformAdds
  <2>2. CASE UNCHANGED provider
    <3>1. UNCHANGED sessions /\ UNCHANGED delivered /\ UNCHANGED late
      BY <2>2 DEF provider
    <3> QED
      BY <2>0, <3>1 DEF SessionsOK, OneRequest, Requested, Created
  <2>3. CASE late' = late \cup {<<k, t>>} /\ UNCHANGED <<sessions, delivered>>
    <3>1. UNCHANGED sessions /\ UNCHANGED delivered /\ Created' = Created
      BY <2>3 DEF Created
    <3>2. late' \subseteq Key \X (Transition \cup {None}) /\ \A e \in late' : e \in late \/ e = <<k, t>>
      BY <1>2, <2>0, <2>3
    <3>3. SessionsOK' /\ \A e \in late' : e[2] \in Live
      BY <1>2, <2>0, <3>1, <3>2 DEF SessionsOK
    <3>4. \A x \in Requested' : x \in Requested \/ (x = k /\ IsCreation(k))
      BY <3>1, <3>2 DEF Requested
    <3>5. OneRequest'
      BY <1>2, <2>0, <3>1, <3>2 DEF OneRequest
    <3> QED
      BY <2>0, <3>1, <3>2, <3>3, <3>4, <3>5
  <2> QED
    BY <1>1, <2>1, <2>2, <2>3
<1>5. /\ rec \in Run /\ rec.pc = "unknown" /\ rec.key = k /\ rec.t = t
      /\ rec.then = "restore" /\ rec.saw = run[r].saw /\ rec.match = run[r].match
  BY <1>2, <1>3 DEF Run, PCs
<1> HIDE DEF rec
<1>6. /\ run' \in [Runners -> Run] /\ run'[r] = rec
      /\ \A q \in Runners \ {r} : run'[q] = run[q]
  BY <1>1, <1>5, BecomeMoves DEF IInv
<1>7. run'[r].pc \notin Claims /\ Knows(run[r])'
  <2>1. run[r].match # 0 => Lawful(run[r].match)
    BY JobFacts DEF Knows
  <2>2. rec.match # 0 => rec.match = 1 \/ (rec.match \in Created' /\ sessions'[rec.match].from >= 1)
    BY <1>4, <1>5, <2>1, LawfulStays DEF IInv, RecordsOK
  <2> QED
    BY <1>2, <1>5, <1>6, <2>2 DEF Knows, Holding, Effect, Free, Claims, Lawful
<1>8. \A q \in Runners :
          /\ run'[q].t = run[q].t /\ run'[q].saw = run[q].saw
          /\ \/ run'[q] = run[q] /\ (run[q].pc \in Claims /\ IsCreation(run[q].key) => run[q].key # k)
             \/ run'[q].pc \notin Claims /\ Knows(run[q])'
  BY <1>2, <1>3, <1>5, <1>6, <1>7
<1> QED
  BY <1>1, <1>2, <1>4, <1>6, <1>8, ProviderStep

LEMMA LateKeeps == ASSUME IInv, NEW e \in late, ProviderPerformsLate(e) PROVE IInv'
<1>1. /\ Perform(e[1], e[2]) /\ late' = late \ {e} /\ UNCHANGED store /\ UNCHANGED run
  BY DEF ProviderPerformsLate
<1>2. e[1] \in Key /\ e[2] \in Live /\ late' \subseteq late
  BY <1>1 DEF IInv, RecordsOK, Live
<1>3. IsCreation(e[1]) =>
         /\ e[2] \in Transition /\ e[1] = CreationKey(e[2])
         /\ \A s \in Created : CreationKey(sessions[s]) # e[1]
         /\ \A d \in late' : d[1] # e[1]
         /\ e[1] \in Requested /\ ops[e[1]].state # "MISSING"
  BY <1>1 DEF IInv, SessionsOK, OneRequest, RequestedClaimed, Requested
<1>4. /\ sessions' \in Seq(Transition \cup {NoMarker}) /\ SessionsOK' /\ OneRequest'
      /\ delivered' \subseteq Key
      /\ \A i \in DOMAIN sessions : i \in DOMAIN sessions' /\ sessions'[i] = sessions[i]
      /\ \A x \in Requested' : x \in Requested \/ (x = e[1] /\ IsCreation(e[1]))
      /\ \A s \in Created' : sessions'[s] \in Live
  BY <1>1, <1>2, <1>3, PerformAdds
<1>5. /\ late' \subseteq Key \X (Transition \cup {None}) /\ run' \in [Runners -> Run]
      /\ \A d \in late' : d[2] \in Live
  BY <1>1 DEF IInv, RecordsOK, Live
<1>6. \A q \in Runners :
         run[q].pc \in Claims /\ IsCreation(run[q].key) => run[q].key # e[1]
  BY <1>3 DEF IInv, Job, HasClaim
<1>7. \A q \in Runners : run'[q] = run[q]
  BY <1>1
<1> QED
  BY <1>1, <1>3, <1>4, <1>5, <1>6, <1>7, ProviderStep

-----------------------------------------------------------------------------
(* The theorems, whatever the accounting record remembers *)

LEMMA SameJobs ==
    ASSUME \A r \in Runners : Job(r), UNCHANGED run, UNCHANGED ops, UNCHANGED sessions, UNCHANGED late
    PROVE  \A r \in Runners : Job(r)'
<1>1. Requested' = Requested
  BY DEF Requested, Created
<1> TAKE r \in Runners
<1>2. Knows(run[r])'
  BY DEF Job, Knows, Lawful, Created
<1>3. HasClaim(run[r])'
  BY <1>1 DEF Job, HasClaim
<1> QED
  BY <1>2, <1>3 DEF Job

LEMMA ExpireLeaseKeeps == ASSUME IInv, ExpireLease PROVE IInv'
<1>1. lane \in Lane /\ lane.lease.live
  BY LaneTyped DEF ExpireLease
<1> DEFINE lease == [lane.lease EXCEPT !.live = FALSE]
<1>2. lease \in Lease
  <2>1. lane.lease \in Lease \cup {NoLease} /\ NoLease.live = FALSE
    BY <1>1 DEF Lane, NoLease
  <2>2. lane.lease \in Lease
    BY <1>1, <2>1
  <2> QED
    BY <2>2 DEF Lease
<1> HIDE DEF lease
<1> DEFINE new == [lane EXCEPT !.lease = lease]
<1>3. /\ new \in Lane /\ new.gen = lane.gen /\ new.fp = lane.fp /\ new.tkey = lane.tkey
      /\ new.pending = lane.pending
  BY <1>1, <1>2 DEF Lane
<1>4. /\ lane' = new /\ UNCHANGED ops /\ UNCHANGED account /\ UNCHANGED sessions /\ UNCHANGED delivered
      /\ UNCHANGED late /\ UNCHANGED run
  BY DEF ExpireLease, provider, lease
<1> HIDE DEF new
<1>5. RecordsOK' /\ SessionsOK' /\ Exclusive'
  BY <1>3, <1>4 DEF IInv, RecordsOK, SessionsOK, Exclusive, Created
<1>6. \A r \in Runners : Job(r)'
  BY <1>4, SameJobs DEF IInv
<1>7. RequestedClaimed' /\ OneRequest'
  BY <1>4 DEF IInv, RequestedClaimed, OneRequest, Requested, Created
<1>8. LaneOK'
  BY <1>3, <1>4 DEF IInv, LaneOK, BoundToItsTransition, Lawful, Created
<1>9. Ordered'
  <2>1. Live' = Live
    BY <1>3, <1>4 DEF Live, Created
  <2> QED
    BY <1>3, <1>4, <2>1, HistoryStays
<1> QED
  BY <1>5, <1>6, <1>7, <1>8, <1>9 DEF IInv

LEMMA StepKeeps == ASSUME IInv, NEW r \in Runners, Step(r) PROVE IInv'
BY PersistPendingKeeps, AuthorizeKeeps, ClaimReadKeeps, AcquireLeaseKeeps, ClaimOperationKeeps,
   MarkLaneKeeps, ReleaseLeaseKeeps, SendConfirmedKeeps, SendUnprovenKeeps, RecordUnknownKeeps,
   RecordUnknownLaneKeeps, RecordReadbackKeeps, RecordReadbackLaneKeeps, RestoreShadowKeeps,
   PersistBindingKeeps, AccountKeeps, ClearPendingKeeps, ReadBeforeKeeps, UpsertKeeps,
   PreserveKeeps DEF Step

LEMMA CrashKeeps == ASSUME IInv, NEW r \in Runners, Crash(r) PROVE IInv'
BY StopContinues, QuietStep DEF Crash, IInv

LEMMA StutterKeeps == ASSUME IInv, UNCHANGED vars PROVE IInv'
<1>1. /\ UNCHANGED lane /\ UNCHANGED ops /\ UNCHANGED account /\ UNCHANGED sessions
      /\ UNCHANGED delivered /\ UNCHANGED late /\ UNCHANGED run
  BY DEF vars
<1>2. RecordsOK' /\ SessionsOK' /\ Exclusive' /\ LaneOK'
  BY <1>1 DEF IInv, RecordsOK, SessionsOK, Exclusive, LaneOK, BoundToItsTransition, Lawful, Created
<1>3. \A r \in Runners : Job(r)'
  BY <1>1, SameJobs DEF IInv
<1>4. RequestedClaimed' /\ OneRequest'
  BY <1>1 DEF IInv, RequestedClaimed, OneRequest, Requested, Created
<1>5. Live' = Live /\ lane' \in Lane
  BY <1>1, LaneTyped DEF Live, Created
<1>6. Ordered'
  BY <1>1, <1>5, HistoryStays
<1> QED
  BY <1>2, <1>3, <1>4, <1>6 DEF IInv

LEMMA NextKeeps == ASSUME IInv, [Next]_vars PROVE IInv'
<1>1. ASSUME NEW r \in Executors, RequestGeneration(r) \/ StartMessage(r) \/ StartReconcile(r)
      PROVE  IInv'
  BY <1>1, StartGenerationKeeps, StartUnreadKeeps, StartMessageKeeps, StartReconcileKeeps DEF RequestGeneration, Runners
<1>2. ASSUME NEW r \in Runners, StartObservation(r) \/ Step(r) \/ Crash(r) PROVE IInv'
  BY <1>2, StartObservationKeeps, StepKeeps, CrashKeeps
<1> QED
  BY <1>1, <1>2, LateKeeps, ExpireLeaseKeeps, StutterKeeps DEF Next

\* The invariant behind the properties of the next generation: what each job knows, who holds
\* the claim on a creation, and the session that each generation had.
THEOREM InvariantHolds == Spec => []IInv
<1>1. Init => IInv
  BY InitIInv
<1>2. IInv /\ [Next]_vars => IInv'
  BY NextKeeps
<1> QED
  BY <1>1, <1>2, PTL DEF Spec

\* A step of a job fails at most once.
LEMMA StepFaults == ASSUME NEW r \in Runners, Step(r) PROVE UNCHANGED faults \/ Fault
<1>1. CASE \/ PersistPending(r) \/ Authorize(r) \/ ClaimRead(r) \/ AcquireLease(r)
           \/ ClaimOperation(r) \/ MarkLane(r) \/ ReleaseLease(r)
  BY <1>1 DEF PersistPending, Authorize, ClaimRead, AcquireLease, ClaimOperation, MarkLane,
              ReleaseLease, Write, ReadOnly
<1>2. CASE \/ SendConfirmed(r) \/ SendUnproven(r) \/ RecordUnknown(r) \/ RecordUnknownLane(r)
           \/ RecordReadback(r) \/ RecordReadbackLane(r) \/ RestoreShadow(r)
  BY <1>2 DEF SendConfirmed, SendUnproven, RecordUnknown, RecordUnknownLane, RecordReadback,
              RecordReadbackLane, RestoreShadow, Write, ReadOnly
<1>3. CASE \/ PersistBinding(r) \/ RecordConfirmedGeneration(r) \/ ClearPending(r)
           \/ ReadBefore(r) \/ Upsert(r) \/ PreserveEffects(r)
  BY <1>3 DEF PersistBinding, RecordConfirmedGeneration, ClearPending, ReadBefore, Upsert,
              PreserveEffects, Write, ReadOnly
<1> QED
  BY <1>1, <1>2, <1>3 DEF Step

LEMMA FaultsTyped ==
    ASSUME faults \in 0..MaxFaults, [Next]_vars PROVE faults' \in 0..MaxFaults
<1>1. ASSUME NEW r \in Runners, RequestGeneration(r) \/ StartMessage(r) \/ StartReconcile(r)
                                  \/ StartObservation(r) \/ Crash(r)
      PROVE  UNCHANGED faults \/ Fault
  BY <1>1 DEF RequestGeneration, StartGeneration, StartGenerationUnread, StartMessage, StartReconcile,
              StartObservation, Crash
<1>2. (\E e \in late : ProviderPerformsLate(e)) \/ ExpireLease \/ UNCHANGED vars => UNCHANGED faults
  BY DEF ProviderPerformsLate, ExpireLease, vars
<1>3. UNCHANGED faults \/ Fault
  BY <1>1, <1>2, StepFaults DEF Next, Runners
<1> QED
  BY <1>3, LineageAssumption DEF Fault

\* The records of binding_safe_generation, generation_reconciliation and lineage_observation keep
\* their types.
THEOREM TypesHold == Spec => []TypeOK
<1>1. Init => faults \in 0..MaxFaults
  BY LineageAssumption DEF Init
<1>2. faults \in 0..MaxFaults /\ [Next]_vars => (faults \in 0..MaxFaults)'
  BY FaultsTyped
<1>3. IInv /\ faults \in 0..MaxFaults => TypeOK
  BY DEF IInv, TypeOK
<1> QED
  BY <1>1, <1>2, <1>3, InvariantHolds, PTL DEF Spec

\* Two transitions to one generation start from one session, so they have one operation.
LEMMA TargetsDiffer ==
    ASSUME IInv, NEW s \in Created, NEW u \in Created, Target(sessions[s]) = Target(sessions[u])
    PROVE  s = u
<1>1. sessions[s] \in Transition /\ sessions[u] \in Transition
  BY DEF IInv, SessionsOK
<1>2. sessions[s] \in Live \ {None} /\ sessions[u] \in Live \ {None}
  BY <1>1, TransitionFields DEF Live
<1>3. sessions[s].from = sessions[u].from
  BY <1>1, TransitionFields
<1>4. sessions[s].pred = sessions[u].pred
  BY <1>2, <1>3 DEF IInv, Ordered, Past
<1>5. CreationKey(sessions[s]) = CreationKey(sessions[u])
  BY <1>4 DEF CreationKey, Target
<1> QED
  BY <1>5 DEF IInv, OneRequest

LEMMA OneCreation == IInv => OneCreationPerGeneration
<1> SUFFICES ASSUME IInv PROVE OneCreationPerGeneration
  OBVIOUS
<1>1. \A s, u \in Created : Target(sessions[s]) = Target(sessions[u]) => s = u
  BY TargetsDiffer
<1>2. ASSUME lane.fp # 1 PROVE Target(sessions[lane.fp]) > 1
  <2>1. lane.fp \in Created /\ sessions[lane.fp].from >= 1
    BY <1>2 DEF IInv, LaneOK, Lawful
  <2>2. sessions[lane.fp] \in Transition
    BY <2>1 DEF IInv, SessionsOK
  <2> QED
    BY <2>1, <2>2, TransitionFields
<1> QED
  BY <1>1, <1>2 DEF OneCreationPerGeneration, Created

\* Whatever causes are requested of binding_safe_generation, by however many jobs at a time,
\* whether or not they could read the lane, and however late the provider performs a create, it
\* creates one session at most for a generation, and a blind job's is never the lane's.
THEOREM OneSession == Spec => []OneCreationPerGeneration
BY OneCreation, InvariantHolds, PTL

\* A lane that names a transition is bound to the session created for it, at the generation it
\* leads to, whether persist_created_generation_binding was called by the executor or by
\* reconcile_unknown_generation.
THEOREM BindingHolds == Spec => []BoundToItsTransition
<1>1. IInv => BoundToItsTransition
  BY DEF IInv, LaneOK, BoundToItsTransition, Lawful, Created
<1> QED
  BY <1>1, InvariantHolds, PTL

-----------------------------------------------------------------------------
(* The order of the generations *)

SameSession == lane'.gen = lane.gen /\ lane'.fp = lane.fp

\* Steps that leave the lane's session alone.
LEMMA OthersKeepSession ==
    ASSUME IInv, NEW r \in Runners,
           PersistPending(r) \/ Authorize(r) \/ ClaimRead(r) \/ AcquireLease(r) \/ ClaimOperation(r)
             \/ MarkLane(r) \/ ReleaseLease(r) \/ SendConfirmed(r) \/ SendUnproven(r) \/ RecordUnknown(r)
             \/ RecordUnknownLane(r) \/ RecordReadback(r) \/ RecordReadbackLane(r) \/ RestoreShadow(r)
             \/ RecordConfirmedGeneration(r) \/ ClearPending(r) \/ ReadBefore(r) \/ PreserveEffects(r)
    PROVE  SameSession
<1>1. lane \in Lane
  BY LaneTyped
<1>2. CASE \/ ClaimRead(r) \/ ClaimOperation(r) \/ SendConfirmed(r) \/ SendUnproven(r) \/ RecordUnknown(r)
           \/ RecordReadback(r) \/ RecordConfirmedGeneration(r) \/ ReadBefore(r) \/ MarkLane(r)
  BY <1>2 DEF ClaimRead, ClaimOperation, SendConfirmed, SendUnproven, RecordUnknown, RecordReadback,
              RecordConfirmedGeneration, ReadBefore, MarkLane, Write, store, SameSession
<1>3. CASE PersistPending(r) \/ Authorize(r) \/ AcquireLease(r) \/ ReleaseLease(r)
  BY <1>1, <1>3 DEF PersistPending, Authorize, AcquireLease, ReleaseLease, Write, SameSession, Lane
<1>4. CASE RecordUnknownLane(r) \/ RecordReadbackLane(r) \/ RestoreShadow(r)
  BY <1>1, <1>4 DEF RecordUnknownLane, RecordReadbackLane, RestoreShadow, Write, SameSession, Lane
<1>5. CASE ClearPending(r) \/ PreserveEffects(r)
  BY <1>1, <1>5 DEF ClearPending, PreserveEffects, Write, SameSession, Lane
<1> QED
  BY <1>2, <1>3, <1>4, <1>5

LEMMA UpsertInOrder == ASSUME IInv, NEW r \in Runners, Upsert(r) PROVE LineageStep
<1>1. lane \in Lane
  BY LaneTyped
<1> DEFINE new == Matched(lane, run[r].match)
<1>2. \/ new.gen = lane.gen /\ new.fp = lane.fp
      \/ new.gen = lane.gen + 1
  BY <1>1 DEF Matched, Lane
<1>3. lane' \in {lane, new} /\ lane.gen \in Nat
  BY <1>1, LineageAssumption DEF Upsert, Write, Lane
<1> HIDE DEF new
<1> QED
  BY <1>2, <1>3 DEF LineageStep

LEMMA BindingInOrder == ASSUME IInv, NEW r \in Runners, PersistBinding(r) PROVE LineageStep
<1> DEFINE t == run[r].t
           s == run[r].fp
           new == [lane EXCEPT !.gen = Target(t), !.fp = s, !.tkey = t,
                               !.unknown = None, !.open = FALSE]
<1>1. lane \in Lane /\ Knows(run[r]) /\ run[r].pc = "bind"
  BY JobFacts DEF PersistBinding, At
<1>2. t \in Transition /\ Target(t) \in Nat /\ lane.gen \in Nat
  BY <1>1, TransitionFields, LineageAssumption DEF Knows, Holding, Lane
<1>3. new.gen = Target(t)
  BY <1>1 DEF Lane
<1>4. lane' = lane \/ (lane' = new /\ ~Conflicts(lane, t, s) /\ lane.gen # Target(t))
  BY DEF PersistBinding, Write
<1> HIDE DEF new, t
<1>5. ~Conflicts(lane, t, s) /\ lane.gen # Target(t) => Target(t) = lane.gen + 1
  BY <1>2 DEF Conflicts
<1> QED
  BY <1>2, <1>3, <1>4, <1>5 DEF LineageStep

LEMMA NextInOrder == ASSUME IInv, [Next]_vars PROVE LineageStep
<1>1. SameSession => LineageStep
  BY DEF SameSession, LineageStep
<1>2. ASSUME NEW r \in Runners, RequestGeneration(r) \/ StartMessage(r) \/ StartReconcile(r)
                                  \/ StartObservation(r) \/ Crash(r)
      PROVE  SameSession
  BY <1>2 DEF RequestGeneration, StartGeneration, StartGenerationUnread, StartMessage, StartReconcile, StartObservation, Crash,
              store, SameSession
<1>3. ASSUME NEW e \in late, ProviderPerformsLate(e) PROVE SameSession
  BY <1>3 DEF ProviderPerformsLate, store, SameSession
<1>4. ASSUME ExpireLease PROVE SameSession
  BY <1>4, LaneTyped DEF ExpireLease, SameSession, Lane
<1>5. ASSUME UNCHANGED vars PROVE SameSession
  BY <1>5 DEF vars, SameSession
<1>6. ASSUME NEW r \in Runners, Step(r) PROVE LineageStep
  BY <1>1, <1>6, OthersKeepSession, UpsertInOrder, BindingInOrder DEF Step
<1> QED
  BY <1>1, <1>2, <1>3, <1>4, <1>5, <1>6 DEF Next, Runners

\* A lane goes from a generation to the next, and keeps the session of its generation, through
\* bindings, reconciliations and observations in any order.
THEOREM InOrder == Spec => GenerationsInOrder
<1>1. IInv /\ [Next]_vars => [LineageStep]_vars
  BY NextInOrder
<1> QED
  BY <1>1, InvariantHolds, PTL DEF Spec, GenerationsInOrder

-----------------------------------------------------------------------------
(* The budget *)

\* A generation other than the first has one session, and a session one title.
LEMMA TitlesBound ==
    ASSUME IInv
    PROVE  /\ IsFiniteSet(Titles) /\ Cardinality(Titles) \in Nat
           /\ Cardinality(Titles) <= Len(sessions) - 1
           /\ Cardinality(Titles) <= MaxGeneration - 1
<1>1. Len(sessions) \in Nat \ {0} /\ MaxGeneration \in Nat \ {0} /\ \A s \in Created : sessions[s] \in Transition
  BY LineageAssumption DEF IInv, SessionsOK
<1>2. IsFiniteSet(Titles) /\ Cardinality(Titles) <= Len(sessions) - 1
  <2> DEFINE f == [t \in Titles |-> CHOOSE s \in Created : sessions[s] = t]
  <2>1. \A t \in Titles : f[t] \in Created /\ sessions[f[t]] = t
    BY DEF Titles
  <2>2. f \in [Titles -> Created]
    BY <2>1
  <2> HIDE DEF f
  <2>3. f \in Injection(Titles, Created)
    BY <2>1, <2>2 DEF Injection, IsInjective
  <2>4. IsFiniteSet(Created) /\ Cardinality(Created) = Len(sessions) - 1
    BY <1>1, FS_Interval DEF Created
  <2> QED
    BY <2>3, <2>4, FS_Injection
<1>3. Cardinality(Titles) <= MaxGeneration - 1
  <2> DEFINE G == 1..(MaxGeneration - 1)
             g == [t \in Titles |-> t.from]
  <2>1. \A t \in Titles : g[t] = t.from /\ t.from \in G
    <3>1. \A t \in Titles : t \in Transition /\ t \in Live \ {None}
      BY <1>1, TransitionFields DEF Titles, Live
    <3>2. \A t \in Titles : t.from \in 0..(MaxGeneration - 1) /\ t.from >= 1
      BY <3>1, TransitionFields DEF Titles
    <3> QED
      BY <1>1, <3>2
  <2>2. g \in [Titles -> G]
    BY <2>1
  <2>3. ASSUME NEW t \in Titles, NEW u \in Titles, g[t] = g[u] PROVE t = u
    <3>1. PICK i \in Created : t = sessions[i]
      BY DEF Titles
    <3>2. PICK j \in Created : u = sessions[j]
      BY DEF Titles
    <3>3. Target(sessions[i]) = Target(sessions[j])
      BY <2>1, <2>3, <3>1, <3>2 DEF Target
    <3> QED
      BY <3>1, <3>2, <3>3, TargetsDiffer
  <2> HIDE DEF g
  <2>4. g \in Injection(Titles, G)
    BY <2>2, <2>3 DEF Injection, IsInjective
  <2>5. IsFiniteSet(G) /\ Cardinality(G) = MaxGeneration - 1
    BY <1>1, FS_Interval
  <2> HIDE DEF G
  <2> QED
    BY <2>4, <2>5, FS_Injection
<1>4. Cardinality(Titles) \in Nat
  BY <1>2, FS_CardinalityType
<1> QED
  BY <1>2, <1>3, <1>4

\* The provider never deletes a session.
LEMMA TitlesGrow == ASSUME IInv, [Next]_vars PROVE Titles \subseteq Titles'
<1>1. ASSUME NEW k, NEW t, Perform(k, t) PROVE UNCHANGED sessions \/ sessions' = Append(sessions, t)
  BY <1>1 DEF Perform
<1>2. ASSUME NEW r \in Runners, Step(r) PROVE UNCHANGED sessions \/ \E t : sessions' = Append(sessions, t)
  <2>1. CASE SendConfirmed(r) \/ SendUnproven(r)
    BY <1>1, <2>1 DEF SendConfirmed, SendUnproven, provider
  <2>2. CASE PersistPending(r) \/ Authorize(r) \/ ClaimRead(r) \/ AcquireLease(r) \/ ClaimOperation(r)
               \/ MarkLane(r) \/ ReleaseLease(r) \/ RecordUnknown(r) \/ RecordUnknownLane(r)
    BY <2>2 DEF PersistPending, Authorize, ClaimRead, AcquireLease, ClaimOperation, MarkLane,
                ReleaseLease, RecordUnknown, RecordUnknownLane, provider
  <2>3. CASE RecordReadback(r) \/ RecordReadbackLane(r) \/ RestoreShadow(r) \/ PersistBinding(r)
               \/ RecordConfirmedGeneration(r) \/ ClearPending(r) \/ ReadBefore(r) \/ Upsert(r)
               \/ PreserveEffects(r)
    BY <2>3 DEF RecordReadback, RecordReadbackLane, RestoreShadow, PersistBinding,
                RecordConfirmedGeneration, ClearPending, ReadBefore, Upsert, PreserveEffects, provider
  <2> QED
    BY <1>2, <2>1, <2>2, <2>3 DEF Step
<1>3. ASSUME NEW r \in Runners, RequestGeneration(r) \/ StartMessage(r) \/ StartReconcile(r)
                                  \/ StartObservation(r) \/ Crash(r)
      PROVE  UNCHANGED sessions
  BY <1>3 DEF RequestGeneration, StartGeneration, StartGenerationUnread, StartMessage, StartReconcile, StartObservation, Crash,
              provider
<1>4. ASSUME NEW e \in late, ProviderPerformsLate(e)
      PROVE  UNCHANGED sessions \/ \E t : sessions' = Append(sessions, t)
  BY <1>1, <1>4 DEF ProviderPerformsLate
<1>5. ASSUME ExpireLease \/ UNCHANGED vars PROVE UNCHANGED sessions
  BY <1>5 DEF ExpireLease, provider, vars
<1>6. UNCHANGED sessions \/ \E t : sessions' = Append(sessions, t)
  BY <1>2, <1>3, <1>4, <1>5 DEF Next, Runners
<1>7. CASE UNCHANGED sessions
  BY <1>7 DEF Titles, Created
<1>8. ASSUME NEW t, sessions' = Append(sessions, t) PROVE Titles \subseteq Titles'
  <2>1. sessions \in Seq(Transition \cup {NoMarker})
    BY DEF IInv, RecordsOK
  <2>2. Len(sessions') = Len(sessions) + 1 /\ Len(sessions) \in Nat
        /\ \A i \in 1..Len(sessions) : sessions'[i] = sessions[i]
    BY <1>8, <2>1
  <2>3. \A s \in Created : s \in Created' /\ sessions'[s] = sessions[s]
    BY <2>2 DEF Created
  <2> QED
    BY <2>3 DEF Titles
<1> QED
  BY <1>6, <1>7, <1>8

LEMMA AccountOnly ==
    ASSUME [Next]_vars
    PROVE  UNCHANGED account \/ \E r \in Runners : RecordConfirmedGeneration(r)
<1>1. ASSUME NEW r \in Runners, Step(r), ~RecordConfirmedGeneration(r) PROVE UNCHANGED account
  <2>1. CASE PersistPending(r) \/ Authorize(r) \/ ClaimRead(r) \/ AcquireLease(r) \/ ClaimOperation(r)
               \/ MarkLane(r) \/ ReleaseLease(r) \/ RecordUnknown(r) \/ RecordUnknownLane(r)
               \/ SendConfirmed(r) \/ SendUnproven(r)
    BY <2>1 DEF PersistPending, Authorize, ClaimRead, AcquireLease, ClaimOperation, MarkLane,
                ReleaseLease, RecordUnknown, RecordUnknownLane, SendConfirmed, SendUnproven, store
  <2>2. CASE RecordReadback(r) \/ RecordReadbackLane(r) \/ RestoreShadow(r) \/ PersistBinding(r)
               \/ ClearPending(r) \/ ReadBefore(r) \/ Upsert(r) \/ PreserveEffects(r)
    BY <2>2 DEF RecordReadback, RecordReadbackLane, RestoreShadow, PersistBinding,
                ClearPending, ReadBefore, Upsert, PreserveEffects, store
  <2> QED
    BY <1>1, <2>1, <2>2 DEF Step
<1>2. ASSUME NEW r \in Runners, RequestGeneration(r) \/ StartMessage(r) \/ StartReconcile(r)
                                  \/ StartObservation(r) \/ Crash(r)
      PROVE  UNCHANGED account
  BY <1>2 DEF RequestGeneration, StartGeneration, StartGenerationUnread, StartMessage, StartReconcile, StartObservation, Crash,
              store
<1>3. ASSUME (\E e \in late : ProviderPerformsLate(e)) \/ ExpireLease \/ UNCHANGED vars
      PROVE  UNCHANGED account
  BY <1>3 DEF ProviderPerformsLate, ExpireLease, store, vars
<1> QED
  BY <1>1, <1>2, <1>3 DEF Next, Runners

LEMMA NextCounts == ASSUME IInv, Remembers, Counting, [Next]_vars PROVE Counting'
<1>1. Titles \subseteq Titles'
  BY TitlesGrow
<1>2. /\ IsFiniteSet(Counted) /\ account.count = Cardinality(Counted)
      /\ account.count = Len(account.seen) /\ Counted \subseteq Titles
  BY DEF Counting
<1>3. CASE UNCHANGED account
  <2>1. Counted' = Counted
    BY <1>3 DEF Counted
  <2> QED
    BY <1>1, <1>2, <1>3, <2>1 DEF Counting
<1>4. ASSUME NEW r \in Runners, RecordConfirmedGeneration(r), ~UNCHANGED account PROVE Counting'
  <2> DEFINE e == [key |-> run[r].key, t |-> run[r].t]
             t == run[r].t
             E == [key : Key, t : Transition]
  <2>1. /\ e \in E /\ e.t = t /\ t \in Transition /\ t.from >= 1
        /\ run[r].fp \in DOMAIN sessions /\ sessions[run[r].fp] = t
        /\ account' = [count |-> account.count + 1, seen |-> Remember(account.seen, e)]
        /\ t \notin Counted
    BY <1>4, AccountFacts
  <2>2. account.seen \in Seq(E) /\ account.count \in Nat
    BY DEF IInv, RecordsOK
  <2> HIDE DEF e, t, E
  <2>3. t \in Titles
    <3>0. t.from >= 1
      BY <2>1
    <3>1. run[r].fp # 1
      BY <2>1, TransitionFields DEF IInv, SessionsOK
    <3>2. run[r].fp \in Created
      BY <2>1, <3>1, SessionsTyped DEF IInv, Created
    <3> QED
      BY <2>1, <3>0, <3>2 DEF Titles
  <2>4. /\ IsFiniteSet(Counted \cup {t}) /\ Cardinality(Counted \cup {t}) = account.count + 1
    BY <1>2, <2>1, FS_AddElement
  <2>5. account.count + 1 <= Window
    <3>1. Counted \cup {t} \in SUBSET Titles
      BY <1>2, <2>3
    <3>2. Cardinality(Counted \cup {t}) <= Cardinality(Titles)
      BY <3>1, TitlesBound, FS_Subset
    <3> QED
      BY <2>2, <2>4, <3>2, TitlesBound, LineageAssumption DEF Remembers
  <2> DEFINE all == Append(account.seen, e)
  <2>6. /\ all \in Seq(E) /\ Len(all) = Len(account.seen) + 1 /\ Len(account.seen) \in Nat
        /\ \A i \in 1..Len(account.seen) : all[i] = account.seen[i]
        /\ all[Len(account.seen) + 1] = e
    BY <2>1, <2>2
  <2>7. Remember(account.seen, e) = all
    BY <1>2, <2>5, <2>6, LineageAssumption DEF Remember
  <2> HIDE DEF all
  <2>8. account'.seen = all /\ account'.count = account.count + 1
    BY <2>1, <2>7
  <2>9. Counted' = Counted \cup {t}
    <3>1. DOMAIN all = 1..(Len(account.seen) + 1) /\ DOMAIN account.seen = 1..Len(account.seen)
      BY <2>2, <2>6
    <3>2. \A i \in DOMAIN all : i \in DOMAIN account.seen \/ i = Len(account.seen) + 1
      BY <2>6, <3>1
    <3>3. Len(account.seen) + 1 \in DOMAIN all /\ \A i \in DOMAIN account.seen : i \in DOMAIN all
      BY <2>6, <3>1
    <3>4. Counted' = {all[i].t : i \in DOMAIN all}
      BY <2>8 DEF Counted
    <3>5. \A i \in DOMAIN account.seen : all[i] = account.seen[i]
      BY <2>6, <3>1
    <3>6. ASSUME NEW x \in Counted' PROVE x \in Counted \cup {t}
      <4>1. PICK i \in DOMAIN all : x = all[i].t
        BY <3>4, <3>6
      <4>2. CASE i \in DOMAIN account.seen
        BY <3>5, <4>1, <4>2 DEF Counted
      <4>3. CASE i = Len(account.seen) + 1
        BY <2>1, <2>6, <4>1, <4>3
      <4> QED
        BY <3>2, <4>2, <4>3
    <3>7. t \in Counted'
      BY <2>1, <2>6, <3>3, <3>4
    <3>8. ASSUME NEW x \in Counted PROVE x \in Counted'
      <4>1. PICK i \in DOMAIN account.seen : x = account.seen[i].t
        BY DEF Counted
      <4> QED
        BY <3>3, <3>4, <3>5, <4>1
    <3> QED
      BY <3>6, <3>7, <3>8
  <2>10. Counted' \subseteq Titles'
    BY <1>1, <1>2, <2>3, <2>9
  <2> QED
    BY <1>2, <2>4, <2>6, <2>8, <2>9, <2>10 DEF Counting
<1> QED
  BY <1>3, <1>4, AccountOnly

\* As long as the accounting record remembers every generation it has counted (it keeps the last
\* 512), record_confirmed_generation counts a session once, however often its executor and the
\* reconcilers get there.
THEOREM BudgetCounts == Remembers => (Spec => []CountedOnce)
<1> SUFFICES ASSUME Remembers PROVE Spec => []CountedOnce
  OBVIOUS
<1>1. Init => Counting
  <2> SUFFICES ASSUME Init PROVE Counting
    OBVIOUS
  <2>1. account.seen = <<>> /\ account.count = 0 /\ DOMAIN account.seen = {} /\ Len(account.seen) = 0
    BY DEF Init
  <2>2. Counted = {}
    BY <2>1 DEF Counted
  <2> QED
    BY <2>1, <2>2, FS_EmptySet DEF Counting
<1>2. IInv /\ Counting /\ [Next]_vars => Counting'
  BY NextCounts
<1>3. IInv /\ Counting => CountedOnce
  <2> SUFFICES ASSUME IInv, Counting PROVE CountedOnce
    OBVIOUS
  <2>1. Counted \in SUBSET Titles /\ account.count = Cardinality(Counted)
    BY DEF Counting
  <2>2. Cardinality(Counted) <= Cardinality(Titles) /\ Cardinality(Counted) \in Nat
    BY <2>1, TitlesBound, FS_Subset, FS_CardinalityType
  <2> QED
    BY <2>1, <2>2, TitlesBound, SessionsTyped DEF CountedOnce, IInv
<1> QED
  BY <1>1, <1>2, <1>3, InvariantHolds, PTL DEF Spec
=============================================================================

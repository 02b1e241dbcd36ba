------------------------ MODULE LifecycleCycleProofs ------------------------
(***************************************************************************)
(* Proofs about LifecycleCycle, for any commits, events, jobs, reports,    *)
(* moves and faults.                                                       *)
(***************************************************************************)
EXTENDS LifecycleCycle, TLAPS

SessionStates == {"AWAITING_USER_FEEDBACK", "IN_PROGRESS", "COMPLETED", "FAILED"}

\* Findings come with the handoff they are in.
Handoffs ==
    {h \in [n : 0..MaxMoves, status : {"COMPLETE", "CONTEXT_EXHAUSTED", None},
            verdict : {"PASS", "FINDINGS", "UNKNOWN"}, sha : Shas \cup {None}] :
        h.verdict = "FINDINGS" => h.n # 0}

ProviderSessions ==
    [state : SessionStates, question : 0..MaxMoves, replied : BOOLEAN, handoff : Handoffs]

Views == [state : SessionStates \cup {None}, question : 0..MaxMoves, replied : BOOLEAN,
          handoff : Handoffs, binding : {"PROVEN", "UNBOUND", "AMBIGUOUS"}]

Lanes == [open : BOOLEAN, unknown : BOOLEAN, lease : BOOLEAN]

PCs == {"idle", "register", "inventory", "pr", "observe", "plan", "authorize", "claim", "send",
        "confirm", "unknown", "restore"}

Jobs == [pc : PCs, authority : BOOLEAN, event : Events \cup {None}, role : Roles,
         seen : [Roles -> Views], sha : Shas \cup {None}, ci : BOOLEAN, msg : Messages \cup {None},
         blind : BOOLEAN]

OpStates == {"MISSING", "IN_FLIGHT", "UNKNOWN", "CONFIRMED"}

Typed ==
    /\ head \in Shas
    /\ passed \subseteq Shas
    /\ sess \in [Roles -> ProviderSessions]
    /\ lanes \in [Roles -> Lanes]
    /\ ops \in [Messages -> OpStates]
    /\ job \in Jobs
    /\ sent \in [Messages -> Nat]
    /\ moves \in 0..MaxMoves

\* Steps of a job that has a message, and those before the message is posted.
Ahead == {"authorize", "claim", "send"}
Sending == Ahead \cup {"confirm", "unknown", "restore"}

\* What a job knows of the commit it has read and of the message it has planned, however
\* the pull request and the sessions have moved since.
JobFacts ==
    /\ job.ci => job.sha \in passed
    /\ job.pc \in Sending => job.msg \in Messages
    /\ job.pc \in Ahead =>
          /\ \A s \in Shas : job.msg = ReviewOf(s) => s \in passed
          /\ job.msg.action = "waiting-answer" => ~lanes[job.msg.to].unknown \/ job.blind
    /\ job.pc = "send" => ops[job.msg] # "MISSING" /\ sent[job.msg] = 0

\* A message is posted only after its operation was claimed.
Claimed == \A m \in Messages : sent[m] > 0 => ops[m] # "MISSING"

IInv == Typed /\ JobFacts /\ Claimed /\ SentOnce /\ ReviewOfPassed

-----------------------------------------------------------------------------
(* The catalog *)

Creations == {"CREATE_NEXT_SESSION_GENERATION_SAME_LINEAGE",
              "CREATE_OR_ADOPT_SAME_LOGICAL_LINEAGE_GENERATION"}

Routes == {"CONTINUE_SAME_SESSION", "ROUTE_STRUCTURED_FINDINGS_TO_WRITER_LINEAGE",
           "ROUTE_CURRENT_SHA_TO_REVIEWER_LINEAGE"}

LEMMA ReplaceGuards ==
    ASSUME NEW o, o.work
    PROVE  /\ Replace(o) \notin Routes
           /\ Replace(o) \in Creations => o.work /\ o.budget /\ o.prompt /\ o.alone
BY DEF Replace, Routes, Creations

LEMMA WriterGuards ==
    ASSUME NEW o
    PROVE  LET a == PlanWriter(o) IN
           /\ a \in Creations => o.work /\ o.budget /\ o.prompt /\ o.alone
           /\ a \in Routes => /\ a = "ROUTE_CURRENT_SHA_TO_REVIEWER_LINEAGE"
                              /\ o.sha # None /\ o.ci = "PASS"
BY ReplaceGuards DEF PlanWriter, Routes, Creations

LEMMA ReviewerGuards ==
    ASSUME NEW o
    PROVE  LET a == PlanReviewer(o) IN
           /\ a \notin Creations
           /\ a \in Routes => /\ a = "ROUTE_STRUCTURED_FINDINGS_TO_WRITER_LINEAGE"
                              /\ o.handoff.verdict = "FINDINGS"
<1>1. CASE o.handoff.verdict = "PASS" /\ o.handoff.sha # None
  BY <1>1 DEF PlanReviewer, Routes, Creations
<1>2. CASE o.handoff.verdict = "FINDINGS"
  BY <1>2 DEF PlanReviewer, Routes, Creations
<1>3. CASE ~(o.handoff.verdict = "PASS" /\ o.handoff.sha # None) /\ o.handoff.verdict # "FINDINGS"
  BY <1>3 DEF PlanReviewer, Routes, Creations
<1> QED
  BY <1>1, <1>2, <1>3

\* What a plan with an effect on the provider rests on.
Guarded(o, a) ==
    /\ a \in Creations => o.work /\ o.budget /\ o.prompt /\ o.alone
    /\ a = "ROUTE_CURRENT_SHA_TO_REVIEWER_LINEAGE" => o.sha # None /\ o.ci = "PASS"
    /\ a = "ROUTE_STRUCTURED_FINDINGS_TO_WRITER_LINEAGE" => o.handoff.verdict = "FINDINGS"

LEMMA SessionGuards == ASSUME NEW o PROVE Guarded(o, PlanSession(o))
<1> DEFINE a == PlanSession(o)
<1>1. CASE o.state = "AWAITING_USER_FEEDBACK"
  <2>1. a = PlanWaiting(o)
    BY <1>1 DEF PlanSession
  <2> QED
    BY <2>1 DEF PlanWaiting, Guarded, Creations
<1>2. CASE o.state = "COMPLETED"
  <2>1. a = IF o.role = "WRITER" THEN PlanWriter(o) ELSE PlanReviewer(o)
    BY <1>2 DEF PlanSession
  <2>2. CASE o.role = "WRITER"
    <3>1. a = PlanWriter(o)
      BY <2>1, <2>2
    <3> QED
      BY <3>1, WriterGuards DEF Guarded, Routes
  <2>3. CASE o.role # "WRITER"
    <3>1. a = PlanReviewer(o)
      BY <2>1, <2>3
    <3> QED
      BY <3>1, ReviewerGuards DEF Guarded, Routes
  <2> QED
    BY <2>2, <2>3
<1>3. CASE o.state = "FAILED"
  <2>1. a = IF o.work THEN Replace(o) ELSE "CLOSE_FAILED_LINEAGE_NO_REPLACEMENT"
    BY <1>3 DEF PlanSession
  <2> QED
    BY <2>1, ReplaceGuards DEF Guarded, Creations, Routes
<1>4. CASE o.state \notin {"AWAITING_USER_FEEDBACK", "COMPLETED", "FAILED"}
  <2>1. a \in {"OBSERVE_SAME_SESSION_PROGRESS", "WAIT_ACTIVE_SAME_SESSION",
               "APPROVE_PLAN_OR_PARENT_RECONCILE_SAME_SESSION", "RECONCILE_PAUSED_SAME_SESSION",
               "ROOT_CAUSE_RECONCILIATION_REQUIRED"}
    <3>1. CASE o.state = "IN_PROGRESS"
      BY <3>1 DEF PlanSession
    <3>2. CASE o.state \in {"QUEUED", "PLANNING"}
      BY <3>2 DEF PlanSession
    <3>3. CASE o.state = "AWAITING_PLAN_APPROVAL"
      BY <3>3 DEF PlanSession
    <3>4. CASE o.state = "PAUSED"
      BY <3>4 DEF PlanSession
    <3>5. CASE o.state \notin {"IN_PROGRESS", "QUEUED", "PLANNING", "AWAITING_PLAN_APPROVAL", "PAUSED"}
      BY <1>4, <3>5 DEF PlanSession
    <3> QED
      BY <3>1, <3>2, <3>3, <3>4, <3>5
  <2> QED
    BY <2>1 DEF Guarded, Creations
<1> QED
  BY <1>1, <1>2, <1>3, <1>4

LEMMA BoundGuards == ASSUME NEW o PROVE Guarded(o, PlanBound(o))
<1>1. CASE o.binding = "UNBOUND"
  BY <1>1 DEF PlanBound, PlanUnbound, Guarded, Creations
<1>2. CASE o.binding # "UNBOUND" /\ StaleReview(o)
  BY <1>2 DEF PlanBound, PlanStale, Guarded, Creations
<1>3. CASE o.binding # "UNBOUND" /\ ~StaleReview(o)
  BY <1>3, SessionGuards DEF PlanBound
<1> QED
  BY <1>1, <1>2, <1>3

LEMMA RecoveryGuards ==
    ASSUME NEW o
    PROVE  LET a == PlanRecovery(o) IN
           /\ Guarded(o, a)
           /\ a \in Creations \cup Routes =>
                 /\ ~o.drift /\ ~o.unknown /\ o.binding # "AMBIGUOUS"
                 /\ o.intent \notin {"acknowledged", "observed", "signalled"}
<1> DEFINE a == PlanRecovery(o)
           held == \/ o.drift \/ o.unknown \/ o.binding = "AMBIGUOUS"
                   \/ o.intent \in {"acknowledged", "observed", "signalled"}
<1>1. CASE held
  <2>1. a \in {"RECONCILE_GITHUB_LINEAGE_BRANCH_DRIFT", "RECONCILE_EXACT_LINEAGE_BINDING",
               "AUTHORITATIVE_POST_WRITE_RECONCILIATION",
               "RECONCILE_EXTERNAL_INTENT_ACK_TO_PROVIDER_SESSION_BINDING",
               "RECONCILE_EXTERNAL_INTENT_NO_EFFECT",
               "WAIT_FOR_AUTHORITATIVE_PROVIDER_OBSERVATION_AFTER_EXTERNAL_INTENT"}
    BY <1>1 DEF PlanRecovery
  <2>2. a \notin Creations \cup Routes
    BY <2>1 DEF Creations, Routes
  <2> QED
    BY <2>2 DEF Guarded, Routes
<1>2. CASE ~held
  <2>1. a = PlanBound(o)
    BY <1>2 DEF PlanRecovery
  <2> QED
    BY <1>2, <2>1, BoundGuards
<1> QED
  BY <1>1, <1>2

-----------------------------------------------------------------------------
(* Messages and records *)

LEMMA MessageTyped == ASSUME NEW m \in Messages PROVE m.to \in Roles
BY DEF Messages, Answer, Correction, ReviewOf, Roles

LEMMA MessageKinds ==
    /\ \A r \in Roles, q \in 1..MaxMoves :
          /\ Answer(r, q) \in Messages
          /\ Answer(r, q).action = "waiting-answer" /\ Answer(r, q).to = r
          /\ \A s \in Shas : Answer(r, q) # ReviewOf(s)
    /\ \A n \in 1..MaxMoves :
          /\ Correction(n) \in Messages /\ Correction(n).action # "waiting-answer"
          /\ \A s \in Shas : Correction(n) # ReviewOf(s)
    /\ \A s \in Shas :
          /\ ReviewOf(s) \in Messages /\ ReviewOf(s).action # "waiting-answer"
          /\ \A t \in Shas : ReviewOf(s) = ReviewOf(t) => s = t
<1>1. ASSUME NEW r \in Roles, NEW q \in 1..MaxMoves
      PROVE  /\ Answer(r, q) \in Messages
             /\ Answer(r, q).action = "waiting-answer" /\ Answer(r, q).to = r
  BY DEF Messages, Answer
<1>2. ASSUME NEW n \in 1..MaxMoves
      PROVE  Correction(n) \in Messages /\ Correction(n).action = "review-findings-correction"
  BY DEF Messages, Correction
<1>3. ASSUME NEW s \in Shas
      PROVE  /\ ReviewOf(s) \in Messages /\ ReviewOf(s).action = "exact-sha-review-request"
             /\ ReviewOf(s).trigger = s
  BY DEF Messages, ReviewOf
<1> QED
  BY <1>1, <1>2, <1>3

LEMMA NoHandoffTyped == NoHandoff \in Handoffs
BY CycleAssumption DEF NoHandoff, Handoffs

LEMMA UnseenTyped == Unseen \in Views
BY NoHandoffTyped, CycleAssumption DEF Unseen, Views

LEMMA IdleTyped ==
    /\ Idle \in Jobs /\ Idle.pc = "idle" /\ ~Idle.ci
<1>1. [r \in Roles |-> Unseen] \in [Roles -> Views] /\ "WRITER" \in Roles
  BY UnseenTyped DEF Roles
<1> QED
  BY <1>1 DEF Idle, Jobs, PCs

LEMMA InitIInv == Init => IInv
<1> SUFFICES ASSUME Init PROVE IInv
  OBVIOUS
<1>1. NewSession \in ProviderSessions
  BY NoHandoffTyped, CycleAssumption DEF NewSession, ProviderSessions, SessionStates
<1>2. NewLane \in Lanes
  BY DEF NewLane, Lanes
<1>3. Typed
  BY <1>1, <1>2, IdleTyped, CycleAssumption DEF Init, Typed, OpStates
<1>4. JobFacts
  BY IdleTyped DEF Init, JobFacts, Sending, Ahead
<1>5. \A m \in Messages : sent[m] = 0
  BY DEF Init
<1>6. Claimed /\ SentOnce
  BY <1>5 DEF Claimed, SentOnce
<1>7. ReviewOfPassed
  BY <1>5, MessageKinds DEF ReviewOfPassed
<1> QED
  BY <1>3, <1>4, <1>6, <1>7 DEF IInv

-----------------------------------------------------------------------------
(* Steps outside the cycle *)

\* The sessions and the pull request move; evidence of a commit is not withdrawn.
LEMMA WorldStep ==
    ASSUME IInv, UNCHANGED <<lanes, ops, job, sent>>, head' \in Shas,
           passed \subseteq passed', passed' \subseteq Shas,
           sess' \in [Roles -> ProviderSessions], moves' \in 0..MaxMoves
    PROVE  IInv'
<1>1. UNCHANGED lanes /\ UNCHANGED ops /\ UNCHANGED job /\ UNCHANGED sent
  OBVIOUS
<1>2. Typed'
  BY <1>1 DEF IInv, Typed
<1>3. JobFacts'
  BY <1>1 DEF IInv, JobFacts
<1>4. Claimed' /\ SentOnce' /\ ReviewOfPassed'
  BY <1>1 DEF IInv, Claimed, SentOnce, ReviewOfPassed
<1> QED
  BY <1>2, <1>3, <1>4 DEF IInv

LEMMA MoveTyped == ASSUME Typed, Move PROVE moves' \in 0..MaxMoves /\ moves' = moves + 1 /\ moves' # 0
BY CycleAssumption DEF Typed, Move

LEMMA SessionWritten ==
    ASSUME Typed, NEW r \in Roles, NEW s \in ProviderSessions, sess' = [sess EXCEPT ![r] = s]
    PROVE  sess' \in [Roles -> ProviderSessions]
BY DEF Typed

LEMMA AskKeeps == ASSUME IInv, NEW r \in Roles, Ask(r) PROVE IInv'
<1> DEFINE s == [sess[r] EXCEPT !.state = "AWAITING_USER_FEEDBACK", !.question = moves + 1,
                                !.replied = FALSE]
<1>1. Typed /\ Move /\ UNCHANGED <<head, passed>> /\ UNCHANGED <<lanes, ops, job, sent>>
  BY DEF Ask, IInv, outside, store
<1>2. s \in ProviderSessions
  BY <1>1, MoveTyped DEF Typed, ProviderSessions, SessionStates
<1>3. sess' = [sess EXCEPT ![r] = s]
  BY <1>1 DEF Ask, Typed
<1> HIDE DEF s
<1>4. sess' \in [Roles -> ProviderSessions]
  BY <1>1, <1>2, <1>3, SessionWritten
<1> QED
  BY <1>1, <1>4, MoveTyped, WorldStep DEF Typed

LEMMA ResumeKeeps == ASSUME IInv, NEW r \in Roles, Resume(r) PROVE IInv'
<1> DEFINE s == [sess[r] EXCEPT !.state = "IN_PROGRESS", !.replied = TRUE]
<1>1. Typed /\ UNCHANGED <<head, passed, moves>> /\ UNCHANGED <<lanes, ops, job, sent>>
  BY DEF Resume, IInv, outside, store
<1>2. s \in ProviderSessions
  BY <1>1 DEF Typed, ProviderSessions, SessionStates
<1>3. sess' = [sess EXCEPT ![r] = s]
  BY <1>1 DEF Resume, Typed
<1> HIDE DEF s
<1>4. sess' \in [Roles -> ProviderSessions]
  BY <1>1, <1>2, <1>3, SessionWritten
<1> QED
  BY <1>1, <1>4, WorldStep DEF Typed

LEMMA HandOffKeeps == ASSUME IInv, NEW h \in Reports, HandOff(h) PROVE IInv'
<1> DEFINE r == h.role
           f == LatestHandoff(sess[r], h)
           s == [sess[r] EXCEPT !.state = h.state, !.handoff = f]
<1>1. Typed /\ Move /\ UNCHANGED <<head, passed>> /\ UNCHANGED <<lanes, ops, job, sent>>
  BY DEF HandOff, IInv, outside, store
<1>2. /\ r \in Roles /\ h.state \in {"IN_PROGRESS", "COMPLETED", "FAILED"}
      /\ h.verdict \in {"PASS", "FINDINGS", "UNKNOWN"} /\ h.sha \in Shas \cup {None}
      /\ h.status \in {"COMPLETE", "CONTEXT_EXHAUSTED", None}
  BY CycleAssumption DEF Roles
<1>3. sess[r] \in ProviderSessions /\ moves + 1 \in 0..MaxMoves /\ moves + 1 # 0
  BY <1>1, <1>2, MoveTyped DEF Typed
<1>4. f \in Handoffs
  <2>1. CASE h.status = None
    BY <1>3, <2>1 DEF LatestHandoff, ProviderSessions
  <2>2. CASE h.status # None
    BY <1>2, <1>3, <2>2 DEF LatestHandoff, Handoffs
  <2> QED
    BY <2>1, <2>2
<1>5. sess' = [sess EXCEPT ![r] = s]
  BY <1>1 DEF HandOff, Typed
<1> HIDE DEF f
<1>6. s \in ProviderSessions
  BY <1>2, <1>3, <1>4 DEF ProviderSessions, SessionStates
<1> HIDE DEF s, r
<1>7. sess' \in [Roles -> ProviderSessions]
  BY <1>1, <1>2, <1>5, <1>6, SessionWritten
<1> QED
  BY <1>1, <1>7, MoveTyped, WorldStep DEF Typed

LEMMA PullRequestKeeps == ASSUME IInv, (\E s \in Shas : Push(s)) \/ PassCI PROVE IInv'
<1>1. CASE \E s \in Shas : Push(s)
  BY <1>1, MoveTyped, WorldStep DEF Push, outside, store, IInv, Typed
<1>2. CASE PassCI
  BY <1>2, WorldStep DEF PassCI, outside, store, IInv, Typed
<1> QED
  BY <1>1, <1>2

LEMMA DeliveredTyped ==
    ASSUME Typed, NEW m \in Messages, Delivered(m) PROVE sess' \in [Roles -> ProviderSessions]
<1> DEFINE s == [sess[m.to] EXCEPT !.replied = TRUE]
<1>1. m.to \in Roles
  BY MessageTyped
<1>2. s \in ProviderSessions /\ sess' = [sess EXCEPT ![m.to] = s]
  BY <1>1 DEF Typed, ProviderSessions, Delivered
<1> HIDE DEF s
<1> QED
  BY <1>1, <1>2, SessionWritten

LEMMA DeliverLateKeeps == ASSUME IInv, NEW m \in Messages, DeliverLate(m) PROVE IInv'
<1>1. /\ Typed /\ Delivered(m) /\ UNCHANGED <<head, passed, moves>>
      /\ UNCHANGED <<lanes, ops, job, sent>>
  BY DEF DeliverLate, IInv, store
<1> QED
  BY <1>1, DeliveredTyped, WorldStep DEF Typed

-----------------------------------------------------------------------------
(* Steps of the job *)

quiet == <<head, passed, sess, moves, ops, sent>>

\* A step that writes neither an operation nor to the provider.
LEMMA JobStep ==
    ASSUME IInv, UNCHANGED quiet, job' \in Jobs, lanes' \in [Roles -> Lanes], JobFacts'
    PROVE  IInv'
<1>1. /\ UNCHANGED head /\ UNCHANGED passed /\ UNCHANGED sess /\ UNCHANGED moves
      /\ UNCHANGED ops /\ UNCHANGED sent
  BY DEF quiet
<1>2. Typed'
  BY <1>1 DEF IInv, Typed
<1>3. Claimed' /\ SentOnce' /\ ReviewOfPassed'
  BY <1>1 DEF IInv, Claimed, SentOnce, ReviewOfPassed
<1> QED
  BY <1>2, <1>3 DEF IInv

\* A step to where there is no message.
LEMMA ApartStep ==
    ASSUME IInv, UNCHANGED quiet, job' \in Jobs, lanes' \in [Roles -> Lanes],
           job'.pc \notin Sending, job'.ci => job'.sha \in passed
    PROVE  IInv'
<1>1. JobFacts'
  BY DEF JobFacts, Sending, Ahead, quiet
<1> QED
  BY <1>1, JobStep

LEMMA EndStep ==
    ASSUME IInv, UNCHANGED quiet, job' = Idle, lanes' \in [Roles -> Lanes]
    PROVE  IInv'
BY IdleTyped, ApartStep DEF Sending, Ahead

LEMMA GotoTyped ==
    ASSUME Typed, NEW l \in PCs, Goto(l)
    PROVE  /\ job' \in Jobs /\ job'.pc = l /\ job'.msg = job.msg /\ job'.sha = job.sha
           /\ job'.ci = job.ci /\ job'.blind = job.blind
BY DEF Typed, Goto, Jobs

LEMMA OpenWritten ==
    ASSUME Typed, NEW r \in Roles, NEW b \in BOOLEAN, lanes' = [lanes EXCEPT ![r].open = b]
    PROVE  /\ lanes' \in [Roles -> Lanes]
           /\ \A q \in Roles : lanes'[q].unknown = lanes[q].unknown
<1> DEFINE l == [lanes[r] EXCEPT !.open = b]
<1>1. l \in Lanes /\ l.unknown = lanes[r].unknown /\ lanes' = [lanes EXCEPT ![r] = l]
  BY DEF Typed, Lanes
<1> HIDE DEF l
<1> QED
  BY <1>1 DEF Typed

LEMMA StartKeeps == ASSUME IInv, NEW w \in Wakeups, Start(w) PROVE IInv'
<1> DEFINE pc == IF w.event = None THEN "inventory" ELSE "register"
           rec == [Idle EXCEPT !.authority = w.authority, !.event = w.event, !.pc = pc]
<1>1. w.authority \in BOOLEAN /\ w.event \in Events \cup {None}
  BY CycleAssumption
<1>2. pc \in {"inventory", "register"} /\ pc \in PCs
  BY DEF PCs
<1>3. job' = rec /\ UNCHANGED quiet /\ lanes' \in [Roles -> Lanes]
  BY DEF Start, world, store, quiet, IInv, Typed
<1> HIDE DEF pc
<1>4. rec \in Jobs /\ rec.pc = pc /\ ~rec.ci
  BY <1>1, <1>2, IdleTyped DEF Jobs
<1> HIDE DEF rec
<1> QED
  BY <1>2, <1>3, <1>4, ApartStep DEF Sending, Ahead

LEMMA RegisterKeeps ==
    ASSUME IInv, RegisterWakeup \/ RegisterDegraded \/ InventoryUnavailable
    PROVE  IInv'
<1>1. UNCHANGED quiet /\ Typed /\ lanes' \in [Roles -> Lanes] /\ (job.ci => job.sha \in passed)
  BY DEF RegisterWakeup, RegisterDegraded, InventoryUnavailable, world, store, quiet, IInv, Typed, JobFacts
<1>2. job' = Idle \/ Goto("inventory") \/ Goto("register")
  BY DEF RegisterWakeup, RegisterDegraded, InventoryUnavailable
<1>3. CASE job' = Idle
  BY <1>1, <1>3, EndStep
<1>4. ASSUME NEW l \in {"inventory", "register"}, Goto(l) PROVE IInv'
  <2>1. job' \in Jobs /\ job'.pc = l /\ job'.sha = job.sha /\ job'.ci = job.ci
    BY <1>1, <1>4, GotoTyped DEF PCs
  <2> QED
    BY <1>1, <2>1, ApartStep DEF Sending, Ahead
<1> QED
  BY <1>2, <1>3, <1>4

LEMMA ReadInventoryKeeps == ASSUME IInv, ReadInventory PROVE IInv'
<1> DEFINE seen == [r \in Roles |-> [Unseen EXCEPT !.state = sess[r].state]]
           rec == [job EXCEPT !.pc = "pr", !.seen = seen]
<1>1. /\ UNCHANGED quiet /\ Typed /\ lanes' \in [Roles -> Lanes] /\ (job.ci => job.sha \in passed)
      /\ job' = rec
  BY DEF ReadInventory, world, store, quiet, IInv, Typed, JobFacts
<1>2. seen \in [Roles -> Views]
  <2> SUFFICES ASSUME NEW r \in Roles PROVE [Unseen EXCEPT !.state = sess[r].state] \in Views
    OBVIOUS
  <2>1. sess[r].state \in SessionStates
    BY <1>1 DEF Typed, ProviderSessions
  <2> QED
    BY <2>1, UnseenTyped DEF Views
<1> HIDE DEF seen
<1>3. rec \in Jobs /\ rec.pc = "pr" /\ rec.sha = job.sha /\ rec.ci = job.ci
  BY <1>1, <1>2 DEF Typed, Jobs, PCs
<1> HIDE DEF rec
<1> QED
  BY <1>1, <1>3, ApartStep DEF Sending, Ahead

LEMMA ReadPRKeeps == ASSUME IInv, ReadPR PROVE IInv'
<1> DEFINE ci == head \in passed
           rec == [job EXCEPT !.pc = "observe", !.sha = head, !.ci = ci]
<1>1. UNCHANGED quiet /\ Typed /\ lanes' \in [Roles -> Lanes] /\ job' = rec /\ head \in Shas
  BY DEF ReadPR, world, store, quiet, IInv, Typed
<1>2. ci \in BOOLEAN /\ (ci => head \in passed)
  OBVIOUS
<1> HIDE DEF ci
<1>3. rec \in Jobs /\ rec.pc = "observe" /\ rec.sha = head /\ rec.ci = ci
  BY <1>1, <1>2 DEF Typed, Jobs, PCs
<1> HIDE DEF rec
<1> QED
  BY <1>1, <1>2, <1>3, ApartStep DEF Sending, Ahead

LEMMA ObserveLaneKeeps == ASSUME IInv, ObserveLane PROVE IInv'
<1> DEFINE r == job.role
           w == WaitingState(r)
           seeing(b) == IF b = "PROVEN"
                          THEN [state |-> job.seen[r].state, handoff |-> sess[r].handoff, binding |-> b,
                                question |-> w.question, replied |-> w.replied]
                          ELSE [job.seen[r] EXCEPT !.binding = b]
           pc == IF r = "WRITER" THEN "observe" ELSE "plan"
<1>1. /\ UNCHANGED quiet /\ Typed /\ (job.ci => job.sha \in passed) /\ job \in Jobs /\ r \in Roles
      /\ lanes' = [lanes EXCEPT ![r].open = FALSE]
  BY DEF ObserveLane, world, quiet, IInv, Typed, JobFacts, Jobs
<1>2. lanes' \in [Roles -> Lanes]
  BY <1>1, OpenWritten
<1>3. PICK b \in {"PROVEN", "UNBOUND", "AMBIGUOUS"} :
         job' = [job EXCEPT !.seen = [job.seen EXCEPT ![r] = seeing(b)], !.role = Paired(r), !.pc = pc]
  BY <1>1 DEF ObserveLane, Jobs
<1>4. job.seen[r] \in Views /\ sess[r].handoff \in Handoffs
  BY <1>1 DEF Jobs, Typed, ProviderSessions
<1>5. w.question \in 0..MaxMoves /\ w.replied \in BOOLEAN
  <2>1. sess[r].question \in 0..MaxMoves /\ sess[r].replied \in BOOLEAN /\ 0 \in 0..MaxMoves
    BY <1>1, CycleAssumption DEF Typed, ProviderSessions
  <2>2. CASE job.seen[r].state = "AWAITING_USER_FEEDBACK"
    BY <2>1, <2>2 DEF WaitingState
  <2>3. CASE job.seen[r].state # "AWAITING_USER_FEEDBACK"
    BY <2>1, <2>3 DEF WaitingState
  <2> QED
    BY <2>2, <2>3
<1> HIDE DEF w
<1>6. seeing(b) \in Views
  <2>1. CASE b = "PROVEN"
    BY <1>4, <1>5, <2>1 DEF Views
  <2>2. CASE b # "PROVEN"
    BY <1>4, <2>2 DEF Views
  <2> QED
    BY <2>1, <2>2
<1>7. Paired(r) \in Roles /\ pc \in {"observe", "plan"}
  BY DEF Paired, Roles
<1> HIDE DEF seeing, pc
<1> DEFINE seen == [job.seen EXCEPT ![r] = seeing(b)]
<1>8. seen \in [Roles -> Views]
  BY <1>1, <1>6 DEF Jobs
<1> HIDE DEF seen
<1> DEFINE rec == [job EXCEPT !.seen = seen, !.role = Paired(r), !.pc = pc]
<1>9. job' = rec
  BY <1>3 DEF seen
<1>10. rec \in Jobs /\ rec.pc = pc /\ rec.sha = job.sha /\ rec.ci = job.ci
  BY <1>1, <1>7, <1>8 DEF Jobs, PCs
<1> HIDE DEF rec
<1> QED
  BY <1>1, <1>2, <1>7, <1>9, <1>10, ApartStep DEF Sending, Ahead

LEMMA NextLineageKeeps ==
    ASSUME IInv, UNCHANGED quiet, lanes' \in [Roles -> Lanes], NextLineage
    PROVE  IInv'
<1> DEFINE rec == [job EXCEPT !.pc = "plan", !.role = "REVIEWER", !.msg = None,
                        !.blind = FALSE]
<1>1. rec \in Jobs /\ rec.pc = "plan" /\ rec.sha = job.sha /\ rec.ci = job.ci
  BY DEF IInv, Typed, Jobs, PCs, Roles
<1>2. job' = rec \/ job' = Idle
  BY DEF NextLineage
<1>3. job.ci => job.sha \in passed
  BY DEF IInv, JobFacts
<1> HIDE DEF rec
<1> QED
  BY <1>1, <1>2, <1>3, EndStep, ApartStep DEF Sending, Ahead

LEMMA ObservationFields ==
    ASSUME NEW r, NEW u
    PROVE  LET o == Observation(r, u) IN
           /\ o.role = r /\ o.state = job.seen[r].state /\ o.handoff = job.seen[r].handoff
           /\ o.binding = job.seen[r].binding /\ o.sha = job.sha
           /\ o.ci = (IF job.ci THEN "PASS" ELSE "FAIL") /\ o.unknown = u
BY DEF Observation

\* The message of a plan: a review of the commit that was read with its evidence, the
\* findings of a handoff, or an answer of its own lane over no unknown write that was seen.
LEMMA MessageOfPlan ==
    ASSUME IInv, NEW r \in Roles, NEW u \in BOOLEAN, NEW m,
           m = MessageFor(r, PlanRecovery(Observation(r, u))), m # None
    PROVE  /\ m \in Messages
           /\ \A s \in Shas : m = ReviewOf(s) => s \in passed
           /\ m.action = "waiting-answer" => m.to = r /\ ~u
<1> DEFINE o == Observation(r, u)
           a == PlanRecovery(o)
           v == job.seen[r]
           w == job.seen[Paired(r)]
           continues == w.binding = "PROVEN" /\ w.state \in DirectContinuation
<1>1. /\ o.handoff = v.handoff /\ o.sha = job.sha
      /\ o.ci = (IF job.ci THEN "PASS" ELSE "FAIL") /\ o.unknown = u
  BY ObservationFields
<1>2. Guarded(o, a) /\ (a \in Routes => ~o.unknown)
  BY RecoveryGuards
<1>3. v \in Views /\ job.sha \in Shas \cup {None} /\ (job.ci => job.sha \in passed)
  BY DEF IInv, Typed, Jobs, JobFacts
<1> HIDE DEF o, a, v, continues
<1>4. m = CASE a = "CONTINUE_SAME_SESSION" /\ v.question > 0 -> Answer(r, v.question)
            [] a = "ROUTE_STRUCTURED_FINDINGS_TO_WRITER_LINEAGE" /\ continues ->
                  Correction(v.handoff.n)
            [] a = "ROUTE_CURRENT_SHA_TO_REVIEWER_LINEAGE" /\ continues -> ReviewOf(job.sha)
            [] OTHER -> None
  BY DEF MessageFor, o, a, v, continues
<1>5. CASE a = "CONTINUE_SAME_SESSION" /\ v.question > 0
  <2>1. m = Answer(r, v.question)
    BY <1>4, <1>5
  <2>2. v.question \in 1..MaxMoves
    BY <1>3, <1>5, CycleAssumption DEF Views
  <2> QED
    BY <1>1, <1>2, <1>5, <2>1, <2>2, MessageKinds DEF Routes
<1>6. CASE a = "ROUTE_STRUCTURED_FINDINGS_TO_WRITER_LINEAGE" /\ continues
  <2>1. m = Correction(v.handoff.n)
    BY <1>4, <1>6
  <2>2. v.handoff \in Handoffs /\ v.handoff.verdict = "FINDINGS"
    BY <1>1, <1>2, <1>3, <1>6 DEF Views, Guarded
  <2>3. v.handoff.n \in 1..MaxMoves
    BY <2>2, CycleAssumption DEF Handoffs
  <2> QED
    BY <2>1, <2>3, MessageKinds
<1>7. CASE a = "ROUTE_CURRENT_SHA_TO_REVIEWER_LINEAGE" /\ continues
  <2>1. m = ReviewOf(job.sha)
    BY <1>4, <1>7
  <2>2. job.sha # None /\ job.ci
    BY <1>1, <1>2, <1>7 DEF Guarded
  <2>3. job.sha \in Shas /\ job.sha \in passed
    BY <1>3, <2>2
  <2> QED
    BY <2>1, <2>3, MessageKinds
<1>8. CASE /\ ~(a = "CONTINUE_SAME_SESSION" /\ v.question > 0)
           /\ ~(a = "ROUTE_STRUCTURED_FINDINGS_TO_WRITER_LINEAGE" /\ continues)
           /\ ~(a = "ROUTE_CURRENT_SHA_TO_REVIEWER_LINEAGE" /\ continues)
  BY <1>4, <1>8
<1> QED
  BY <1>5, <1>6, <1>7, <1>8

\* A plan over a lane that was read as it is, or blindly.
LEMMA PlanForKeeps ==
    ASSUME IInv, NEW u \in BOOLEAN, NEW b \in BOOLEAN, PlanFor(job.role, u, b),
           u = lanes[job.role].unknown \/ b
    PROVE  IInv'
<1> DEFINE m == WithAuthority(MessageFor(job.role, PlanRecovery(Observation(job.role, u))))
           rec == [job EXCEPT !.pc = "authorize", !.msg = m, !.blind = b]
<1>1. UNCHANGED quiet /\ UNCHANGED lanes /\ Typed /\ job \in Jobs /\ job.role \in Roles
  BY DEF PlanFor, world, store, quiet, IInv, Typed, Jobs
<1>2. CASE m = None
  BY <1>1, <1>2, NextLineageKeeps DEF PlanFor, Typed
<1>3. CASE m # None
  <2>1. job' = rec
    BY <1>3 DEF PlanFor
  <2>2. m = MessageFor(job.role, PlanRecovery(Observation(job.role, u)))
    BY <1>3 DEF WithAuthority
  <2> HIDE DEF m
  <2>3. /\ m \in Messages /\ \A s \in Shas : m = ReviewOf(s) => s \in passed
        /\ m.action = "waiting-answer" => m.to = job.role /\ ~u
    BY <1>1, <1>3, <2>2, MessageOfPlan
  <2>4. /\ rec \in Jobs /\ rec.pc = "authorize" /\ rec.msg = m /\ rec.sha = job.sha
        /\ rec.ci = job.ci /\ rec.blind = b
    BY <1>1, <2>3 DEF Jobs, PCs
  <2> HIDE DEF rec
  <2>5. (job.ci => job.sha \in passed) /\ UNCHANGED passed
    BY <1>1 DEF IInv, JobFacts, quiet
  <2>6. JobFacts'
    BY <1>1, <2>1, <2>3, <2>4, <2>5 DEF JobFacts, Sending, Ahead
  <2> QED
    BY <1>1, <2>1, <2>4, <2>6, JobStep DEF Typed
<1> QED
  BY <1>2, <1>3

LEMMA PlanKeeps == ASSUME IInv, Plan \/ PlanUnread PROVE IInv'
<1>1. job.role \in Roles /\ lanes[job.role].unknown \in BOOLEAN
  BY DEF IInv, Typed, Jobs, Lanes
<1>2. CASE Plan
  BY <1>1, <1>2, PlanForKeeps DEF Plan
<1>3. CASE PlanUnread
  BY <1>3, PlanForKeeps DEF PlanUnread
<1> QED
  BY <1>2, <1>3

LEMMA AuthorizeKeeps == ASSUME IInv, Authorize PROVE IInv'
<1>1. /\ UNCHANGED quiet /\ UNCHANGED passed /\ Typed /\ JobFacts /\ job.pc = "authorize" /\ Goto("claim")
      /\ lanes' = [lanes EXCEPT ![job.msg.to].open = TRUE]
  BY DEF Authorize, To, world, quiet, IInv
<1>2. job.msg \in Messages /\ job.msg.to \in Roles
  BY <1>1, MessageTyped DEF JobFacts, Sending, Ahead
<1>3. lanes' \in [Roles -> Lanes] /\ \A q \in Roles : lanes'[q].unknown = lanes[q].unknown
  BY <1>1, <1>2, OpenWritten
<1>4. /\ job' \in Jobs /\ job'.pc = "claim" /\ job'.msg = job.msg /\ job'.sha = job.sha
      /\ job'.ci = job.ci /\ job'.blind = job.blind
  BY <1>1, GotoTyped DEF PCs
<1>5. JobFacts'
  BY <1>1, <1>2, <1>3, <1>4 DEF JobFacts, Sending, Ahead
<1> QED
  BY <1>1, <1>3, <1>4, <1>5, JobStep

LEMMA RestoreKeeps == ASSUME IInv, RestoreShadow PROVE IInv'
<1>1. /\ UNCHANGED quiet /\ Typed /\ job.pc = "restore" /\ NextLineage
      /\ lanes' = [lanes EXCEPT ![job.msg.to].open = FALSE]
  BY DEF RestoreShadow, To, world, quiet, IInv
<1>2. job.msg.to \in Roles
  BY <1>1, MessageTyped DEF IInv, JobFacts, Sending
<1> QED
  BY <1>1, <1>2, OpenWritten, NextLineageKeeps

LEMMA JobFailsKeeps == ASSUME IInv, JobFails PROVE IInv'
<1>1. UNCHANGED quiet /\ Typed /\ job' = Idle
  BY DEF JobFails, world, quiet, IInv
<1>2. lanes' \in [Roles -> Lanes]
  <2>1. CASE UNCHANGED lanes
    BY <1>1, <2>1 DEF Typed
  <2>2. CASE /\ job.pc \in {"claim", "confirm", "unknown"}
             /\ lanes' = [lanes EXCEPT ![job.msg.to].open = FALSE]
    <3>1. job.msg.to \in Roles
      BY <2>2, MessageTyped DEF IInv, JobFacts, Sending, Ahead
    <3> QED
      BY <1>1, <2>2, <3>1, OpenWritten
  <2> QED
    BY <2>1, <2>2 DEF JobFails, To
<1> QED
  BY <1>1, <1>2, EndStep

\* The health fallback closes a lane and a lease expires under the job.
LEMMA LaneTouched ==
    ASSUME IInv, NEW r \in Roles, FallbackObserves(r) \/ LeaseExpires(r)
    PROVE  IInv'
<1>1. UNCHANGED quiet /\ UNCHANGED job /\ UNCHANGED ops /\ UNCHANGED sent /\ UNCHANGED passed /\ Typed
  BY DEF FallbackObserves, LeaseExpires, world, quiet, IInv
<1>2. lanes' \in [Roles -> Lanes] /\ \A q \in Roles : lanes'[q].unknown = lanes[q].unknown
  <2>1. CASE FallbackObserves(r)
    BY <1>1, <2>1, OpenWritten DEF FallbackObserves
  <2>2. CASE LeaseExpires(r)
    <3> DEFINE l == [lanes[r] EXCEPT !.lease = FALSE]
    <3>1. l \in Lanes /\ l.unknown = lanes[r].unknown /\ lanes' = [lanes EXCEPT ![r] = l]
      BY <1>1, <2>2 DEF LeaseExpires, Typed, Lanes
    <3> HIDE DEF l
    <3> QED
      BY <1>1, <3>1 DEF Typed
  <2> QED
    BY <2>1, <2>2
<1>3. job.pc \in Ahead => job.msg.to \in Roles
  BY MessageTyped DEF IInv, JobFacts, Sending
<1>4. JobFacts'
  BY <1>1, <1>2, <1>3 DEF IInv, JobFacts
<1> QED
  BY <1>1, <1>2, <1>4, JobStep DEF Typed

-----------------------------------------------------------------------------
(* The message: its claim, the provider and the record of its outcome *)

LEMMA LaneWritten ==
    ASSUME Typed, NEW r \in Roles, NEW l \in Lanes, lanes' = [lanes EXCEPT ![r] = l]
    PROVE  /\ lanes' \in [Roles -> Lanes] /\ lanes'[r] = l
           /\ \A q \in Roles \ {r} : lanes'[q] = lanes[q]
BY DEF Typed

\* A claimed operation was missing: its message was never posted.
LEMMA ClaimKeeps == ASSUME IInv, Claim PROVE IInv'
<1> DEFINE m == job.msg
           r == job.msg.to
<1>1. Typed /\ JobFacts /\ job.pc = "claim" /\ UNCHANGED <<head, passed, sess, moves, sent>>
  BY DEF Claim, world, IInv
<1>2. m \in Messages /\ r \in Roles
  BY <1>1, MessageTyped DEF JobFacts, Sending, Ahead
<1>3. CASE Goto("restore") /\ UNCHANGED <<ops, lanes>>
  <2>1. /\ job' \in Jobs /\ job'.pc = "restore" /\ job'.msg = m /\ job'.sha = job.sha
        /\ job'.ci = job.ci /\ job'.blind = job.blind
    BY <1>1, <1>3, GotoTyped DEF PCs
  <2>2. JobFacts'
    BY <1>1, <1>2, <2>1 DEF JobFacts, Sending, Ahead
  <2> QED
    BY <1>1, <1>3, <2>1, <2>2, JobStep DEF Typed, quiet
<1>4. CASE /\ ops[m] = "MISSING" /\ ops' = [ops EXCEPT ![m] = "IN_FLIGHT"]
           /\ lanes' = [lanes EXCEPT ![r].lease = TRUE] /\ Goto("send")
  <2> DEFINE l == [lanes[r] EXCEPT !.lease = TRUE]
  <2>1. l \in Lanes /\ l.unknown = lanes[r].unknown /\ lanes' = [lanes EXCEPT ![r] = l]
    BY <1>1, <1>2, <1>4 DEF Typed, Lanes
  <2> HIDE DEF l
  <2>2. lanes' \in [Roles -> Lanes] /\ lanes'[r].unknown = lanes[r].unknown
    BY <1>1, <1>2, <2>1, LaneWritten
  <2>3. /\ job' \in Jobs /\ job'.pc = "send" /\ job'.msg = m /\ job'.sha = job.sha
        /\ job'.ci = job.ci /\ job'.blind = job.blind
    BY <1>1, <1>4, GotoTyped DEF PCs
  <2>4. /\ ops' \in [Messages -> OpStates] /\ ops'[m] = "IN_FLIGHT"
        /\ \A k \in Messages : ops[k] # "MISSING" => ops'[k] # "MISSING"
    BY <1>1, <1>2, <1>4 DEF Typed, OpStates
  <2>5. sent[m] = 0
    BY <1>1, <1>2, <1>4 DEF IInv, Claimed, Typed
  <2>6. Typed'
    BY <1>1, <2>2, <2>3, <2>4 DEF Typed
  <2>7. JobFacts'
    BY <1>1, <1>2, <2>2, <2>3, <2>4, <2>5 DEF JobFacts, Sending, Ahead
  <2>8. Claimed' /\ SentOnce' /\ ReviewOfPassed'
    BY <1>1, <2>4 DEF IInv, Claimed, SentOnce, ReviewOfPassed
  <2> QED
    BY <2>6, <2>7, <2>8 DEF IInv
<1> QED
  BY <1>3, <1>4 DEF Claim, To

\* The post is the first of its message, and a review is of a commit that has passed.
LEMMA SendKeeps == ASSUME IInv, Send PROVE IInv'
<1> DEFINE m == job.msg
<1>1. /\ Typed /\ JobFacts /\ job.pc = "send" /\ UNCHANGED <<head, passed, moves>>
      /\ UNCHANGED lanes /\ UNCHANGED ops /\ SendMessage(m, Goto("confirm"), Goto("unknown"))
  BY DEF Send, store, IInv
<1>2. /\ m \in Messages /\ ops[m] # "MISSING" /\ sent[m] = 0
      /\ \A s \in Shas : m = ReviewOf(s) => s \in passed
  BY <1>1 DEF JobFacts, Sending, Ahead
<1>3. Goto("confirm") \/ Goto("unknown")
  BY <1>1 DEF SendMessage
<1>4. /\ job' \in Jobs /\ job'.pc \in {"confirm", "unknown"} /\ job'.msg = m /\ job'.sha = job.sha
      /\ job'.ci = job.ci
  BY <1>1, <1>3, GotoTyped DEF PCs
<1>5. UNCHANGED sess \/ Delivered(m)
  BY <1>1 DEF SendMessage
<1>6. sess' \in [Roles -> ProviderSessions]
  BY <1>1, <1>2, <1>5, DeliveredTyped DEF Typed
<1>7. UNCHANGED sent \/ sent' = [sent EXCEPT ![m] = @ + 1]
  BY <1>1 DEF SendMessage
<1>8. /\ sent' \in [Messages -> Nat] /\ sent'[m] \in {0, 1}
      /\ \A k \in Messages \ {m} : sent'[k] = sent[k]
  BY <1>1, <1>2, <1>7 DEF Typed
<1>9. Typed'
  BY <1>1, <1>4, <1>6, <1>8 DEF Typed
<1>10. JobFacts'
  BY <1>1, <1>2, <1>4 DEF JobFacts, Sending, Ahead
<1>11. Claimed' /\ SentOnce'
  BY <1>1, <1>2, <1>8 DEF IInv, Claimed, SentOnce
<1>12. ReviewOfPassed'
  BY <1>1, <1>2, <1>8, MessageKinds DEF IInv, ReviewOfPassed
<1> QED
  BY <1>9, <1>10, <1>11, <1>12 DEF IInv

LEMMA MarkerCleared ==
    ASSUME Typed, NEW r \in Roles,
           lanes' = [lanes EXCEPT ![r].unknown = FALSE, ![r].lease = FALSE]
    PROVE  lanes' \in [Roles -> Lanes]
<1> DEFINE l == [lanes[r] EXCEPT !.unknown = FALSE, !.lease = FALSE]
<1>1. l \in Lanes /\ lanes' = [lanes EXCEPT ![r] = l]
  BY DEF Typed, Lanes
<1> HIDE DEF l
<1> QED
  BY <1>1, LaneWritten

LEMMA MarkerSet ==
    ASSUME Typed, NEW r \in Roles, lanes' = [lanes EXCEPT ![r].unknown = TRUE]
    PROVE  lanes' \in [Roles -> Lanes]
<1> DEFINE l == [lanes[r] EXCEPT !.unknown = TRUE]
<1>1. l \in Lanes /\ lanes' = [lanes EXCEPT ![r] = l]
  BY DEF Typed, Lanes
<1> HIDE DEF l
<1> QED
  BY <1>1, LaneWritten

LEMMA RecordKeeps == ASSUME IInv, Confirm \/ RecordUnknown PROVE IInv'
<1> DEFINE m == job.msg
           r == job.msg.to
<1>1. /\ Typed /\ JobFacts /\ job.pc \in {"confirm", "unknown"}
      /\ UNCHANGED <<head, passed, sess, moves, sent>> /\ Goto("restore")
  BY DEF Confirm, RecordUnknown, world, IInv
<1>2. m \in Messages /\ r \in Roles
  BY <1>1, MessageTyped DEF JobFacts, Sending
<1>3. /\ job' \in Jobs /\ job'.pc = "restore" /\ job'.msg = m /\ job'.sha = job.sha
      /\ job'.ci = job.ci
  BY <1>1, GotoTyped DEF PCs
<1>4. lanes' \in [Roles -> Lanes]
  <2>1. CASE Confirm
    BY <1>1, <1>2, <2>1, MarkerCleared DEF Confirm, To
  <2>2. CASE RecordUnknown
    BY <1>1, <1>2, <2>2, MarkerSet DEF RecordUnknown, To
  <2> QED
    BY <2>1, <2>2
<1>5. /\ ops' \in [Messages -> OpStates]
      /\ \A k \in Messages : ops[k] # "MISSING" => ops'[k] # "MISSING"
  BY <1>1, <1>2 DEF Confirm, RecordUnknown, Typed, OpStates
<1>6. Typed'
  BY <1>1, <1>3, <1>4, <1>5 DEF Typed
<1>7. JobFacts'
  BY <1>1, <1>2, <1>3 DEF JobFacts, Sending, Ahead
<1>8. Claimed' /\ SentOnce' /\ ReviewOfPassed'
  BY <1>1, <1>5 DEF IInv, Claimed, SentOnce, ReviewOfPassed
<1> QED
  BY <1>6, <1>7, <1>8 DEF IInv

-----------------------------------------------------------------------------
(* The theorems *)

LEMMA NextKeeps == ASSUME IInv, [Next]_vars PROVE IInv'
<1>1. CASE Next
  BY <1>1, StartKeeps, RegisterKeeps, ReadInventoryKeeps, ReadPRKeeps, ObserveLaneKeeps, PlanKeeps,
     AuthorizeKeeps, ClaimKeeps, SendKeeps, RecordKeeps, RestoreKeeps, JobFailsKeeps, LaneTouched,
     AskKeeps, ResumeKeeps, DeliverLateKeeps, HandOffKeeps, PullRequestKeeps DEF Next, Step
<1>2. CASE UNCHANGED vars
  <2>1. /\ UNCHANGED head /\ UNCHANGED passed /\ UNCHANGED sess /\ UNCHANGED moves
        /\ UNCHANGED <<lanes, ops, job, sent>>
    BY <1>2 DEF vars
  <2> QED
    BY <2>1, WorldStep DEF IInv, Typed
<1> QED
  BY <1>1, <1>2

\* The inductive invariant of the cycle holds, whatever its jobs are woken by and wherever
\* they fail.
THEOREM InvariantHolds == Spec => []IInv
<1>1. Init => IInv
  BY InitIInv
<1>2. IInv /\ [Next]_vars => IInv'
  BY NextKeeps
<1> QED
  BY <1>1, <1>2, PTL DEF Spec

\* A question is answered, a review of a commit asked for and findings passed on at most
\* once, although lifecycle jobs are repeated, fail or are cancelled at any step.
THEOREM MessagesOnce == Spec => []SentOnce
BY InvariantHolds, PTL DEF IInv

\* A review is asked for only of a commit whose own CI evidence was PASS, although the head
\* moves between _workstream_pr_state_current's read and the message.
THEOREM ReviewsOfPassed == Spec => []ReviewOfPassed
BY InvariantHolds, PTL DEF IInv

AnswerStep ==
    \A r \in Roles, q \in 1..MaxMoves :
        sent'[Answer(r, q)] # sent[Answer(r, q)] => ~lanes[r].unknown \/ job.blind

LEMMA SendAnswers == ASSUME IInv, Send PROVE AnswerStep
<1> DEFINE m == job.msg
<1>1. /\ job.pc = "send" /\ JobFacts /\ Typed /\ SendMessage(m, Goto("confirm"), Goto("unknown"))
  BY DEF Send, IInv
<1>2. m \in Messages /\ (m.action = "waiting-answer" => ~lanes[m.to].unknown \/ job.blind)
  BY <1>1 DEF JobFacts, Sending, Ahead
<1>3. UNCHANGED sent \/ sent' = [sent EXCEPT ![m] = @ + 1]
  BY <1>1 DEF SendMessage
<1>4. \A k \in Messages : sent'[k] # sent[k] => k = m
  BY <1>1, <1>3 DEF Typed
<1> QED
  BY <1>2, <1>4, MessageKinds DEF AnswerStep

LEMMA OthersSilent == ASSUME [Next]_vars, ~Send PROVE UNCHANGED sent
BY DEF Next, Step, vars, Start, RegisterWakeup, RegisterDegraded, ReadInventory, ReadPR, ObserveLane,
       Plan, PlanUnread, PlanFor, Authorize, Claim, Confirm, RecordUnknown, RestoreShadow, JobFails,
       InventoryUnavailable, FallbackObserves, LeaseExpires, Ask, Resume, DeliverLate, HandOff, Push,
       PassCI, outside

\* A job that has read the lane it plans for posts no answer over an unknown write of it: no
\* later step of another lineage or of the health fallback sets a marker under the job.
\* (A failed _state_snapshot plans blindly, and such a job may.)
THEOREM AnswersAreSafe == Spec => NoAnswerOverReadUnknown
<1>1. IInv /\ [Next]_vars => [AnswerStep]_vars
  BY SendAnswers, OthersSilent DEF AnswerStep
<1>2. [][AnswerStep]_vars => NoAnswerOverReadUnknown
  BY DEF NoAnswerOverReadUnknown, AnswerStep
<1> QED
  BY <1>1, <1>2, InvariantHolds, PTL DEF Spec

LEMMA CatalogGuards == CatalogIsSafe
<1> SUFFICES ASSUME NEW x \in Obstacles, NEW bound \in {"PROVEN", "UNBOUND"},
                    NEW noops \in {"none", "claimed", "proven"}
             PROVE  LET seen == Observation(job.role, lanes[job.role].unknown)
                        a == PlanRecovery(Against(seen, x, bound, noops))
                    IN
                    /\ a \in Creations \cup Routes =>
                          x \in {"none", "no work", "no budget", "no prompt", "not required",
                                 "not alone"}
                    /\ a \in Creations => x \in {"none", "not required"}
  BY DEF CatalogIsSafe, Creations, Routes
<1> DEFINE o == Against(Observation(job.role, lanes[job.role].unknown), x, bound, noops)
           a == PlanRecovery(o)
<1>1. /\ o.binding = (IF x = "ambiguous" THEN "AMBIGUOUS" ELSE bound)
      /\ o.unknown = (x = "unknown") /\ o.drift = (x = "drift")
      /\ o.intent = (IF x \in {"signalled", "acknowledged", "observed"} THEN x ELSE "none")
      /\ o.work = (x # "no work") /\ o.budget = (x # "no budget") /\ o.prompt = (x # "no prompt")
      /\ o.alone = (x # "not alone")
  BY DEF Against, Observation
<1>2. /\ a \in Creations => o.work /\ o.budget /\ o.prompt /\ o.alone
      /\ a \in Creations \cup Routes =>
            /\ ~o.drift /\ ~o.unknown /\ o.binding # "AMBIGUOUS"
            /\ o.intent \notin {"acknowledged", "observed", "signalled"}
  BY RecoveryGuards DEF Guarded
<1> HIDE DEF o, a
<1>3. a \in Creations \cup Routes =>
        x \in {"none", "no work", "no budget", "no prompt", "not required", "not alone"}
  BY <1>1, <1>2 DEF Obstacles
<1>4. a \in Creations => x \in {"none", "not required"}
  BY <1>1, <1>2, <1>3
<1> QED
  BY <1>3, <1>4 DEF o, a

\* plan_recovery plans no write over an unknown write, an open external intent, drift or an
\* ambiguous binding, and no creation without work, budget, specification and duplicate
\* check, for every session and pull request a cycle may have read.
THEOREM CatalogHolds == Spec => []CatalogIsSafe
BY CatalogGuards, PTL
=============================================================================

-------------------------- MODULE ReviewLoopProofs --------------------------
(***************************************************************************)
(* Proofs about ReviewLoop, for any commits, classes, circumstances and    *)
(* number of troubles.                                                     *)
(***************************************************************************)
EXTENDS ReviewLoop, TLAPS

Start == {"START_EXACT_SHA_REVIEW", "START_RE_REVIEW"}

\* What evidence says of a commit has happened.
CITrue(e) == e # None /\ e.outcome = "PASS" => e.sha \in passed
ReviewTrue(e) == e # None /\ e.outcome = "PASS" => e.sha \in approved

\* A commit that a lane has brought to a state has what the state rests on.
Grounded(s, h) ==
    /\ s = "RE_REVIEW" => h \in passed
    /\ s = "PARENT_REVIEW_PENDING" => h \in approved

\* The same of where an interrupted lane resumes.
LaneGrounded(l) ==
    /\ Grounded(l.state, l.head)
    /\ l.state \in Interrupted => Grounded(l.resume, l.head)

\* A resolution for a lane is a stop gate, or an action to another state of the loop; an
\* interrupted lane that waits for an action in flight stays where it is.
Sound(d, l) ==
    \/ d.action = None /\ d.gate \in Gates
    \/ /\ d.action \in Actions /\ d.gate = None
       /\ d.next \in States
       /\ d.next \in Interrupted => l.state = d.next

\* An action that asks for a review, and the state an action leads to, are justified.
Justified(d, l) ==
    d.action # None =>
        /\ Grounded(d.next, l.head)
        /\ d.action \in Start => l.head \in passed

DecisionSound == decision # None => Sound(decision, lane)

Typed ==
    /\ TypeOK
    /\ lane.resume \notin Interrupted
    /\ DecisionSound

Evidence ==
    /\ CITrue(ciSeen) /\ CITrue(lane.ci)
    /\ ReviewTrue(reviewSeen) /\ ReviewTrue(lane.review)
    /\ due \subseteq asked /\ asked \subseteq passed /\ approved \subseteq asked

Rests ==
    /\ LaneGrounded(lane)
    /\ decision # None => Justified(decision, lane)

-----------------------------------------------------------------------------
(* Facts about one resolution *)

LEMMA GateSound == ASSUME NEW g \in Gates, NEW l PROVE Sound(Gate(g), l)
BY DEF Sound, Gate

LEMMA ActionSound ==
    ASSUME NEW a \in Actions, NEW s \in States \ Interrupted, NEW l
    PROVE  Sound(Action(a, s), l)
BY DEF Sound, Action

LEMMA SimpleSound ==
    ASSUME NEW l, l.state \in DOMAIN Simple
    PROVE  Sound(Simple[l.state], l)
<1>1. \A s \in DOMAIN Simple : \E a \in Actions, n \in States \ Interrupted : Simple[s] = Action(a, n)
  BY DEF Simple, Actions, States, Interrupted
<1> QED
  BY <1>1, ActionSound

LEMMA AfterCISound == ASSUME NEW l PROVE Sound(AfterCI(l), l)
BY GateSound, ActionSound DEF AfterCI, AfterFailedCI, Actions, Gates, States, Interrupted

LEMMA AfterReviewSound == ASSUME NEW l PROVE Sound(AfterReview(l), l)
BY GateSound, ActionSound DEF AfterReview, Actions, Gates, States, Interrupted

LEMMA WaitingSound ==
    ASSUME NEW l \in Lane, l.resume \notin Interrupted
    PROVE  Sound(Waiting(l), l)
<1>1. l.resume = None \/ l.resume \in States \ Interrupted
  BY DEF Lane
<1> QED
  BY <1>1, GateSound, ActionSound DEF Waiting, Actions, Gates, States, Interrupted

LEMMA FailedSound ==
    ASSUME NEW l \in Lane, l.resume \notin Interrupted
    PROVE  Sound(Failed(l), l)
<1>1. l.resume = None \/ l.resume \in States \ Interrupted
  BY DEF Lane
<1> QED
  BY <1>1, GateSound, ActionSound DEF Failed, Actions, Gates, States, Interrupted

LEMMA PausedSound ==
    ASSUME NEW l \in Lane, l.resume \notin Interrupted
    PROVE  Sound(Paused(l), l)
<1>1. l.resume = None \/ l.resume \in States \ Interrupted
  BY DEF Lane
<1> QED
  BY <1>1, GateSound, ActionSound DEF Paused, Actions, Gates, States, Interrupted

LEMMA ResolveSound ==
    ASSUME NEW l \in Lane, l.resume \notin Interrupted
    PROVE  Sound(ResolveNextAction(l), l)
<1>1. DOMAIN Simple = States \ ({"CI_CLASSIFIED", "REVIEW_RESULT", "PARENT_REVIEW_PENDING"} \cup Interrupted)
  BY DEF Simple, States, Interrupted
<1>2. l.state \in States
  BY DEF Lane
<1>3. CASE l.state \in DOMAIN Simple
  BY <1>1, <1>3, SimpleSound DEF ResolveNextAction, Interrupted
<1>4. CASE l.state \in {"CI_CLASSIFIED", "REVIEW_RESULT", "PARENT_REVIEW_PENDING"}
  BY <1>1, <1>4, AfterCISound, AfterReviewSound, GateSound
  DEF ResolveNextAction, Gates, Interrupted
<1>5. CASE l.state \in Interrupted
  BY <1>1, <1>5, WaitingSound, FailedSound, PausedSound DEF ResolveNextAction, Interrupted
<1> QED
  BY <1>1, <1>2, <1>3, <1>4, <1>5

\* What an action rests on before its issues are looked at.
Rooted(d, l) ==
    /\ d.action \in Start => l.ci.sha \in passed \/ l.head \in passed
    /\ d.next = "RE_REVIEW" => l.head \in passed \/ d.action = "START_RE_REVIEW"
    /\ d.next = "PARENT_REVIEW_PENDING" =>
          l.head \in approved \/ (d.action = "REQUEST_PARENT_REVIEW" /\ l.review.sha \in approved)

LEMMA GateRooted == ASSUME NEW g, NEW l PROVE Rooted(Gate(g), l)
BY NoneAssumption DEF Rooted, Gate, Start, States, Actions

LEMMA ActionRooted ==
    ASSUME NEW a \in Actions \ (Start \cup {"REQUEST_PARENT_REVIEW"}), NEW s, NEW l, Grounded(s, l.head)
    PROVE  Rooted(Action(a, s), l)
BY DEF Rooted, Action, Grounded

LEMMA SimpleRooted ==
    ASSUME NEW l, l.state \in DOMAIN Simple, Grounded(l.state, l.head)
    PROVE  Rooted(Simple[l.state], l)
<1>1. CASE l.state = "RE_REVIEW"
  BY <1>1 DEF Simple, Rooted, Action, Grounded
<1>2. CASE l.state # "RE_REVIEW"
  <2>1. \A s \in DOMAIN Simple \ {"RE_REVIEW"} :
          \E a \in Actions \ (Start \cup {"REQUEST_PARENT_REVIEW"}),
             n \in States \ {"RE_REVIEW", "PARENT_REVIEW_PENDING"} : Simple[s] = Action(a, n)
    BY DEF Simple, Actions, States, Interrupted, Start
  <2> QED
    BY <1>2, <2>1, ActionRooted DEF Grounded
<1> QED
  BY <1>1, <1>2

LEMMA AfterCIRooted ==
    ASSUME NEW l \in Lane, CITrue(l.ci)
    PROVE  Rooted(AfterCI(l), l)
<1>1. CASE l.ci # None /\ l.ci.outcome # "FAILURE"
  <2>1. l.ci.sha \in passed
    BY <1>1 DEF CITrue, Lane, CI
  <2>2. AfterCI(l) \in {Action("START_RE_REVIEW", "RE_REVIEW"),
                       Action("START_EXACT_SHA_REVIEW", "REVIEWER_ACTIVE")}
    BY <1>1 DEF AfterCI
  <2> QED
    BY <2>1, <2>2 DEF Rooted, Action
<1>2. CASE l.ci # None /\ l.ci.outcome = "FAILURE"
  BY <1>2, GateRooted, ActionRooted DEF AfterCI, AfterFailedCI, Grounded, Actions, Start
<1> QED
  BY <1>1, <1>2, GateRooted DEF AfterCI

LEMMA AfterReviewRooted ==
    ASSUME NEW l, ReviewTrue(l.review)
    PROVE  Rooted(AfterReview(l), l)
<1>1. CASE l.review # None /\ l.review.outcome = "PASS"
  BY <1>1 DEF AfterReview, Rooted, Action, ReviewTrue, Start
<1>2. CASE l.review # None /\ l.review.outcome # "PASS"
  BY <1>2, ActionRooted DEF AfterReview, Grounded, Actions, Start
<1> QED
  BY <1>1, <1>2, GateRooted DEF AfterReview

LEMMA InterruptedRooted ==
    ASSUME NEW l, Grounded(l.resume, l.head)
    PROVE  Rooted(Waiting(l), l) /\ Rooted(Failed(l), l) /\ Rooted(Paused(l), l)
<1>1. Rooted(Waiting(l), l)
  BY GateRooted, ActionRooted DEF Waiting, Grounded, Actions, Start
<1>2. Rooted(Failed(l), l)
  BY GateRooted, ActionRooted DEF Failed, Grounded, Actions, Start
<1>3. Rooted(Paused(l), l)
  BY GateRooted, ActionRooted DEF Paused, Grounded, Actions, Start
<1> QED
  BY <1>1, <1>2, <1>3

LEMMA ResolveRooted ==
    ASSUME NEW l \in Lane, LaneGrounded(l), CITrue(l.ci), ReviewTrue(l.review)
    PROVE  Rooted(ResolveNextAction(l), l)
<1>1. DOMAIN Simple = States \ ({"CI_CLASSIFIED", "REVIEW_RESULT", "PARENT_REVIEW_PENDING"} \cup Interrupted)
  BY DEF Simple, States, Interrupted
<1>2. l.state \in States
  BY DEF Lane
<1>3. CASE l.state \in DOMAIN Simple
  BY <1>1, <1>3, SimpleRooted DEF ResolveNextAction, Interrupted, LaneGrounded
<1>4. CASE l.state \in {"CI_CLASSIFIED", "REVIEW_RESULT", "PARENT_REVIEW_PENDING"}
  BY <1>1, <1>4, AfterCIRooted, AfterReviewRooted, GateRooted
  DEF ResolveNextAction, Interrupted
<1>5. CASE l.state \in Interrupted
  BY <1>1, <1>5, InterruptedRooted DEF ResolveNextAction, Interrupted, LaneGrounded
<1> QED
  BY <1>1, <1>2, <1>3, <1>4, <1>5

-----------------------------------------------------------------------------
(* Facts about one cycle *)

LEMMA IssueGateTyped == ASSUME NEW l, NEW a, NEW c PROVE IssueGate(l, a, c) \in Gates \cup {None}
BY DEF IssueGate, ActorGate, Gates

\* An action without issues that starts a review has the CI evidence of the head, and one
\* that asks the parent has its review.
LEMMA NoIssues ==
    ASSUME NEW l, NEW a, NEW c, IssueGate(l, a, c) = None
    PROVE  /\ a \in Start => Exact(l.ci, l.head)
           /\ a = "REQUEST_PARENT_REVIEW" => Exact(l.review, l.head)
BY NoneAssumption DEF IssueGate, Start, Gates

LEMMA EarlyGateTyped ==
    ASSUME NEW c, EarlyGates(c) # {}
    PROVE  (CHOOSE e \in EarlyGates(c) : TRUE) \in Gates
<1>1. EarlyGates(c) \subseteq Gates
  BY DEF EarlyGates, PortfolioGate, StructuralGate, DriftGate, Gates
<1> QED
  BY <1>1

\* The binding that a cycle looks at.
Observed(ci, review) == [lane EXCEPT !.head = head, !.ci = ci, !.review = review]
Current(ci, review) == InvalidateMismatch(InvalidateShaMove(Observed(ci, review), lane))

LEMMA ObservedTyped ==
    ASSUME TypeOK, NEW ci \in {lane.ci, ciSeen}, NEW review \in {lane.review, reviewSeen}
    PROVE  /\ Observed(ci, review) \in Lane
           /\ Observed(ci, review).state = lane.state
           /\ Observed(ci, review).resume = lane.resume
           /\ Observed(ci, review).head = head
           /\ Observed(ci, review).ci = ci
           /\ Observed(ci, review).review = review
BY DEF TypeOK, Lane, Observed

LEMMA StaleTyped ==
    ASSUME NEW h
    PROVE  /\ \A e \in CI \cup {None} :
                /\ Stale(e, h) \in CI \cup {None}
                /\ CITrue(e) => CITrue(Stale(e, h))
           /\ \A e \in Review \cup {None} :
                /\ Stale(e, h) \in Review \cup {None}
                /\ ReviewTrue(e) => ReviewTrue(Stale(e, h))
BY DEF Stale, CI, Review, CITrue, ReviewTrue

LEMMA CurrentTyped ==
    ASSUME TypeOK, NEW ci \in {lane.ci, ciSeen}, NEW review \in {lane.review, reviewSeen}
    PROVE  LET l == Current(ci, review) IN
           /\ l \in Lane /\ l.head = head /\ l.resume = lane.resume
           /\ \/ l.state \in {"NEW_SHA", "PRIOR_REVIEW_STALE"}
              \/ l.state = lane.state /\ lane.head = head
           /\ CITrue(lane.ci) /\ CITrue(ciSeen) => CITrue(l.ci)
           /\ ReviewTrue(lane.review) /\ ReviewTrue(reviewSeen) => ReviewTrue(l.review)
<1> DEFINE b == Observed(ci, review)
           m == InvalidateShaMove(b, lane)
<1>1. /\ b \in Lane /\ b.state = lane.state /\ b.resume = lane.resume /\ b.head = head
      /\ b.ci = ci /\ b.review = review
  BY ObservedTyped
<1> HIDE DEF b
<1>2. lane \in Lane /\ head \in Shas
  BY DEF TypeOK
<1>3. /\ m \in Lane /\ m.head = head /\ m.resume = lane.resume
      /\ m.ci \in {lane.ci, ciSeen} /\ m.review \in {lane.review, reviewSeen}
      /\ m.state = "NEW_SHA" \/ (m.state = lane.state /\ lane.head = head)
  <2>1. CASE b.head = lane.head
    BY <1>1, <1>2, <2>1 DEF InvalidateShaMove
  <2>2. CASE b.head # lane.head
    <3> DEFINE rv == IF b.review = None THEN lane.review ELSE b.review
               cv == IF b.ci = None THEN lane.ci ELSE b.ci
    <3>1. m = [b EXCEPT !.state = "NEW_SHA", !.review = rv, !.ci = cv]
      BY <2>2 DEF InvalidateShaMove
    <3>2. rv \in Review \cup {None} /\ cv \in CI \cup {None}
      BY <1>1, <1>2 DEF Lane
    <3>3. rv \in {lane.review, reviewSeen} /\ cv \in {lane.ci, ciSeen}
      BY <1>1
    <3> HIDE DEF rv, cv
    <3> QED
      BY <1>1, <3>1, <3>2, <3>3 DEF Lane, States
  <2> QED
    BY <2>1, <2>2
<1> HIDE DEF m
<1> DEFINE l == InvalidateMismatch(m)
<1>4. m.ci \in CI \cup {None} /\ m.review \in Review \cup {None}
  BY <1>3 DEF Lane
<1>5. /\ l.ci = Stale(m.ci, m.head) /\ l.review = Stale(m.review, m.head)
      /\ l.head = m.head /\ l.resume = m.resume /\ l.state \in {m.state, "PRIOR_REVIEW_STALE"}
  BY <1>3 DEF InvalidateMismatch, Lane
<1>6. l \in Lane
  BY <1>3, <1>4, StaleTyped DEF InvalidateMismatch, Lane, States
<1>7. l = Current(ci, review)
  BY DEF Current, m, b
<1> HIDE DEF l
<1>8. CITrue(lane.ci) /\ CITrue(ciSeen) => CITrue(l.ci)
  BY <1>3, <1>4, <1>5, StaleTyped
<1>9. ReviewTrue(lane.review) /\ ReviewTrue(reviewSeen) => ReviewTrue(l.review)
  BY <1>3, <1>4, <1>5, StaleTyped
<1> QED
  BY <1>3, <1>5, <1>6, <1>7, <1>8, <1>9

\* The decision of a cycle that was not blocked before the lane was looked at.
Decision(l, c) ==
    LET d == IF c = "in_flight" THEN Action("VERIFY_ACTION_IN_FLIGHT", l.state)
                                ELSE ResolveNextAction(l)
        g == IF d.action = None THEN None ELSE IssueGate(l, d.action, c)
    IN  IF g = None THEN d ELSE Gate(g)

LEMMA CycleOutcome ==
    ASSUME NEW c, NEW ci, NEW review, RunShadowCycle(c, ci, review)
    PROVE  /\ UNCHANGED <<head, ciSeen, reviewSeen, due, passed, asked, approved, trouble>>
           /\ EarlyGates(c) # {} =>
                /\ decision' = Gate(CHOOSE e \in EarlyGates(c) : TRUE)
                /\ lane' = IF KeepBlocked THEN Observed(ci, review) ELSE lane
           /\ EarlyGates(c) = {} =>
                /\ lane' = Current(ci, review)
                /\ decision' = Decision(lane', c)
BY DEF RunShadowCycle, Reconcile, Observed, Current, Decision, evidence

LEMMA DecisionIsSound ==
    ASSUME NEW l \in Lane, l.resume \notin Interrupted, NEW c
    PROVE  Sound(Decision(l, c), l)
<1> DEFINE d == IF c = "in_flight" THEN Action("VERIFY_ACTION_IN_FLIGHT", l.state)
                                   ELSE ResolveNextAction(l)
           g == IF d.action = None THEN None ELSE IssueGate(l, d.action, c)
<1>1. Sound(Action("VERIFY_ACTION_IN_FLIGHT", l.state), l)
  BY DEF Sound, Action, Actions, Lane
<1>2. Sound(d, l)
  BY <1>1, ResolveSound
<1>3. g \in Gates \cup {None}
  BY IssueGateTyped
<1>4. Decision(l, c) = IF g = None THEN d ELSE Gate(g)
  BY DEF Decision
<1> HIDE DEF d, g
<1> QED
  BY <1>2, <1>3, <1>4, GateSound

LEMMA DecisionIsJustified ==
    ASSUME NEW l \in Lane, l.resume \notin Interrupted, NEW c,
           LaneGrounded(l), CITrue(l.ci), ReviewTrue(l.review)
    PROVE  Justified(Decision(l, c), l)
<1> DEFINE d == IF c = "in_flight" THEN Action("VERIFY_ACTION_IN_FLIGHT", l.state)
                                   ELSE ResolveNextAction(l)
           g == IF d.action = None THEN None ELSE IssueGate(l, d.action, c)
<1>1. Rooted(Action("VERIFY_ACTION_IN_FLIGHT", l.state), l)
  BY ActionRooted DEF Actions, Start, LaneGrounded
<1>2. Rooted(d, l)
  BY <1>1, ResolveRooted
<1>3. ASSUME g = None, d.action # None
      PROVE  /\ d.action \in Start => l.ci.sha = l.head
             /\ d.action = "REQUEST_PARENT_REVIEW" => l.review.sha = l.head
  BY <1>3, NoIssues DEF Exact
<1>4. Decision(l, c) = IF g = None THEN d ELSE Gate(g)
  BY DEF Decision
<1>5. g # None => Justified(Gate(g), l)
  BY DEF Justified, Gate
<1> HIDE DEF d, g
<1>6. g = None => Justified(d, l)
  BY <1>2, <1>3 DEF Justified, Rooted, Grounded, Start
<1> QED
  BY <1>4, <1>5, <1>6

-----------------------------------------------------------------------------
(* Types, and a decision is never silent *)

LEMMA SoundIsLoud == ASSUME NEW d, NEW l, Sound(d, l) PROVE (d.action = None) # (d.gate = None)
BY NoneAssumption DEF Sound

LEMMA InitTyped == Init => Typed
BY LoopAssumption, NoneAssumption
DEF Init, Typed, TypeOK, DecisionSound, Lane, States, Interrupted

LEMMA CycleTyped ==
    ASSUME Typed, NEW c, NEW ci \in {lane.ci, ciSeen}, NEW review \in {lane.review, reviewSeen},
           RunShadowCycle(c, ci, review)
    PROVE  Typed'
<1>1. TypeOK /\ lane.resume \notin Interrupted
  BY DEF Typed
<1>2. lane' \in Lane /\ lane'.resume = lane.resume
  BY <1>1, CycleOutcome, ObservedTyped, CurrentTyped DEF TypeOK
<1>3. Sound(decision', lane')
  <2>1. CASE EarlyGates(c) # {}
    BY <2>1, CycleOutcome, EarlyGateTyped, GateSound
  <2>2. CASE EarlyGates(c) = {}
    BY <1>1, <1>2, <2>2, CycleOutcome, DecisionIsSound
  <2> QED
    BY <2>1, <2>2
<1>4. TypeOK'
  BY <1>1, <1>2, <1>3, CycleOutcome, SoundIsLoud DEF TypeOK
<1> QED
  BY <1>1, <1>2, <1>3, <1>4 DEF Typed, DecisionSound

LEMMA ActTyped == ASSUME Typed, Act PROVE Typed'
<1>1. /\ TypeOK /\ lane.resume \notin Interrupted /\ lane \in Lane
      /\ decision.next \in States
  BY NoneAssumption DEF Typed, DecisionSound, Sound, TypeOK, Act
<1>2. lane' \in Lane /\ lane'.resume \notin Interrupted
  BY <1>1, NoneAssumption DEF Act, Lane, States
<1>3. asked' \subseteq Shas /\ due' \subseteq Shas
  BY <1>1 DEF Act, TypeOK, Lane
<1> QED
  BY <1>1, <1>2, <1>3 DEF Act, Typed, TypeOK, DecisionSound

LEMMA OutsideTyped ==
    ASSUME Typed, UNCHANGED <<lane, decision>>,
           \/ \E s \in Shas : Push(s)
           \/ \E s \in Shas, outcome \in {"PASS", "FAILURE"}, class \in FailureClasses \cup {None} :
                  FinishCI(s, outcome, class)
           \/ \E s \in Shas, outcome \in {"PASS", "FINDINGS"} : FinishReview(s, outcome)
    PROVE  Typed'
<1>1. trouble' \in 0..MaxTrouble
  BY LoopAssumption DEF Push, FinishCI, FinishReview, Trouble, Typed, TypeOK
<1>2. ciSeen' \in CI \cup {None} /\ reviewSeen' \in Review \cup {None}
  <2>1. \A s \in Shas : Push(s) => UNCHANGED <<ciSeen, reviewSeen>>
    BY DEF Push, evidence
  <2>2. ASSUME NEW s \in Shas, NEW outcome \in {"PASS", "FAILURE"},
               NEW class \in FailureClasses \cup {None}, FinishCI(s, outcome, class)
        PROVE  ciSeen' \in CI /\ UNCHANGED reviewSeen
    BY <2>2 DEF FinishCI, CI
  <2>3. ASSUME NEW s \in Shas, NEW outcome \in {"PASS", "FINDINGS"}, FinishReview(s, outcome)
        PROVE  reviewSeen' \in Review /\ UNCHANGED ciSeen
    BY <2>3 DEF FinishReview, Review
  <2> QED
    BY <2>1, <2>2, <2>3 DEF Typed, TypeOK
<1>3. /\ head' \in Shas /\ due' \subseteq Shas /\ passed' \subseteq Shas
      /\ asked' \subseteq Shas /\ approved' \subseteq Shas
  BY DEF Push, FinishCI, FinishReview, evidence, Typed, TypeOK
<1> QED
  BY <1>1, <1>2, <1>3 DEF Typed, TypeOK, DecisionSound, Sound

LEMMA InterruptTyped ==
    ASSUME Typed, NEW state \in Interrupted, NEW resume,
           NEW class \in WaitingClasses \cup FailureClasses \cup {None},
           Interrupt(state, class, resume)
    PROVE  Typed'
<1>1. lane' \in Lane /\ lane'.resume \notin Interrupted
  BY NoneAssumption DEF Interrupt, Typed, TypeOK, Lane, States
<1>2. trouble' \in 0..MaxTrouble
  BY LoopAssumption DEF Interrupt, Trouble, Typed, TypeOK
<1> QED
  BY <1>1, <1>2 DEF Interrupt, evidence, Typed, TypeOK, DecisionSound

\* The steps of the CI, the reviewer and the writer, as Next names them.
LEMMA OutsideSteps ==
    ASSUME NEW s \in Shas,
           Push(s) \/ FinishCI(s, "PASS", None)
           \/ (\E class \in FailureClasses \cup {None} : FinishCI(s, "FAILURE", class))
           \/ (\E outcome \in {"PASS", "FINDINGS"} : FinishReview(s, outcome)),
           Typed
    PROVE  Typed'
<1>1. UNCHANGED <<lane, decision>>
  BY DEF Push, FinishCI, FinishReview
<1> QED
  BY <1>1, OutsideTyped

LEMMA NextTyped == ASSUME Typed, [Next]_vars PROVE Typed'
<1>1. CASE \E c \in Circumstances, ci \in {lane.ci, ciSeen}, review \in {lane.review, reviewSeen} :
              RunShadowCycle(c, ci, review)
  BY <1>1, CycleTyped
<1>2. CASE Act
  BY <1>2, ActTyped
<1>3. CASE \E resume \in States \cup {None} :
              \/ \E class \in WaitingClasses : Interrupt("AWAITING_USER_FEEDBACK", class, resume)
              \/ \E class \in FailureClasses : Interrupt("FAILED", class, resume)
              \/ Interrupt("PAUSED", None, resume)
  BY <1>3, InterruptTyped DEF Interrupted
<1>4. CASE UNCHANGED vars
  BY <1>4 DEF vars, Typed, TypeOK, DecisionSound, Sound
<1> QED
  BY <1>1, <1>2, <1>3, <1>4, OutsideSteps DEF Next

LEMMA TypedHolds == Spec => []Typed
<1>1. Init => Typed
  BY InitTyped
<1>2. Typed /\ [Next]_vars => Typed'
  BY NextTyped
<1> QED
  BY <1>1, <1>2, PTL DEF Spec

\* Every state has its type, and every decision of a cycle is an action or a stop gate:
\* resolve_next_action and reconcile_workstream leave no lane without either.
THEOREM TypesHold == Spec => []TypeOK
<1>1. Typed => TypeOK
  BY DEF Typed
<1> QED
  BY <1>1, TypedHolds, PTL

-----------------------------------------------------------------------------
(* A review follows a passed CI run, when blocked bindings are not kept *)

LEMMA InitGrounded == Init => Evidence /\ Rests
BY NoneAssumption
DEF Init, Evidence, Rests, CITrue, ReviewTrue, LaneGrounded, Grounded, States, Interrupted

LEMMA CycleGrounded ==
    ASSUME ~KeepBlocked, Typed, Evidence, Rests,
           NEW c, NEW ci \in {lane.ci, ciSeen}, NEW review \in {lane.review, reviewSeen},
           RunShadowCycle(c, ci, review)
    PROVE  Evidence' /\ Rests'
<1>1. /\ UNCHANGED <<ciSeen, reviewSeen, due, passed, asked, approved>>
      /\ TypeOK /\ lane.resume \notin Interrupted
  BY CycleOutcome DEF Typed
<1>2. CASE EarlyGates(c) # {}
  <2>1. lane' = lane /\ decision'.action = None
    BY <1>2, CycleOutcome DEF Gate
  <2> QED
    BY <1>1, <2>1
    DEF Evidence, Rests, Justified, CITrue, ReviewTrue, LaneGrounded, Grounded
<1>3. CASE EarlyGates(c) = {}
  <2> DEFINE l == Current(ci, review)
  <2>1. /\ l \in Lane /\ l.head = head /\ l.resume = lane.resume
        /\ \/ l.state \in {"NEW_SHA", "PRIOR_REVIEW_STALE"}
           \/ l.state = lane.state /\ lane.head = head
        /\ CITrue(l.ci) /\ ReviewTrue(l.review)
    BY <1>1, CurrentTyped DEF Evidence
  <2>2. lane' = l /\ decision' = Decision(l, c)
    BY <1>3, CycleOutcome
  <2> HIDE DEF l
  <2>3. LaneGrounded(l)
    BY <2>1 DEF Rests, LaneGrounded, Grounded, Interrupted
  <2>4. Justified(Decision(l, c), l)
    BY <1>1, <2>1, <2>3, DecisionIsJustified
  <2> QED
    BY <1>1, <2>1, <2>2, <2>3, <2>4
    DEF Evidence, Rests, Justified, CITrue, ReviewTrue, LaneGrounded, Grounded
<1> QED
  BY <1>2, <1>3

LEMMA ActGrounded == ASSUME Typed, Evidence, Rests, Act PROVE Evidence' /\ Rests'
<1>1. /\ UNCHANGED <<ciSeen, reviewSeen, passed, approved>> /\ lane \in Lane
      /\ decision # None /\ decision.action # None /\ decision' = None
  BY DEF Act, Typed, TypeOK
<1>2. /\ Grounded(decision.next, lane.head)
      /\ decision.action \in Start => lane.head \in passed
      /\ decision.next \in Interrupted => lane.state = decision.next
  BY <1>1 DEF Rests, Justified, Typed, DecisionSound, Sound
<1>3. /\ lane'.ci = lane.ci /\ lane'.review = lane.review /\ lane'.head = lane.head
      /\ lane'.state = decision.next
      /\ decision.next \in Interrupted => lane'.resume = lane.resume
  BY <1>1 DEF Act, Lane
<1>4. due' \subseteq asked' /\ asked' \subseteq passed /\ approved \subseteq asked'
  BY <1>2 DEF Act, Start, Evidence
<1>5. LaneGrounded(lane')
  BY <1>2, <1>3 DEF LaneGrounded, Rests
<1> QED
  BY <1>1, <1>3, <1>4, <1>5
  DEF Evidence, Rests, CITrue, ReviewTrue, LaneGrounded, Grounded

\* More commits that have passed or are approved take nothing away.
LEMMA GroundedGrows ==
    ASSUME Rests, UNCHANGED <<lane, decision>>, passed \subseteq passed', approved \subseteq approved'
    PROVE  Rests'
BY DEF Rests, LaneGrounded, Grounded, Justified

LEMMA FinishCIGrounded ==
    ASSUME Evidence, Rests, NEW s, NEW outcome, NEW class, FinishCI(s, outcome, class)
    PROVE  Evidence' /\ Rests'
<1>1. Rests'
  BY GroundedGrows DEF FinishCI
<1>2. Evidence'
  BY DEF FinishCI, Evidence, CITrue, ReviewTrue
<1> QED
  BY <1>1, <1>2

\* A review that is answered was asked for.
LEMMA FinishReviewGrounded ==
    ASSUME Evidence, Rests, NEW s, NEW outcome, FinishReview(s, outcome)
    PROVE  Evidence' /\ Rests'
<1>1. Rests'
  BY GroundedGrows DEF FinishReview
<1>2. Evidence'
  BY DEF FinishReview, Evidence, CITrue, ReviewTrue
<1> QED
  BY <1>1, <1>2

LEMMA InterruptGrounded ==
    ASSUME Typed, Evidence, Rests, NEW state \in Interrupted, NEW class, NEW resume,
           Interrupt(state, class, resume)
    PROVE  Evidence' /\ Rests'
<1>1. /\ lane'.ci = lane.ci /\ lane'.review = lane.review /\ lane'.head = lane.head
      /\ lane'.state = state /\ lane'.resume \in {lane.state, None}
      /\ decision' = None
      /\ UNCHANGED <<ciSeen, reviewSeen, due, passed, asked, approved>>
  BY DEF Interrupt, evidence, Typed, TypeOK, Lane
<1>2. LaneGrounded(lane')
  BY <1>1, NoneAssumption DEF LaneGrounded, Grounded, Rests, Interrupted, States
<1> QED
  BY <1>1, <1>2 DEF Evidence, Rests, CITrue, ReviewTrue, LaneGrounded, Grounded

LEMMA NextGrounded ==
    ASSUME ~KeepBlocked, Typed, Evidence, Rests, [Next]_vars
    PROVE  Evidence' /\ Rests'
<1>1. CASE \E c \in Circumstances, ci \in {lane.ci, ciSeen}, review \in {lane.review, reviewSeen} :
              RunShadowCycle(c, ci, review)
  BY <1>1, CycleGrounded
<1>2. CASE \E resume \in States \cup {None} :
              \/ \E class \in WaitingClasses : Interrupt("AWAITING_USER_FEEDBACK", class, resume)
              \/ \E class \in FailureClasses : Interrupt("FAILED", class, resume)
              \/ Interrupt("PAUSED", None, resume)
  BY <1>2, InterruptGrounded DEF Interrupted
<1>3. CASE (\E s \in Shas : Push(s)) \/ UNCHANGED vars
  BY <1>3 DEF vars, Push, evidence, Evidence, Rests, CITrue, ReviewTrue, LaneGrounded, Grounded,
              Justified
<1> QED
  BY <1>1, <1>2, <1>3, ActGrounded, FinishCIGrounded, FinishReviewGrounded DEF Next

LEMMA GroundedHolds == ~KeepBlocked => (Spec => [](Evidence /\ Rests))
<1> SUFFICES ASSUME ~KeepBlocked PROVE Spec => [](Evidence /\ Rests)
  OBVIOUS
<1>1. Init => Evidence /\ Rests
  BY InitGrounded
<1>2. Typed /\ Evidence /\ Rests /\ [Next]_vars => (Evidence /\ Rests)'
  BY NextGrounded
<1> QED
  BY <1>1, <1>2, TypedHolds, PTL DEF Spec

\* A review is asked for only for a commit that has passed CI, whatever moves, arrives late
\* or interrupts the lane, provided that a cycle blocked by a structural issue, drift or an
\* ambiguous portfolio leaves the previous binding as it was.
THEOREM ReviewsFollowPasses == ~KeepBlocked => (Spec => []ReviewOnlyAfterPass)
<1>1. Evidence => ReviewOnlyAfterPass
  BY DEF Evidence, ReviewOnlyAfterPass
<1> QED
  BY <1>1, GroundedHolds, PTL

\* Under the same proviso, a lane that is left to the parent's decision rests on a passed
\* review and a passed CI run of its head (InvalidateMismatch and InvalidateShaMove take it
\* back otherwise).
THEOREM ParentSeesReviewed == ~KeepBlocked => (Spec => []ParentPendingIsReviewed)
<1>1. Evidence /\ Rests => ParentPendingIsReviewed
  BY DEF Evidence, Rests, LaneGrounded, Grounded, ParentPendingIsReviewed
<1> QED
  BY <1>1, GroundedHolds, PTL
=============================================================================

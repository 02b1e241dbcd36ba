------------------------- MODULE GitRefStoreProofs -------------------------
(***************************************************************************)
(* Proofs about GitRefStore, for any number of runners and commits, with   *)
(* late pushes and stale reads allowed.                                    *)
(***************************************************************************)
EXTENDS GitRefStore, TLAPS

\* The values a read may return.
Known == Published \cup {0}

\* The ancestry of every commit object is that of its parent plus the parent,
\* and ancestors are older than the commit.
Ancestry ==
    \A c \in 1..n :
        /\ commits[c].parent \in 0..(c - 1)
        /\ commits[c].anc \subseteq 1..(c - 1)
        /\ commits[c].parent = 0 => commits[c].anc = {}
        /\ commits[c].parent # 0 =>
             commits[c].anc = commits[commits[c].parent].anc \cup {commits[c].parent}

\* Every commit object extends a record that was published, by one version, and
\* its record was computed from that one.
Extends ==
    \A c \in 1..n :
        /\ commits[c].parent \in Known
        /\ commits[c].base = commits[c].parent
        /\ commits[c].version = VersionAt(commits[c].parent) + 1

\* A version identifies a published record.
VersionsDiffer ==
    /\ \A a, b \in Published : commits[a].version = commits[b].version => a = b
    /\ \A a \in Published : commits[a].version \in 1..VersionAt(ref)

\* What a call knows at each point.
CallFacts ==
    \A r \in Runners :
        /\ base[r] \in Known
        /\ previous[r] \in Known
        /\ pc[r] = "loaded" => previous[r] = base[r]
        /\ pc[r] \in {"push", "conflict", "uncertain", "confirm", "reread"} =>
             proposed[r] # 0
        /\ pc[r] \in {"called", "loaded"} => proposed[r] = 0
        /\ pc[r] = "reread" => proposed[r] \in Published
        /\ pc[r] # "idle" => result[r] = "NONE"

IInv ==
    /\ TypeOK
    /\ Ancestry
    /\ Extends
    /\ VersionsDiffer
    /\ CallFacts
    /\ OkImpliesPublished

-----------------------------------------------------------------------------
(* Facts about one state *)

\* Every read of the ref returns a value the ref has had.
LEMMA VisibleKnown == TypeOK => Visible \subseteq Known
BY DEF TypeOK, Visible, Known, Published

\* A load reports a natural number.
LEMMA VersionNat == ASSUME TypeOK, NEW c \in 0..n PROVE VersionAt(c) \in Nat
<1>1. c # 0 => c \in CommitIds
  BY StoreAssumption DEF TypeOK, CommitIds
<1> QED
  BY <1>1 DEF VersionAt, TypeOK, Commit

\* The published records are commit objects.
LEMMA PublishedExist == TypeOK /\ Ancestry => Published \subseteq 1..n
<1> SUFFICES ASSUME TypeOK, Ancestry PROVE Published \subseteq 1..n
  OBVIOUS
<1>1. CASE ref = 0
  BY <1>1 DEF Published
<1>2. CASE ref # 0
  <2>1. n \in Nat /\ ref \in 1..n /\ commits[ref].anc \subseteq 1..(ref - 1)
    BY <1>2, StoreAssumption DEF TypeOK, Ancestry
  <2> QED
    BY <1>2, <2>1 DEF Published
<1> QED
  BY <1>1, <1>2

\* The server performs a push only while the ref names the pushed commit's
\* parent, although the fast-forward rule would let it skip over ancestors.
LEMMA AcceptedParent ==
    ASSUME TypeOK, Ancestry, Extends, NEW c \in 1..n, Accepts(c)
    PROVE  ref = commits[c].parent
<1> DEFINE p == commits[c].parent
<1>1. CASE p = 0
  BY <1>1 DEF Accepts
<1>2. CASE p # 0
  <2>1. p \in 1..n /\ p \in Published
    BY <1>2 DEF Ancestry, Extends, Known, TypeOK
  <2>2. ref \in 1..n
    BY <2>1 DEF Published, TypeOK
  <2>3. ref \in commits[p].anc \cup {p}
    BY <1>2 DEF Accepts, Ancestry
  <2>4. p \in commits[ref].anc \cup {ref}
    BY <2>1, <2>2 DEF Published
  <2>5. commits[p].anc \subseteq 1..(p - 1) /\ commits[ref].anc \subseteq 1..(ref - 1)
    BY <2>1, <2>2 DEF Ancestry
  <2>6. p \in Nat /\ ref \in Nat
    BY <2>1, <2>2
  <2> QED
    BY <2>3, <2>4, <2>5, <2>6
<1> QED
  BY <1>1, <1>2

-----------------------------------------------------------------------------
(* The three kinds of step: a push is performed, a commit object is created, *)
(* or only the call of one runner moves.                                      *)

\* Performing a push adds exactly the pushed commit to the published records.
LEMMA PushPublishes ==
    ASSUME TypeOK, Ancestry, Extends, NEW c \in 1..n, Accepts(c),
           ref' = c, UNCHANGED <<commits, n>>
    PROVE  Published' = Published \cup {c}
<1>1. ref = commits[c].parent
  BY AcceptedParent
<1>2. Published' = commits[c].anc \cup {c}
  BY DEF Published
<1>3. CASE ref = 0
  BY <1>1, <1>2, <1>3 DEF Ancestry, Published
<1>4. CASE ref # 0
  BY <1>1, <1>2, <1>4 DEF Ancestry, Published
<1> QED
  BY <1>3, <1>4

\* A performed push keeps the structure of the records.
LEMMA PushKeepsRecords ==
    ASSUME TypeOK, Ancestry, Extends, VersionsDiffer, NEW c \in 1..n, Accepts(c),
           ref' = c, UNCHANGED <<commits, n>>
    PROVE  Ancestry' /\ Extends' /\ VersionsDiffer'
<1>1. Published' = Published \cup {c}
  BY PushPublishes
<1>2. Ancestry'
  BY DEF Ancestry
<1>3. Extends'
  BY <1>1 DEF Extends, Known, VersionAt
<1>4. VersionsDiffer'
  <2>1. commits[c].version = VersionAt(ref) + 1
    BY AcceptedParent DEF Extends
  <2>2. VersionAt(ref)' = commits[c].version
    BY DEF VersionAt
  <2>3. VersionAt(ref) \in Nat
    BY VersionNat DEF TypeOK
  <2>4. \A a \in Published : commits[a].version \in 1..VersionAt(ref)
    BY DEF VersionsDiffer
  <2> QED
    BY <1>1, <2>1, <2>2, <2>3, <2>4 DEF VersionsDiffer
<1> QED
  BY <1>2, <1>3, <1>4

\* Creating a commit object that extends a known record by one version keeps the
\* structure of the records and publishes nothing.
LEMMA CreateKeepsRecords ==
    ASSUME TypeOK, Ancestry, Extends, VersionsDiffer, CallFacts,
           NEW r \in Runners, CreateSnapshotCommit(r)
    PROVE  /\ Ancestry' /\ Extends' /\ VersionsDiffer'
           /\ Published' = Published
           /\ \A c \in 1..n : commits'[c] = commits[c]
           /\ commits' \in [CommitIds -> Commit]
<1> DEFINE p == previous[r]
           new == [parent |-> p, base |-> base[r], version |-> VersionAt(p) + 1,
                   anc |-> IF p = 0 THEN {} ELSE commits[p].anc \cup {p}]
<1>1. /\ n \in Nat /\ MaxCommits \in Nat /\ n + 1 \in CommitIds /\ n' = n + 1 /\ ref' = ref
      /\ p \in 0..n /\ p \in Known /\ base[r] = p
  BY StoreAssumption DEF CreateSnapshotCommit, TypeOK, CommitIds, CallFacts
<1>2. commits' = [commits EXCEPT ![n + 1] = new]
  BY DEF CreateSnapshotCommit
<1>3. \A c \in 1..n : commits'[c] = commits[c]
  BY <1>1, <1>2 DEF TypeOK, CommitIds
<1>4. commits'[n + 1] = new
  BY <1>1, <1>2 DEF TypeOK
<1>5. VersionAt(p) \in Nat
  BY <1>1, VersionNat
<1>6. new \in Commit
  <2>1. p \in Refs
    BY <1>1 DEF Refs, CommitIds
  <2>2. new.anc \subseteq CommitIds
    <3>1. CASE p = 0
      BY <3>1
    <3>2. CASE p # 0
      <4>1. p \in CommitIds
        BY <3>2, <1>1 DEF CommitIds
      <4>2. commits[p].anc \subseteq CommitIds
        BY <4>1 DEF TypeOK, Commit
      <4> QED
        BY <3>2, <4>1, <4>2
    <3> QED
      BY <3>1, <3>2
  <2> QED
    BY <1>1, <1>5, <2>1, <2>2 DEF Commit
<1>7. commits' \in [CommitIds -> Commit]
  BY <1>1, <1>2, <1>6 DEF TypeOK
<1>8. Published' = Published
  <2>1. ref = 0 \/ ref \in 1..n
    BY <1>1 DEF TypeOK
  <2> QED
    BY <1>1, <1>3, <2>1 DEF Published
<1>9. Ancestry'
  <2> SUFFICES ASSUME NEW c \in 1..(n + 1)
               PROVE  /\ commits'[c].parent \in 0..(c - 1)
                      /\ commits'[c].anc \subseteq 1..(c - 1)
                      /\ commits'[c].parent = 0 => commits'[c].anc = {}
                      /\ commits'[c].parent # 0 =>
                           commits'[c].anc
                             = commits'[commits'[c].parent].anc \cup {commits'[c].parent}
    BY <1>1 DEF Ancestry
  <2>1. CASE c \in 1..n
    <3>1. /\ commits[c].parent \in 0..(c - 1)
          /\ commits[c].anc \subseteq 1..(c - 1)
          /\ commits[c].parent = 0 => commits[c].anc = {}
          /\ commits[c].parent # 0 =>
               commits[c].anc = commits[commits[c].parent].anc \cup {commits[c].parent}
      BY <2>1 DEF Ancestry
    <3>2. commits[c].parent # 0 => commits[c].parent \in 1..n
      BY <2>1, <3>1, <1>1
    <3> QED
      BY <2>1, <3>1, <3>2, <1>3
  <2>2. CASE c = n + 1
    <3>1. p # 0 => p \in 1..n
      BY <1>1
    <3>2. p # 0 => commits[p].anc \subseteq 1..(p - 1)
      BY <3>1 DEF Ancestry
    <3> HIDE DEF p
    <3>3. p # 0 => commits[p].anc \cup {p} \subseteq 1..n
      BY <3>1, <3>2, <1>1
    <3> QED
      BY <2>2, <3>1, <3>3, <1>1, <1>3, <1>4
  <2> QED
    BY <2>1, <2>2, <1>1
<1>10. Extends'
  <2> DEFINE VersionNow(q) == IF q = 0 THEN 0 ELSE commits'[q].version
  <2> SUFFICES ASSUME NEW c \in 1..(n + 1)
               PROVE  /\ commits'[c].parent \in Known
                      /\ commits'[c].base = commits'[c].parent
                      /\ commits'[c].version = VersionNow(commits'[c].parent) + 1
    BY <1>1, <1>8 DEF Extends, Known, VersionAt
  <2>1. CASE c \in 1..n
    <3>1. commits[c].parent = 0 \/ commits[c].parent \in 1..n
      BY <2>1, <1>1 DEF Ancestry
    <3>2. VersionNow(commits[c].parent) = VersionAt(commits[c].parent)
      BY <3>1, <1>3 DEF VersionAt
    <3> QED
      BY <2>1, <3>2, <1>3 DEF Extends
  <2>2. CASE c = n + 1
    <3>1. VersionNow(p) = VersionAt(p)
      BY <1>1, <1>3 DEF VersionAt
    <3> QED
      BY <2>2, <3>1, <1>1, <1>4
  <2> QED
    BY <2>1, <2>2, <1>1
<1>11. VersionsDiffer'
  <2>1. Published \subseteq 1..n
    BY PublishedExist
  <2>2. VersionAt(ref)' = VersionAt(ref)
    BY <1>1, <1>3 DEF VersionAt, TypeOK
  <2> QED
    BY <1>3, <1>8, <2>1, <2>2 DEF VersionsDiffer
<1> QED
  BY <1>3, <1>7, <1>8, <1>9, <1>10, <1>11

\* A step that leaves the ref and the commit objects alone keeps the records.
LEMMA QuietKeepsRecords ==
    ASSUME Ancestry, Extends, VersionsDiffer, UNCHANGED <<commits, n, ref>>
    PROVE  Ancestry' /\ Extends' /\ VersionsDiffer' /\ Published' = Published
BY DEF Ancestry, Extends, VersionsDiffer, Published, Known, VersionAt

\* What is left to show about a step of one runner's call once the records are
\* dealt with: the types and the call facts.
CallInv == TypeOK /\ CallFacts /\ OkImpliesPublished

\* The missing ref satisfies the invariant.
LEMMA InitEstablishes == Init => IInv
<1> SUFFICES ASSUME Init PROVE IInv
  OBVIOUS
<1>1. NoCommit \in Commit
  BY StoreAssumption DEF NoCommit, Commit, Refs, CommitIds
<1>2. TypeOK
  BY <1>1, StoreAssumption DEF Init, TypeOK, PCs, Results
<1>3. Published = {}
  BY DEF Init, Published
<1> QED
  BY <1>2, <1>3 DEF Init, IInv, Ancestry, Extends, VersionsDiffer, CallFacts, Known,
                    OkImpliesPublished

\* Loading, reading back and finishing a call.
LEMMA QuietStepKeepsCalls ==
    ASSUME IInv, NEW r \in Runners,
           \/ Call(r) \/ Load(r) \/ LoadFails(r) \/ CreateFails(r) \/ PushRejected(r)
           \/ PushFails(r) \/ ResolvePublish(r) \/ ResolveReadFails(r)
           \/ PostCasRead(r) \/ PostCasReadFails(r) \/ Crash(r)
    PROVE  CallInv' /\ UNCHANGED <<commits, n, ref>>
<1>0. /\ Visible \subseteq Known /\ n \in Nat /\ Published \subseteq 1..n
      /\ TypeOK /\ CallFacts /\ OkImpliesPublished
  BY VisibleKnown, PublishedExist, StoreAssumption DEF IInv, TypeOK
<1>1. ASSUME UNCHANGED <<commits, ref>> PROVE Published' = Published
  BY <1>1 DEF Published
<1> USE DEF CallInv, TypeOK, CallFacts, OkImpliesPublished, Known, Goto, Advance, Finish,
            Again, PCs, Results, refVars, callVars
<1>2. CASE Call(r)
  BY <1>0, <1>1, <1>2 DEF Call
<1>3. CASE Load(r)
  <2>1. PICK p \in Visible :
          IF VersionAt(p) = VersionAt(base[r])
            THEN /\ previous' = [previous EXCEPT ![r] = p]
                 /\ Advance(r, "loaded")
            ELSE /\ Finish(r, "CONFLICT")
                 /\ UNCHANGED previous
    BY <1>3 DEF Load
  <2>2. pc[r] = "called" /\ UNCHANGED <<commits, n, ref, wire, base, proposed>>
    BY <1>3 DEF Load
  <2>3. VersionAt(p) = VersionAt(base[r]) => p = base[r]
    BY <1>0 DEF VersionAt, IInv, VersionsDiffer
  <2>4. CASE VersionAt(p) = VersionAt(base[r])
    BY <1>0, <1>1, <2>1, <2>2, <2>3, <2>4
  <2>5. CASE VersionAt(p) # VersionAt(base[r])
    BY <1>0, <1>1, <2>1, <2>2, <2>5
  <2> QED
    BY <2>4, <2>5
<1>4. CASE LoadFails(r) \/ CreateFails(r) \/ PushFails(r) \/ Crash(r)
  <2>1. /\ Finish(r, "UNAVAILABLE") \/ Finish(r, "NONE")
        /\ UNCHANGED <<commits, n, ref, wire, base, previous, proposed>>
    BY <1>4 DEF LoadFails, CreateFails, PushFails, Crash
  <2> QED
    BY <1>0, <1>1, <2>1
<1>5. CASE PushRejected(r)
  BY <1>0, <1>1, <1>5 DEF PushRejected
<1>6. CASE ResolvePublish(r)
  <2>1. PICK observed \in Visible :
          \/ /\ observed = proposed[r]
             /\ Advance(r, IF pc[r] = "confirm" THEN "reread" ELSE "confirm")
          \/ /\ observed # proposed[r]
             /\ observed = previous[r]
             /\ IF LastTry(r, ReadbackAttempts(r))
                  THEN Finish(r, "CONFLICT")
                  ELSE Again(r)
          \/ /\ observed # proposed[r]
             /\ observed # previous[r]
             /\ Finish(r, "UNAVAILABLE")
    BY <1>6 DEF ResolvePublish
  <2>2. UNCHANGED <<commits, n, ref, wire, base, previous, proposed>>
    BY <1>6 DEF ResolvePublish
  <2>3. proposed[r] # 0 /\ result[r] = "NONE"
    BY <1>0, <1>6 DEF ResolvePublish
  <2>4. CASE observed = proposed[r]
    <3>1. proposed[r] \in Published
      BY <1>0, <2>3, <2>4
    <3>2. Advance(r, "confirm") \/ Advance(r, "reread")
      BY <2>1, <2>4
    <3> QED
      BY <1>0, <1>1, <2>2, <2>3, <3>1, <3>2
  <2>5. CASE Finish(r, "CONFLICT") \/ Finish(r, "UNAVAILABLE")
    BY <1>0, <1>1, <2>2, <2>5
  <2>6. CASE Again(r)
    BY <1>0, <1>1, <2>2, <2>6
  <2> QED
    BY <2>1, <2>4, <2>5, <2>6
<1>7. CASE ResolveReadFails(r) \/ PostCasReadFails(r)
  <2>1. /\ Finish(r, "UNAVAILABLE") \/ Again(r)
        /\ UNCHANGED <<commits, n, ref, wire, base, previous, proposed>>
    BY <1>7 DEF ResolveReadFails, PostCasReadFails
  <2> QED
    BY <1>0, <1>1, <2>1
<1>8. CASE PostCasRead(r)
  <2>1. /\ Finish(r, "UNAVAILABLE") \/ Finish(r, "OK")
        /\ UNCHANGED <<commits, n, ref, wire, base, previous, proposed>>
    BY <1>8 DEF PostCasRead
  <2> QED
    BY <1>0, <1>1, <1>8, <2>1 DEF PostCasRead
<1> QED
  BY <1>2, <1>3, <1>4, <1>5, <1>6, <1>7, <1>8

\* Creating the commit object of a call.
LEMMA CreateKeepsInv ==
    ASSUME IInv, NEW r \in Runners, CreateSnapshotCommit(r)
    PROVE  IInv'
<1> USE DEF IInv
<1>1. /\ Ancestry' /\ Extends' /\ VersionsDiffer'
      /\ Published' = Published
      /\ commits' \in [CommitIds -> Commit]
  BY CreateKeepsRecords
<1>2. n \in Nat /\ MaxCommits \in Nat /\ Published \subseteq 1..n
  BY PublishedExist, StoreAssumption DEF TypeOK
<1>3. /\ TypeOK' /\ CallFacts' /\ OkImpliesPublished'
  <2> USE DEF CreateSnapshotCommit, Goto, Advance
  <2>1. TypeOK'
    BY <1>1, <1>2 DEF TypeOK, PCs
  <2>2. CallFacts'
    BY <1>1, <1>2 DEF CallFacts, Known, TypeOK
  <2>3. OkImpliesPublished'
    BY <1>1, <1>2 DEF OkImpliesPublished, CallFacts, TypeOK
  <2> QED
    BY <2>1, <2>2, <2>3
<1> QED
  BY <1>1, <1>3

\* Performing a push, at once or late.
LEMMA PushKeepsInv ==
    ASSUME IInv,
           \/ \E r \in Runners : PushAccepted(r)
           \/ \E c \in CommitIds : DeliverLate(c)
    PROVE  IInv'
<1> USE DEF IInv
<1>1. CASE \E r \in Runners : PushAccepted(r)
  <2>1. PICK r \in Runners : PushAccepted(r)
    BY <1>1
  <2>2. proposed[r] \in 1..n
    BY <2>1 DEF PushAccepted, CallFacts, TypeOK
  <2>3. /\ Ancestry' /\ Extends' /\ VersionsDiffer'
        /\ Published' = Published \cup {proposed[r]}
    BY <2>1, <2>2, PushKeepsRecords, PushPublishes DEF PushAccepted
  <2>4. TypeOK' /\ CallFacts' /\ OkImpliesPublished'
    BY <2>1, <2>2, <2>3 DEF PushAccepted, Advance, Goto, callVars, TypeOK, CallFacts,
                            OkImpliesPublished, Known, PCs
  <2> QED
    BY <2>3, <2>4
<1>2. CASE \E c \in CommitIds : DeliverLate(c)
  <2>1. PICK c \in 1..n : DeliverLate(c)
    BY <1>2 DEF DeliverLate, TypeOK
  <2>2. CASE Accepts(c)
    <3>1. /\ Ancestry' /\ Extends' /\ VersionsDiffer'
          /\ Published' = Published \cup {c}
      BY <2>1, <2>2, PushKeepsRecords, PushPublishes DEF DeliverLate
    <3>2. TypeOK' /\ CallFacts' /\ OkImpliesPublished'
      BY <2>1, <2>2, <3>1 DEF DeliverLate, TypeOK, CallFacts, OkImpliesPublished, Known
    <3> QED
      BY <3>1, <3>2
  <2>3. CASE ~Accepts(c)
    <3>1. /\ Ancestry' /\ Extends' /\ VersionsDiffer' /\ Published' = Published
      BY <2>1, <2>3, QuietKeepsRecords DEF DeliverLate
    <3>2. TypeOK' /\ CallFacts' /\ OkImpliesPublished'
      BY <2>1, <2>3, <3>1 DEF DeliverLate, TypeOK, CallFacts, OkImpliesPublished, Known
    <3> QED
      BY <3>1, <3>2
  <2> QED
    BY <2>2, <2>3
<1> QED
  BY <1>1, <1>2

\* A push that its client gives up on.
LEMMA DelayKeepsInv ==
    ASSUME IInv, NEW r \in Runners, PushDelayed(r)
    PROVE  IInv'
<1> USE DEF IInv
<1>1. /\ Ancestry' /\ Extends' /\ VersionsDiffer' /\ Published' = Published
  BY QuietKeepsRecords DEF PushDelayed
<1>2. proposed[r] \in 1..n
  BY DEF PushDelayed, CallFacts, TypeOK
<1>3. TypeOK' /\ CallFacts' /\ OkImpliesPublished'
  BY <1>1, <1>2 DEF PushDelayed, Advance, Goto, callVars, TypeOK, CallFacts,
                    OkImpliesPublished, Known, PCs
<1> QED
  BY <1>1, <1>3

\* The invariant is inductive.
LEMMA StepKeepsInv == IInv /\ [Next]_vars => IInv'
<1> SUFFICES ASSUME IInv, [Next]_vars PROVE IInv'
  OBVIOUS
<1>1. ASSUME NEW r \in Runners,
             \/ Call(r) \/ Load(r) \/ LoadFails(r) \/ CreateFails(r) \/ PushRejected(r)
             \/ PushFails(r) \/ ResolvePublish(r) \/ ResolveReadFails(r)
             \/ PostCasRead(r) \/ PostCasReadFails(r) \/ Crash(r)
      PROVE  IInv'
  BY <1>1, QuietStepKeepsCalls, QuietKeepsRecords DEF IInv, CallInv
<1>2. CASE UNCHANGED vars
  <2>1. /\ Ancestry' /\ Extends' /\ VersionsDiffer' /\ Published' = Published
    BY <1>2, QuietKeepsRecords DEF IInv, vars
  <2> QED
    BY <1>2, <2>1 DEF IInv, vars, TypeOK, CallFacts, OkImpliesPublished, Known
<1> QED
  BY <1>1, <1>2, CreateKeepsInv, PushKeepsInv, DelayKeepsInv DEF Next, Step

-----------------------------------------------------------------------------
(* Theorems *)

\* The invariant holds in every reachable state.
THEOREM InvHolds == Spec => []IInv
BY InitEstablishes, StepKeepsInv, PTL DEF Spec

\* Type correctness of the ref protocol.
THEOREM TypeCorrect == Spec => []TypeOK
<1>1. IInv => TypeOK
  BY DEF IInv
<1> QED
  BY <1>1, InvHolds, PTL

\* A record that reaches the ref was computed from the record it replaces there.
THEOREM NothingLost == Spec => []NoLostUpdate
<1>1. IInv => NoLostUpdate
  BY PublishedExist DEF IInv, Extends, NoLostUpdate
<1> QED
  BY <1>1, InvHolds, PTL

\* A compare-and-swap that returns normally has published its record.
THEOREM OkIsTrue == Spec => []OkImpliesPublished
<1>1. IInv => OkImpliesPublished
  BY DEF IInv
<1> QED
  BY <1>1, InvHolds, PTL

\* The ref only ever moves to the next version of the record it names.
THEOREM OneVersionAtATime == Spec => RefMovesByOneVersion
<1>1. IInv /\ [Next]_vars => [RefStep]_vars
  <2> SUFFICES ASSUME IInv, Next, ref' # ref PROVE RefStep
    BY DEF RefStep, vars
  <2>1. PICK c \in 1..n : Accepts(c) /\ ref' = c /\ UNCHANGED <<commits, n>>
    <3>1. CASE \E r \in Runners : PushAccepted(r)
      BY <3>1 DEF PushAccepted, IInv, CallFacts, TypeOK
    <3>2. CASE \E c \in CommitIds : DeliverLate(c)
      BY <3>2 DEF DeliverLate, IInv, TypeOK
    <3> QED
      BY <3>1, <3>2, QuietStepKeepsCalls
         DEF Next, Step, CreateSnapshotCommit, PushDelayed
  <2> QED
    BY <2>1, AcceptedParent DEF RefStep, IInv, Extends
<1> QED
  BY <1>1, InvHolds, PTL DEF Spec, RefMovesByOneVersion

\* The ref protocol implements the compare-and-swap register: creating a commit
\* object issues a request, and the server's performing a push applies it.
THEOREM Refinement == Spec => ImplementsRegister
<1>1. Init => Register!Init
  BY DEF Init, Register!Init, VersionAt, Published
<1>2. IInv /\ [Next]_vars => [Register!Next]_Register!vars
  <2> SUFFICES ASSUME IInv, [Next]_vars PROVE [Register!Next]_Register!vars
    OBVIOUS
  <2>0. n \in Nat /\ Published \subseteq 1..n /\ TypeOK
    BY PublishedExist, StoreAssumption DEF IInv, TypeOK
  <2>1. CASE \E r \in Runners : CreateSnapshotCommit(r)
    <3>1. PICK r \in Runners : CreateSnapshotCommit(r)
      BY <2>1
    <3>2. /\ Published' = Published
          /\ \A c \in 1..n : commits'[c] = commits[c]
      BY <3>1, CreateKeepsRecords DEF IInv
    <3>3. /\ n' = n + 1 /\ n + 1 \in CommitIds /\ ref' = ref
          /\ commits'[n + 1].base = base[r]
      BY <3>1, <2>0, StoreAssumption DEF CreateSnapshotCommit, TypeOK, CommitIds
    <3>4. VersionAt(ref)' = VersionAt(ref)
      BY <3>2, <3>3, <2>0 DEF VersionAt, TypeOK
    <3>5. \A q \in 0..n : VersionAt(q)' = VersionAt(q)
      BY <3>2, <2>0 DEF VersionAt
    <3>6. \A c \in 1..n : AsRequest(c)' = AsRequest(c)
      BY <3>2, <3>5, <2>0 DEF AsRequest, IInv, Extends, Ancestry, VersionAt
    <3>7. \A c : c = n + 1 =>
            AsRequest(c)' = [id |-> n + 1, expected |-> VersionAt(base[r])]
      <4> SUFFICES ASSUME NEW c, c = n + 1
                   PROVE AsRequest(c)' = [id |-> n + 1, expected |-> VersionAt(base[r])]
        OBVIOUS
      <4>1. commits'[c].base = base[r]
        BY <3>3
      <4>2. base[r] \in 0..n /\ base[r] # 0 => base[r] \in 1..n
        BY <2>0 DEF TypeOK
      <4> QED
        BY <3>2, <4>1, <4>2, <2>0 DEF AsRequest, VersionAt, TypeOK
    <3>8. {AsRequest(c) : c \in 1..n}' =
            {AsRequest(c) : c \in 1..n} \cup {[id |-> n + 1, expected |-> VersionAt(base[r])]}
      BY <3>3, <3>6, <3>7, <2>0
    <3>9. {AsRequest(c) : c \in Published}' = {AsRequest(c) : c \in Published}
      BY <3>2, <3>6, <2>0
    <3>10. VersionAt(base[r]) \in 0..VersionAt(ref)
      BY <2>0, VersionNat DEF IInv, CallFacts, Known, VersionsDiffer, VersionAt, TypeOK
    <3>11. \A p \in {AsRequest(c) : c \in 1..n} : p.id # n + 1
      BY <2>0 DEF AsRequest
    <3>12. Register!Issue(n + 1, VersionAt(base[r]))
      BY <3>4, <3>8, <3>9, <3>11 DEF Register!Issue
    <3> QED
      BY <3>3, <3>10, <3>12 DEF Register!Next
  <2>2. CASE ref' # ref
    <3>1. PICK c \in 1..n : Accepts(c) /\ ref' = c /\ UNCHANGED <<commits, n>>
      <4>1. CASE \E r \in Runners : PushAccepted(r)
        BY <4>1 DEF PushAccepted, IInv, CallFacts, TypeOK
      <4>2. CASE \E c \in CommitIds : DeliverLate(c)
        BY <4>2, <2>2 DEF DeliverLate, IInv, TypeOK
      <4> QED
        BY <2>2, <4>1, <4>2, QuietStepKeepsCalls
           DEF Next, Step, CreateSnapshotCommit, PushDelayed, vars
    <3>2. Published' = Published \cup {c}
      BY <3>1, PushPublishes DEF IInv
    <3>3. commits[c].base = ref /\ commits[c].version = VersionAt(ref) + 1
      BY <3>1, AcceptedParent DEF IInv, Extends
    <3>4. \A q : VersionAt(q)' = VersionAt(q)
      BY <3>1 DEF VersionAt
    <3>5. \A d : AsRequest(d)' = AsRequest(d)
      BY <3>1 DEF AsRequest, VersionAt
    <3>6. VersionAt(ref)' = VersionAt(ref) + 1
      BY <3>1, <3>3 DEF VersionAt
    <3>7. AsRequest(c).expected = VersionAt(ref)
      BY <3>3 DEF AsRequest
    <3>8. {AsRequest(d) : d \in Published}' =
            {AsRequest(d) : d \in Published} \cup {AsRequest(c)}
      BY <3>2, <3>5
    <3>9. {AsRequest(d) : d \in 1..n}' = {AsRequest(d) : d \in 1..n}
      BY <3>1, <3>5
    <3>10. Register!Apply(AsRequest(c))
      BY <3>6, <3>7, <3>8, <3>9 DEF Register!Apply
    <3> QED
      BY <3>10 DEF Register!Next
  <2>3. CASE UNCHANGED <<commits, n, ref>>
    BY <2>3 DEF Register!vars, VersionAt, AsRequest, Published
  <2>4. UNCHANGED <<commits, n, ref>> \/ ref' # ref \/ \E r \in Runners : CreateSnapshotCommit(r)
    BY QuietStepKeepsCalls DEF Next, Step, PushAccepted, PushDelayed, DeliverLate, vars
  <2> QED
    BY <2>1, <2>2, <2>3, <2>4
<1> QED
  BY <1>1, <1>2, InvHolds, PTL DEF Spec, ImplementsRegister, Register!Spec

\* At most one write computed from each version is ever published.
THEOREM OneWinnerHolds == Spec => []OneWinner
<1>1. IInv => OneWinner
  <2> SUFFICES ASSUME IInv PROVE OneWinner
    OBVIOUS
  <2>1. \A c \in Published : /\ c \in 1..n
                             /\ AsRequest(c).expected \in Nat
                             /\ commits[c].version = AsRequest(c).expected + 1
    <3> SUFFICES ASSUME NEW c \in Published
                 PROVE  /\ c \in 1..n
                        /\ AsRequest(c).expected \in Nat
                        /\ commits[c].version = AsRequest(c).expected + 1
      OBVIOUS
    <3>1. c \in 1..n /\ n \in Nat
      BY PublishedExist, StoreAssumption DEF IInv, TypeOK
    <3>2. commits[c].base = commits[c].parent /\ commits[c].parent \in 0..n
      BY <3>1 DEF IInv, Extends, Ancestry
    <3>3. AsRequest(c).expected = VersionAt(commits[c].parent)
      BY <3>2 DEF AsRequest
    <3> QED
      BY <3>1, <3>2, <3>3, VersionNat DEF IInv, Extends
  <2>2. VersionAt(ref) \in Nat
    BY VersionNat DEF IInv, TypeOK
  <2>3. \A a, b \in Published : AsRequest(a).expected = AsRequest(b).expected => a = b
    BY <2>1 DEF IInv, VersionsDiffer
  <2>4. \A a \in Published : AsRequest(a).expected < VersionAt(ref)
    BY <2>1, <2>2 DEF IInv, VersionsDiffer
  <2> QED
    BY <2>3, <2>4 DEF OneWinner, Register!OneWinnerPerVersion
<1> QED
  BY <1>1, InvHolds, PTL

-----------------------------------------------------------------------------
(* When "no overwrite performed" is true *)

\* Without late deliveries and stale reads no push is under way after its call
\* has given it up, and no two calls push the same commit object.
Prompt ==
    /\ wire = {}
    /\ \A r, s \in Runners : r # s /\ proposed[r] # 0 => proposed[r] # proposed[s]
    /\ \A r \in Runners :
         /\ result[r] = "CONFLICT" => pc[r] = "idle"
         /\ pc[r] \in {"push", "conflict", "uncertain", "confirm"} =>
              commits[proposed[r]].parent = previous[r]
    /\ ConflictImpliesUnpublished

\* If no push can land late and every read returns the current ref, a call that
\* raised StateVersionConflict has left no trace on the ref and never will.  The
\* run that allows a late push shows that the first condition is needed.
THEOREM ConflictIsTrue ==
    ~LateDelivery /\ ~StaleReads => (Spec => []ConflictImpliesUnpublished)
<1> SUFFICES ASSUME ~LateDelivery, ~StaleReads
             PROVE  Spec => []ConflictImpliesUnpublished
  OBVIOUS
<1>1. Init => Prompt
  BY DEF Init, Prompt, ConflictImpliesUnpublished
<1>2. IInv /\ Prompt /\ [Next]_vars => Prompt'
  <2> SUFFICES ASSUME IInv, Prompt, [Next]_vars PROVE Prompt'
    OBVIOUS
  <2>0. /\ n \in Nat /\ Published \subseteq 1..n /\ TypeOK /\ CallFacts /\ Visible = {ref}
        /\ 0 \notin Published
    BY PublishedExist, StoreAssumption DEF IInv, TypeOK, Visible
  <2>1. CASE UNCHANGED vars
    BY <2>1 DEF vars, Prompt, ConflictImpliesUnpublished, Published
  <2>2. ASSUME NEW r \in Runners, CreateSnapshotCommit(r) PROVE Prompt'
    <3>1. /\ Published' = Published
          /\ \A c \in 1..n : commits'[c] = commits[c]
      BY <2>2, CreateKeepsRecords DEF IInv
    <3>2. /\ commits'[n + 1].parent = previous[r]
          /\ proposed' = [proposed EXCEPT ![r] = n + 1]
          /\ pc' = [pc EXCEPT ![r] = "push"]
          /\ UNCHANGED <<wire, previous, result>>
      BY <2>0, <2>2, StoreAssumption
         DEF CreateSnapshotCommit, Advance, Goto, TypeOK, CommitIds
    <3>3. result[r] = "NONE"
      BY <2>0, <2>2 DEF CreateSnapshotCommit, CallFacts
    <3> QED
      BY <2>0, <3>1, <3>2, <3>3 DEF Prompt, ConflictImpliesUnpublished, TypeOK, CallFacts
  <2>3. ASSUME NEW r \in Runners, PushAccepted(r) PROVE Prompt'
    <3>1. proposed[r] \in 1..n
      BY <2>0, <2>3 DEF PushAccepted, CallFacts, TypeOK
    <3>2. Published' = Published \cup {proposed[r]}
      BY <2>3, <3>1, PushPublishes DEF PushAccepted, IInv
    <3>3. result[r] = "NONE"
      BY <2>0, <2>3 DEF PushAccepted, CallFacts
    <3> QED
      BY <2>0, <2>3, <3>1, <3>2, <3>3
         DEF PushAccepted, Advance, Goto, callVars, Prompt, ConflictImpliesUnpublished, TypeOK
  <2>4. ASSUME NEW r \in Runners, ResolvePublish(r) PROVE Prompt'
    <3>1. UNCHANGED <<commits, n, ref, wire, base, previous, proposed>> /\ Published' = Published
      BY <2>4 DEF ResolvePublish, refVars, callVars, Published
    <3>2. /\ pc[r] \in {"conflict", "uncertain", "confirm"} /\ proposed[r] \in 1..n
          /\ result[r] = "NONE" /\ commits[proposed[r]].parent = previous[r]
      BY <2>0, <2>4 DEF ResolvePublish, CallFacts, TypeOK, Prompt
    <3>3. CASE ref = previous[r] /\ Finish(r, "CONFLICT")
      <4>1. proposed[r] \notin Published
        <5>1. previous[r] < proposed[r]
          BY <3>2, <2>0 DEF IInv, Ancestry
        <5>2. CASE ref = 0
          BY <5>2 DEF Published
        <5>3. CASE ref # 0
          <6>1. ref \in 1..n /\ commits[ref].anc \subseteq 1..(ref - 1)
            BY <5>3, <2>0 DEF IInv, Ancestry, TypeOK
          <6> QED
            BY <3>2, <3>3, <5>1, <5>3, <6>1, <2>0 DEF Published
        <5> QED
          BY <5>2, <5>3
      <4> QED
        BY <3>1, <3>2, <3>3, <4>1, <2>0
           DEF Finish, Goto, Prompt, ConflictImpliesUnpublished, TypeOK
    <3>4. CASE Finish(r, "UNAVAILABLE") \/ Again(r) \/ Advance(r, "reread") \/ Advance(r, "confirm")
      BY <3>1, <3>2, <3>4, <2>0
         DEF Finish, Again, Advance, Goto, Prompt, ConflictImpliesUnpublished, TypeOK
    <3> QED
      BY <2>0, <2>4, <3>3, <3>4 DEF ResolvePublish
  <2>5. ASSUME NEW r \in Runners, Call(r) \/ Load(r) PROVE Prompt'
    <3>1. Published' = Published
      BY <2>5 DEF Call, Load, refVars, Published
    <3>2. CASE Call(r)
      BY <3>1, <3>2, <2>0
         DEF Call, refVars, Goto, Prompt, ConflictImpliesUnpublished, TypeOK
    <3>3. CASE Load(r)
      <4>1. /\ UNCHANGED <<commits, n, ref, wire, base, proposed>>
            /\ previous' = [previous EXCEPT ![r] = ref] \/ UNCHANGED previous
            /\ Advance(r, "loaded") \/ Finish(r, "CONFLICT")
            /\ pc[r] = "called" /\ result[r] = "NONE"
        BY <2>0, <3>3 DEF Load, refVars, CallFacts
      <4>2. proposed[r] = 0
        BY <4>1, <2>0 DEF IInv, CallFacts
      <4> QED
        BY <3>1, <4>1, <4>2, <2>0
           DEF Advance, Finish, Goto, Prompt, ConflictImpliesUnpublished, TypeOK
    <3> QED
      BY <2>5, <3>2, <3>3
  <2>6. ASSUME NEW r \in Runners,
               \/ LoadFails(r) \/ CreateFails(r) \/ PushRejected(r) \/ PushFails(r)
               \/ ResolveReadFails(r) \/ PostCasRead(r) \/ PostCasReadFails(r) \/ Crash(r)
        PROVE  Prompt'
    <3>1. UNCHANGED <<commits, n, ref, wire, base, previous, proposed>> /\ Published' = Published
      BY <2>6 DEF LoadFails, CreateFails, PushRejected, PushFails, ResolveReadFails,
                  PostCasRead, PostCasReadFails, Crash, refVars, callVars, Published
    <3>2. /\ pc[r] # "idle" /\ result[r] = "NONE"
          /\ \/ Finish(r, "UNAVAILABLE") \/ Finish(r, "NONE") \/ Finish(r, "OK")
             \/ Again(r)
             \/ pc[r] = "push" /\ (Advance(r, "conflict") \/ Advance(r, "uncertain"))
      BY <2>0, <2>6 DEF LoadFails, CreateFails, PushRejected, PushFails, ResolveReadFails,
                        PostCasRead, PostCasReadFails, Crash, CallFacts
    <3> QED
      BY <3>1, <3>2, <2>0
         DEF Finish, Again, Advance, Goto, Prompt, ConflictImpliesUnpublished, TypeOK
  <2> QED
    BY <2>1, <2>2, <2>3, <2>4, <2>5, <2>6 DEF Next, Step, PushDelayed, DeliverLate, Prompt
<1>3. Prompt => ConflictImpliesUnpublished
  BY DEF Prompt
<1> QED
  BY <1>1, <1>2, <1>3, InvHolds, PTL DEF Spec
=============================================================================

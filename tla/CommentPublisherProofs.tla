------------------------ MODULE CommentPublisherProofs ------------------------
(***************************************************************************)
(* Proofs about CommentPublisher, for any finite set of jobs, any          *)
(* publishers and any bounds: type correctness, at most one comment while  *)
(* no lock connection is dropped, a comment for every published source,    *)
(* and outcomes that stand.                                                *)
(***************************************************************************)
EXTENDS CommentPublisher, FiniteSetTheorems, TLAPS

\* A publisher has an item in hand exactly from the check of the head to the
\* recording of the outcome.
InHand == {"find", "post", "patch", "mark"}

-----------------------------------------------------------------------------
(* Types *)

\* The query returns jobs.
LEMMA BatchOfJobs ==
    ASSUME NEW T \in Oldest(Undecided)
    PROVE  T \in SUBSET Jobs
  BY DEF Oldest, Undecided

\* The rank of a finished job is a number, since there are finitely many jobs.
LEMMA RankIsNatural == Cardinality({k \in Jobs : ended[k] # 0}) + 1 \in Nat
  <1>1. IsFiniteSet({k \in Jobs : ended[k] # 0})
    BY JobsAssumption, FS_Subset
  <1>. QED  BY <1>1, FS_CardinalityType

\* No table, comment or publisher is anything but empty at first.
LEMMA TypeInit == Init => TypeOK
  BY DEF Init, TypeOK, States, Locations

\* What jobs, pushes and the lock's server do keeps the types.
LEMMA TypeEnvironment ==
    ASSUME TypeOK,
           \/ \E j \in Jobs : JobEnds(j) \/ Refuse(j)
           \/ Push
           \/ \E p \in Publishers : SessionEnds(p)
    PROVE  TypeOK'
  <1>1. ASSUME NEW j \in Jobs, JobEnds(j)  PROVE TypeOK'
    <2>1. ended' \in [Jobs -> Nat]
      BY <1>1, RankIsNatural DEF TypeOK, JobEnds
    <2>. QED  BY <1>1, <2>1
              DEF TypeOK, JobEnds, hubVars, pubVars, budgetVars
  <1>2. ASSUME NEW j \in Jobs, Refuse(j)  PROVE TypeOK'
    BY <1>2 DEF TypeOK, Refuse, dbVars, pubVars, budgetVars
  <1>3. ASSUME Push  PROVE TypeOK'
    BY <1>3 DEF TypeOK, Push, dbVars, pubVars
  <1>4. ASSUME NEW p \in Publishers, SessionEnds(p)  PROVE TypeOK'
    BY <1>4 DEF TypeOK, SessionEnds, dbVars, hubVars, pubVars
  <1>. QED  BY <1>1, <1>2, <1>3, <1>4

\* Leaving the locked call empties the publisher's hands.
LEMMA LeaveType ==
    ASSUME TypeOK, NEW p \in Publishers, Leave(p)
    PROVE  /\ pc' \in [Publishers -> Locations]
           /\ batch' \in [Publishers -> SUBSET Jobs]
           /\ item' \in [Publishers -> SUBSET Jobs]
           /\ verdict' \in [Publishers -> States]
           /\ \A q \in Publishers :
                 IF pc'[q] \in InHand THEN \E j \in Jobs : item'[q] = {j}
                                      ELSE item'[q] = {}
           /\ pc'[p] = "release" /\ item'[p] = {}
           /\ \A q \in Publishers : q # p =>
                 pc'[q] = pc[q] /\ item'[q] = item[q] /\ verdict'[q] = verdict[q]
  BY DEF TypeOK, Leave, Goto, Locations, States, InHand

\* Every step of a publisher keeps the types.
LEMMA TypePublisher ==
    ASSUME TypeOK, NEW p \in Publishers,
           PublishPending(p) \/ WriteFails(p) \/ CallFails(p) \/ Crash(p)
    PROVE  TypeOK'
  <1>. USE DEF InHand
  <1>1. ASSUME TryLock(p)  PROVE TypeOK'
    BY <1>1 DEF TypeOK, TryLock, Goto, Locations, dbVars, hubVars, budgetVars
  <1>2. ASSUME Select(p)  PROVE TypeOK'
    <2>1. PICK T \in Oldest(Undecided) :
             IF T = {} THEN Leave(p)
             ELSE /\ batch' = [batch EXCEPT ![p] = T]
                  /\ Goto(p, "check")
                  /\ UNCHANGED <<item, verdict>>
      BY <1>2 DEF Select
    <2>2. UNCHANGED <<dbVars, hubVars, lock, budgetVars>>
      BY <1>2 DEF Select
    <2>3. CASE T = {}
      BY <2>1, <2>2, <2>3, LeaveType DEF TypeOK, dbVars, hubVars, budgetVars
    <2>4. CASE T # {}
      BY <1>2, <2>1, <2>2, <2>4, BatchOfJobs
         DEF Select, TypeOK, Goto, Locations, dbVars, hubVars, budgetVars
    <2>. QED  BY <2>3, <2>4
  <1>3. ASSUME CheckHead(p)  PROVE TypeOK'
    <2>1. PICK j \in First(batch[p]) :
             IF j \in refused THEN Leave(p)
             ELSE /\ item' = [item EXCEPT ![p] = {j}]
                  /\ IF current[j]
                     THEN Goto(p, "find") /\ verdict' = [verdict EXCEPT ![p] = "published"]
                     ELSE Goto(p, "mark") /\ verdict' = [verdict EXCEPT ![p] = "superseded"]
                  /\ UNCHANGED batch
      BY <1>3 DEF CheckHead
    <2>2. UNCHANGED <<dbVars, hubVars, lock, budgetVars>>
      BY <1>3 DEF CheckHead
    <2>3. j \in Jobs
      BY DEF TypeOK, First
    <2>4. CASE j \in refused
      BY <2>1, <2>2, <2>4, LeaveType DEF TypeOK, dbVars, hubVars, budgetVars
    <2>5. CASE j \notin refused
      BY <2>1, <2>2, <2>3, <2>5
         DEF TypeOK, Goto, Locations, States, dbVars, hubVars, budgetVars
    <2>. QED  BY <2>4, <2>5
  <1>4. ASSUME FindMarker(p)  PROVE TypeOK'
    BY <1>4 DEF TypeOK, FindMarker, Goto, Locations, dbVars, hubVars, budgetVars
  <1>5. ASSUME Write(p)  PROVE TypeOK'
    BY <1>5 DEF TypeOK, Write, Posted, Patched, Goto, Locations, dbVars, budgetVars
  <1>6. ASSUME Recorded(p)  PROVE state' \in [Jobs -> States]
    BY <1>6 DEF TypeOK, Recorded
  <1>7. ASSUME Mark(p)  PROVE TypeOK'
    <2>1. CASE batch[p] \ item[p] = {}
      BY <1>6, <1>7, <2>1, LeaveType DEF Mark, TypeOK, hubVars, budgetVars
    <2>2. CASE batch[p] \ item[p] # {}
      BY <1>6, <1>7, <2>2 DEF Mark, TypeOK, Goto, Locations, States, hubVars, budgetVars
    <2>. QED  BY <2>1, <2>2
  <1>8. ASSUME Release(p)  PROVE TypeOK'
    BY <1>8 DEF TypeOK, Release, Goto, Locations, dbVars, hubVars, budgetVars
  <1>9. ASSUME WriteFails(p)  PROVE TypeOK'
    BY <1>9, LeaveType DEF TypeOK, WriteFails, Posted, Fault, dbVars
  <1>10. ASSUME CallFails(p)  PROVE TypeOK'
    BY <1>6, <1>10, LeaveType DEF TypeOK, CallFails, Fault, hubVars
  <1>11. ASSUME Crash(p)  PROVE TypeOK'
    BY <1>11 DEF TypeOK, Crash, Fault, Goto, Locations, States, dbVars, hubVars
  <1>. QED  BY <1>1, <1>2, <1>3, <1>4, <1>5, <1>7, <1>8, <1>9, <1>10, <1>11
            DEF PublishPending

LEMMA TypeStep == TypeOK /\ [Next]_vars => TypeOK'
  <1>1. ASSUME TypeOK, UNCHANGED vars  PROVE TypeOK'
    BY <1>1 DEF TypeOK, vars, dbVars, hubVars, pubVars, budgetVars
  <1>. QED  BY <1>1, TypeEnvironment, TypePublisher DEF Next

\* Every variable keeps its type.
THEOREM TypeCorrect == Spec => []TypeOK
  BY TypeInit, TypeStep, PTL DEF Spec

-----------------------------------------------------------------------------
(* The inductive invariant *)

LEMMA IInvInit == Init => IInv
  BY TypeInit DEF Init, IInv, Exclusive, Searched, OneComment, PublishedHasComment

\* A step that writes no comment and lets each publisher go where Searched says
\* nothing, or where it stands, or where what it found allows, keeps Searched.
LEMMA SearchedFrame ==
    ASSUME IInv, UNCHANGED comments, drops' = 0 => drops = 0,
           NEW p \in Publishers,
           \A q \in Publishers : q # p =>
              pc'[q] = pc[q] /\ item'[q] = item[q] /\ verdict'[q] = verdict[q],
           \/ item'[p] = {}
           \/ pc'[p] \notin {"post", "patch", "mark"}
           \/ pc'[p] = "mark" /\ verdict'[p] # "published"
    PROVE  Searched'
  BY DEF IInv, Searched

\* What surrounds the publishers: finishing jobs, pushes, refusals, and the
\* server taking a lock back.
LEMMA IInvEnvironment ==
    ASSUME IInv,
           \/ \E j \in Jobs : JobEnds(j) \/ Refuse(j)
           \/ Push
           \/ \E p \in Publishers : SessionEnds(p)
    PROVE  IInv'
  <1>1. TypeOK'
    BY TypeEnvironment DEF IInv
  <1>2. UNCHANGED <<state, comments, pubVars>>
    BY DEF JobEnds, Refuse, Push, SessionEnds, dbVars, hubVars
  <1>3. drops' = 0 => drops = 0
    <2>1. drops \in Nat
      BY DEF IInv, TypeOK
    <2>2. UNCHANGED drops \/ drops' = drops + 1
      BY DEF JobEnds, Refuse, Push, SessionEnds, budgetVars
    <2>. QED  BY <2>1, <2>2
  <1>4. Searched' /\ OneComment' /\ PublishedHasComment'
    BY <1>2, <1>3 DEF IInv, Searched, OneComment, PublishedHasComment, pubVars
  <1>5. Exclusive'
    <2>1. CASE UNCHANGED lock
      BY <1>2, <1>3, <2>1 DEF IInv, Exclusive, pubVars
    <2>2. ASSUME NEW p \in Publishers, SessionEnds(p)  PROVE Exclusive'
      <3>1. CASE pc[p] = "idle"
        BY <1>2, <1>3, <2>2, <3>1 DEF SessionEnds, IInv, Exclusive, TypeOK, pubVars
      <3>2. CASE pc[p] # "idle"
        <4>1. drops' # 0
          BY <2>2, <3>2 DEF SessionEnds, IInv, TypeOK
        <4>. QED  BY <4>1 DEF Exclusive
      <3>. QED  BY <3>1, <3>2
    <2>. QED  BY <2>1, <2>2 DEF JobEnds, Refuse, Push
  <1>. QED  BY <1>1, <1>4, <1>5 DEF IInv

\* A publisher that gives up or dies drops what it had in hand.
LEMMA IInvLeaves ==
    ASSUME IInv, NEW p \in Publishers,
           pc[p] # "idle",
           pc'[p] \in {"idle", "release"},
           item'[p] = {},
           \A q \in Publishers : q # p =>
              pc'[q] = pc[q] /\ item'[q] = item[q] /\ verdict'[q] = verdict[q],
           UNCHANGED <<comments, lock, drops>>
    PROVE  Exclusive' /\ Searched' /\ OneComment'
  <1>1. Exclusive'
    BY DEF IInv, Exclusive, TypeOK
  <1>2. Searched'
    BY SearchedFrame
  <1>. QED  BY <1>1, <1>2 DEF IInv, OneComment

\* A comment is posted by the one publisher that found none.
LEMMA PostedIsFirst ==
    ASSUME IInv, NEW p \in Publishers, Posted(p), UNCHANGED drops
    PROVE  /\ OneComment'
           /\ PublishedHasComment \/ UNCHANGED state
           /\ \A j \in Jobs : comments'[j] >= comments[j]
           /\ \A j \in item[p] : comments'[j] >= 1
           /\ \A q \in Publishers : \A j \in item[q] :
                 drops = 0 /\ pc[q] = "post" /\ q # p => comments'[j] = 0
  <1>1. PICK j \in item[p] : comments' = [comments EXCEPT ![j] = @ + 1]
    BY DEF Posted
  <1>2. item[p] = {j} /\ j \in Jobs
    BY <1>1 DEF IInv, TypeOK, Posted
  <1>3. drops = 0 => comments[j] = 0
    BY <1>1 DEF IInv, Searched, Posted
  <1>4. drops = 0 => \A q \in Publishers : q # p => pc[q] = "idle"
    BY DEF IInv, Exclusive, Posted
  <1>. QED  BY <1>1, <1>2, <1>3, <1>4 DEF IInv, TypeOK, OneComment, PublishedHasComment

\* Every step of a publisher keeps the invariant.
LEMMA IInvPublisher ==
    ASSUME IInv, NEW p \in Publishers,
           PublishPending(p) \/ WriteFails(p) \/ CallFails(p) \/ Crash(p)
    PROVE  IInv'
  <1>. DEFINE Rest == Exclusive' /\ Searched' /\ OneComment' /\ PublishedHasComment'
  <1>0. TypeOK /\ TypeOK'
    BY TypePublisher DEF IInv
  <1>1. ASSUME TryLock(p)  PROVE Rest
    <2>1. UNCHANGED <<state, comments, item, verdict, drops>>
      BY <1>1 DEF TryLock, dbVars, hubVars, budgetVars
    <2>2. Exclusive'
      BY <1>0, <1>1, <2>1 DEF TryLock, Goto, IInv, Exclusive, TypeOK
    <2>3. Searched'
      BY <1>0, <1>1, <2>1 DEF TryLock, Goto, IInv, Searched, TypeOK
    <2>. QED  BY <2>1, <2>2, <2>3 DEF IInv, OneComment, PublishedHasComment
  <1>2. ASSUME Select(p)  PROVE Rest
    <2>1. pc[p] = "select" /\ UNCHANGED <<state, comments, lock, drops>>
      BY <1>2 DEF Select, dbVars, hubVars, budgetVars
    <2>2. CASE Leave(p)
      BY <1>0, <2>1, <2>2, LeaveType, IInvLeaves DEF IInv, PublishedHasComment
    <2>3. CASE Goto(p, "check") /\ UNCHANGED <<item, verdict>>
      <3>1. Exclusive'
        BY <1>0, <2>1, <2>3 DEF Goto, IInv, Exclusive, TypeOK
      <3>2. Searched'
        BY <1>0, <2>1, <2>3 DEF Goto, IInv, Searched, TypeOK
      <3>. QED  BY <2>1, <3>1, <3>2 DEF IInv, OneComment, PublishedHasComment
    <2>. QED  BY <1>2, <2>2, <2>3 DEF Select
  <1>3. ASSUME CheckHead(p)  PROVE Rest
    <2>1. pc[p] = "check" /\ UNCHANGED <<state, comments, lock, drops>>
      BY <1>3 DEF CheckHead, dbVars, hubVars, budgetVars
    <2>2. CASE Leave(p)
      BY <1>0, <2>1, <2>2, LeaveType, IInvLeaves DEF IInv, PublishedHasComment
    <2>3. ASSUME NEW j \in First(batch[p]),
                 item' = [item EXCEPT ![p] = {j}],
                 \/ Goto(p, "find") /\ verdict' = [verdict EXCEPT ![p] = "published"]
                 \/ Goto(p, "mark") /\ verdict' = [verdict EXCEPT ![p] = "superseded"]
          PROVE  Rest
      <3>1. Exclusive'
        BY <1>0, <2>1, <2>3 DEF Goto, IInv, Exclusive, TypeOK
      <3>2. /\ \/ pc'[p] = "find"
               \/ pc'[p] = "mark" /\ verdict'[p] = "superseded"
            /\ \A q \in Publishers : q # p =>
                  pc'[q] = pc[q] /\ item'[q] = item[q] /\ verdict'[q] = verdict[q]
        BY <1>0, <2>3 DEF Goto, TypeOK
      <3>3. Searched'
        BY <2>1, <3>2, SearchedFrame
      <3>. QED  BY <2>1, <3>1, <3>3 DEF IInv, OneComment, PublishedHasComment
    <2>. QED  BY <1>3, <2>2, <2>3 DEF CheckHead
  <1>4. ASSUME FindMarker(p)  PROVE Rest
    <2>1. pc[p] = "find" /\ UNCHANGED <<state, comments, lock, item, verdict, drops>>
      BY <1>4 DEF FindMarker, dbVars, hubVars, budgetVars
    <2>2. PICK j \in item[p] : Goto(p, IF comments[j] > 0 THEN "patch" ELSE "post")
      BY <1>4 DEF FindMarker
    <2>3. item[p] = {j} /\ j \in Jobs /\ comments[j] \in Nat
      BY <1>0, <2>1, <2>2 DEF TypeOK
    <2>4. Exclusive'
      BY <1>0, <2>1, <2>2 DEF Goto, IInv, Exclusive, TypeOK
    <2>5. Searched'
      BY <1>0, <2>1, <2>2, <2>3 DEF Goto, IInv, Searched, TypeOK
    <2>. QED  BY <2>1, <2>4, <2>5 DEF IInv, OneComment, PublishedHasComment
  <1>5. ASSUME Write(p)  PROVE Rest
    <2>1. /\ pc[p] \in {"post", "patch"} /\ pc' = [pc EXCEPT ![p] = "mark"]
          /\ UNCHANGED <<state, lock, item, verdict, drops>>
      BY <1>5 DEF Write, Posted, Patched, Goto, dbVars, budgetVars
    <2>2. Exclusive'
      BY <1>0, <2>1 DEF IInv, Exclusive, TypeOK
    <2>3. CASE Posted(p)
      <3>1. Searched'
        BY <1>0, <2>1, <2>3, PostedIsFirst DEF IInv, Searched, TypeOK
      <3>2. PublishedHasComment'
        BY <1>0, <2>1, <2>3, PostedIsFirst DEF IInv, PublishedHasComment, TypeOK
      <3>. QED  BY <2>1, <2>2, <2>3, <3>1, <3>2, PostedIsFirst
    <2>4. CASE Patched(p)
      <3>1. Searched'
        BY <1>0, <2>1, <2>4 DEF Patched, IInv, Searched, TypeOK
      <3>. QED  BY <2>1, <2>2, <2>4, <3>1 DEF Patched, IInv, OneComment, PublishedHasComment
    <2>. QED  BY <1>5, <2>3, <2>4 DEF Write
  <1>6. ASSUME Recorded(p), pc[p] = "mark", UNCHANGED comments
        PROVE  PublishedHasComment'
    BY <1>0, <1>6 DEF Recorded, IInv, Searched, PublishedHasComment, TypeOK
  <1>7. ASSUME Mark(p)  PROVE Rest
    <2>1. pc[p] = "mark" /\ UNCHANGED <<comments, lock, drops>>
      BY <1>7 DEF Mark, hubVars, budgetVars
    <2>2. PublishedHasComment'
      BY <1>6, <1>7, <2>1 DEF Mark
    <2>3. CASE Leave(p)
      BY <1>0, <2>1, <2>2, <2>3, LeaveType, IInvLeaves
    <2>4. CASE /\ Goto(p, "check")
               /\ item' = [item EXCEPT ![p] = {}]
               /\ verdict' = [verdict EXCEPT ![p] = "pending"]
      <3>1. Exclusive'
        BY <1>0, <2>1, <2>4 DEF Goto, IInv, Exclusive, TypeOK
      <3>2. Searched'
        BY <1>0, <2>1, <2>4, SearchedFrame DEF Goto, TypeOK
      <3>. QED  BY <2>1, <2>2, <3>1, <3>2 DEF IInv, OneComment
    <2>. QED  BY <1>7, <2>3, <2>4 DEF Mark
  <1>8. ASSUME Release(p)  PROVE Rest
    <2>1. /\ pc[p] = "release" /\ pc' = [pc EXCEPT ![p] = "idle"] /\ lock' = lock \ {p}
          /\ UNCHANGED <<state, comments, item, verdict, drops>>
      BY <1>8 DEF Release, Goto, dbVars, hubVars, budgetVars
    <2>2. Exclusive'
      BY <1>0, <2>1 DEF IInv, Exclusive, TypeOK
    <2>3. Searched'
      BY <1>0, <2>1 DEF IInv, Searched, TypeOK
    <2>. QED  BY <2>1, <2>2, <2>3 DEF IInv, OneComment, PublishedHasComment
  <1>9. ASSUME WriteFails(p)  PROVE Rest
    <2>1. /\ pc[p] \in {"post", "patch"} /\ UNCHANGED <<state, lock, drops>>
          /\ Leave(p)
      BY <1>9 DEF WriteFails, dbVars
    <2>2. CASE UNCHANGED comments
      BY <1>0, <2>1, <2>2, LeaveType, IInvLeaves DEF IInv, PublishedHasComment
    <2>3. CASE Posted(p)
      <3>1. Exclusive'
        BY <1>0, <2>1, LeaveType DEF IInv, Exclusive, TypeOK
      <3>2. Searched'
        BY <1>0, <2>1, <2>3, LeaveType, PostedIsFirst DEF IInv, Searched, TypeOK
      <3>3. PublishedHasComment'
        BY <1>0, <2>1, <2>3, PostedIsFirst DEF IInv, PublishedHasComment, TypeOK
      <3>. QED  BY <2>1, <2>3, <3>1, <3>2, <3>3, PostedIsFirst
    <2>. QED  BY <1>9, <2>2, <2>3 DEF WriteFails
  <1>10. ASSUME CallFails(p)  PROVE Rest
    <2>1. /\ pc[p] # "idle" /\ Leave(p)
          /\ UNCHANGED <<comments, lock, drops>>
          /\ (pc[p] = "mark" /\ Recorded(p)) \/ UNCHANGED state
      BY <1>10 DEF CallFails, hubVars
    <2>2. PublishedHasComment'
      BY <1>6, <2>1 DEF IInv, PublishedHasComment
    <2>. QED  BY <1>0, <2>1, <2>2, LeaveType, IInvLeaves
  <1>11. ASSUME Crash(p)  PROVE Rest
    <2>1. /\ pc[p] # "idle" /\ pc'[p] = "idle" /\ item'[p] = {}
          /\ UNCHANGED <<state, comments, lock, drops>>
          /\ \A q \in Publishers : q # p =>
                pc'[q] = pc[q] /\ item'[q] = item[q] /\ verdict'[q] = verdict[q]
      BY <1>0, <1>11 DEF Crash, Goto, TypeOK, dbVars, hubVars
    <2>. QED  BY <2>1, IInvLeaves DEF IInv, PublishedHasComment
  <1>. QED  BY <1>0, <1>1, <1>2, <1>3, <1>4, <1>5, <1>7, <1>8, <1>9, <1>10, <1>11
            DEF PublishPending, IInv

LEMMA IInvStep == IInv /\ [Next]_vars => IInv'
  <1>1. ASSUME IInv, UNCHANGED vars  PROVE IInv'
    BY <1>1 DEF IInv, TypeOK, Exclusive, Searched, OneComment, PublishedHasComment,
                vars, dbVars, hubVars, pubVars, budgetVars
  <1>. QED  BY <1>1, IInvEnvironment, IInvPublisher DEF Next

\* The bookkeeping of lock, marker and outcome, in one formula.
THEOREM InvariantCorrect == Spec => []IInv
  BY IInvInit, IInvStep, PTL DEF Spec

\* While no lock connection is dropped a job gets at most one comment.
THEOREM AtMostOneComment == Spec => []OneComment
  BY InvariantCorrect, PTL DEF IInv

\* A source recorded as published has its comment.
THEOREM PublishedMeansPosted == Spec => []PublishedHasComment
  BY InvariantCorrect, PTL DEF IInv

\* What is posted and what is recorded agree.
THEOREM CommentsAreTrue == Spec => []CommentsTrue
  BY AtMostOneComment, PublishedMeansPosted, PTL DEF CommentsTrue

-----------------------------------------------------------------------------
(* Outcomes *)

\* Only the recording statement touches a source, and it leaves decided ones.
LEMMA OutcomeStep ==
    ASSUME TypeOK, [Next]_vars, NEW j \in Jobs, state[j] # "pending"
    PROVE  state'[j] = state[j]
  <1>1. CASE UNCHANGED state
    BY <1>1
  <1>2. ASSUME NEW p \in Publishers, Recorded(p)  PROVE state'[j] = state[j]
    BY <1>2 DEF Recorded, TypeOK
  <1>. QED  BY <1>1, <1>2
            DEF Next, vars, PublishPending, JobEnds, Refuse, Push, SessionEnds, TryLock,
                Select, CheckHead, FindMarker, Write, Mark, Release, WriteFails,
                CallFails, Crash, dbVars

\* The first recorded outcome of a source stands.
THEOREM OutcomesStand == Spec => DecisionStands
  <1>1. TypeOK /\ [Next]_vars
        => [\A j \in Jobs : state[j] # "pending" => state'[j] = state[j]]_vars
    BY OutcomeStep
  <1>. QED  BY <1>1, TypeCorrect, PTL DEF Spec, DecisionStands

=============================================================================

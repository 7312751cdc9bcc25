---------------------------- MODULE IntakeProofs ----------------------------
(***************************************************************************)
(* Proofs about Intake for every set of inputs and deliveries and every    *)
(* bound.  A lemma treats the steps of a request that leave the jobs       *)
(* alone, another one the INSERT, and a third the end of a job.            *)
(***************************************************************************)
EXTENDS Intake, FiniteSetTheorems, TLAPS

-----------------------------------------------------------------------------
(* Types *)

\* The input in hand of a request that is storing one.
Storing(p) == pc[p] \in {"begin", "look", "commit", "get"}

LEMMA InputFact ==
    ASSUME TypeOK, NEW p \in Requests, Storing(p)
    PROVE  /\ Input(p) \in Inputs /\ Input(p).id \in Ids /\ Input(p).content \in Contents
           /\ done[p] + 1 \in DOMAIN inputs[p] /\ Busy(p)
  <1>1. inputs[p] \in Seq(Inputs) /\ done[p] \in Nat /\ done[p] < Len(inputs[p])
    BY DEF TypeOK, Storing
  <1>2. Len(inputs[p]) \in Nat /\ DOMAIN inputs[p] = 1..Len(inputs[p])
    BY <1>1
  <1>3. done[p] + 1 \in DOMAIN inputs[p]
    BY <1>1, <1>2
  <1>4. Input(p) \in Inputs
    BY <1>1, <1>3 DEF Input
  <1>5. Input(p).id \in Ids /\ Input(p).content \in Contents
    BY <1>4 DEF Inputs
  <1>. QED  BY <1>3, <1>4, <1>5 DEF Storing, Busy

LEMMA TypeInit == Init => TypeOK
  BY DEF Init, TypeOK, Busy, Places, Replies

\* Where a request may go once its input has been accepted.
LEMMA TypeAccepted ==
    ASSUME TypeOK, NEW p \in Requests, Storing(p), Accepted(p),
           UNCHANGED <<jobs, current, ask, inputs, faults>>, guard' \in Requests \cup {None}
    PROVE  TypeOK'
  <1>1. /\ ask[p] \in Asks /\ done[p] \in Nat /\ done[p] < Len(inputs[p])
        /\ Len(inputs[p]) \in Nat
    <2>1. Busy(p) /\ inputs[p] \in Seq(Inputs) /\ done[p] \in Nat
      BY InputFact DEF TypeOK
    <2>2. ask[p] \in Asks /\ done[p] < Len(inputs[p])
      BY <2>1 DEF TypeOK, Storing
    <2>. QED  BY <2>1, <2>2
  <1>2. PICK place \in {"idle", "walk"} :
           /\ pc' = [pc EXCEPT ![p] = place]
           /\ done' = [done EXCEPT ![p] = @ + 1]
           /\ place = "walk" => ask[p].kind # "post"
    BY DEF Accepted, Answer, Goto
  <1>3. reply' \in [Requests -> Replies]
    BY DEF Accepted, Answer, Goto, TypeOK, Replies
  <1>4. /\ pc'[p] = place /\ done'[p] = done[p] + 1
        /\ \A q \in Requests : q # p => pc'[q] = pc[q] /\ done'[q] = done[q]
    BY <1>2 DEF TypeOK
  <1>5. pc' \in [Requests -> Places] /\ done' \in [Requests -> Nat]
    BY <1>1, <1>2 DEF TypeOK, Places
  <1>6. ASSUME NEW q \in Requests
        PROVE  /\ Busy(q)' => ask'[q] \in Asks /\ done'[q] <= Len(inputs'[q])
               /\ pc'[q] \in {"head", "walk"} => ask'[q].kind = "hook"
               /\ pc'[q] = "head" => done'[q] = 0
               /\ pc'[q] \in {"begin", "look", "commit", "get"} => done'[q] < Len(inputs'[q])
               /\ Busy(q)' /\ ask'[q].kind = "post"
                     => inputs'[q] = <<ask'[q].input>> /\ done'[q] = 0
    <2>1. CASE q = p
      <3>1. ask[p].kind \in {"post", "hook"}
        BY <1>1 DEF Asks
      <3>. QED  BY <1>1, <1>2, <1>4, <2>1, <3>1 DEF Busy
    <2>2. CASE q # p
      BY <1>4, <2>2 DEF TypeOK, Busy
    <2>. QED  BY <2>1, <2>2
  <1>7. jobs' \in [Ids -> Rows \cup {NoRow}] /\ UNCHANGED <<current, ask, inputs, faults>>
    BY DEF TypeOK
  <1>. QED  BY <1>3, <1>5, <1>6, <1>7 DEF TypeOK

LEMMA TypeInsert ==
    ASSUME TypeOK, NEW p \in Requests, Storing(p), Insert(p)
    PROVE  jobs' \in [Ids -> Rows \cup {NoRow}]
  BY InputFact DEF TypeOK, Insert, Rows

LEMMA TypeRequest ==
    ASSUME TypeOK, NEW p \in Requests,
           Arrive(p) \/ Handle(p) \/ Fails(p) \/ Crash(p) \/ SessionEnds(p)
    PROVE  TypeOK'
  <1>. USE DEF Goto, Answer, Busy, Places, Replies
  <1>1. CASE Arrive(p)
    <2>1. PICK a \in Asks :
             /\ ask' = [ask EXCEPT ![p] = a]
             /\ IF a.kind = "post"
                THEN /\ pc' = [pc EXCEPT ![p] = "begin"]
                     /\ inputs' = [inputs EXCEPT ![p] = <<a.input>>]
                ELSE /\ pc' = [pc EXCEPT ![p] = "head"]
                     /\ inputs' = [inputs EXCEPT ![p] = << >>]
      BY <1>1 DEF Arrive
    <2>2. a.kind \in {"post", "hook"} /\ (a.kind = "post" => a.input \in Inputs)
      BY InputsAssumption DEF Asks
    <2>3. CASE a.kind = "post"
      <3>1. <<a.input>> \in Seq(Inputs) /\ Len(<<a.input>>) = 1
        BY <2>2, <2>3
      <3>2. /\ pc' = [pc EXCEPT ![p] = "begin"] /\ ask' = [ask EXCEPT ![p] = a]
            /\ inputs' = [inputs EXCEPT ![p] = <<a.input>>]
            /\ done' = [done EXCEPT ![p] = 0] /\ reply' = [reply EXCEPT ![p] = "none"]
            /\ UNCHANGED <<jobs, guard, current, faults>>
        BY <1>1, <2>1, <2>3 DEF Arrive
      <3>3. ASSUME NEW i \in Seq(Inputs), i = <<a.input>>, Len(i) = 1,
                   inputs' = [inputs EXCEPT ![p] = i]
            PROVE  TypeOK'
        BY <2>2, <2>3, <3>2, <3>3 DEF TypeOK
      <3>. QED  BY <3>1, <3>2, <3>3
    <2>4. CASE a.kind # "post"
      <3>1. << >> \in Seq(Inputs) /\ Len(<< >>) = 0
        OBVIOUS
      <3>2. /\ pc' = [pc EXCEPT ![p] = "head"] /\ ask' = [ask EXCEPT ![p] = a]
            /\ inputs' = [inputs EXCEPT ![p] = << >>]
            /\ done' = [done EXCEPT ![p] = 0] /\ reply' = [reply EXCEPT ![p] = "none"]
            /\ UNCHANGED <<jobs, guard, current, faults>>
        BY <1>1, <2>1, <2>4 DEF Arrive
      <3>3. a.kind = "hook"
        BY <2>2, <2>4
      <3>4. ASSUME NEW i \in Seq(Inputs), Len(i) = 0, inputs' = [inputs EXCEPT ![p] = i]
            PROVE  TypeOK'
        BY <3>2, <3>3, <3>4 DEF TypeOK
      <3>. QED  BY <3>1, <3>2, <3>4
    <2>. QED  BY <2>3, <2>4
  <1>2. CASE CheckHead(p)
    <2>1. ask[p].kind = "hook" /\ ask[p] \in Asks
      BY <1>2 DEF TypeOK, CheckHead
    <2>2. CASE \E listing \in Listings[ask[p].delivery] :
                  inputs' = [inputs EXCEPT ![p] = listing]
      <3>1. PICK listing \in Listings[ask[p].delivery] :
               inputs' = [inputs EXCEPT ![p] = listing]
        BY <2>2
      <3>2. listing \in Seq(Inputs)
        BY <2>1, <3>1, InputsAssumption DEF Asks
      <3>3. done[p] = 0
        BY <1>2 DEF TypeOK, CheckHead, Busy
      <3>4. Len(listing) \in Nat
        BY <3>2
      <3>5. \/ pc' = [pc EXCEPT ![p] = "walk"] /\ UNCHANGED reply
            \/ /\ pc' = [pc EXCEPT ![p] = "idle"]
               /\ reply' = [reply EXCEPT ![p] = "superseded"]
        BY <1>2 DEF CheckHead
      <3>6. UNCHANGED <<jobs, guard, current, ask, done, faults>>
        BY <1>2 DEF CheckHead
      <3>7. CASE pc' = [pc EXCEPT ![p] = "walk"] /\ UNCHANGED reply
        BY <2>1, <3>1, <3>2, <3>3, <3>4, <3>6, <3>7 DEF TypeOK
      <3>8. CASE pc' = [pc EXCEPT ![p] = "idle"] /\ reply' = [reply EXCEPT ![p] = "superseded"]
        BY <2>1, <3>1, <3>2, <3>3, <3>4, <3>6, <3>8 DEF TypeOK
      <3>. QED  BY <3>5, <3>7, <3>8
    <2>3. CASE UNCHANGED inputs
      BY <1>2, <2>1, <2>3 DEF TypeOK, CheckHead
    <2>. QED  BY <1>2, <2>2, <2>3 DEF CheckHead
  <1>3. CASE Begin(p)
    BY <1>3 DEF TypeOK, Begin
  <1>4. CASE Look(p)
    <2>1. CASE Accepted(p)
      BY <1>4, <2>1, TypeAccepted DEF TypeOK, Look, Storing
    <2>2. ASSUME NEW r \in {"conflict", "unavailable", "full"}, Answer(p, r), UNCHANGED done
          PROVE  TypeOK'
      BY <1>4, <2>2 DEF TypeOK, Look
    <2>3. ASSUME Goto(p, "commit"), UNCHANGED <<done, reply>>  PROVE TypeOK'
      BY <1>4, <2>3 DEF TypeOK, Look
    <2>. QED  BY <1>4, <2>1, <2>2, <2>3 DEF Look, Conflict
  <1>5. CASE Commit(p)
    BY <1>5, TypeInsert DEF TypeOK, Commit, Storing
  <1>6. CASE Get(p)
    BY <1>6, TypeAccepted DEF TypeOK, Get, Storing
  <1>7. CASE GuardWaitEnds(p)
    BY <1>7 DEF TypeOK, GuardWaitEnds
  <1>8. CASE Fails(p)
    <2>1. jobs' \in [Ids -> Rows \cup {NoRow}]
      BY <1>8, TypeInsert DEF TypeOK, Fails, Storing
    <2>. QED  BY <1>8, <2>1 DEF TypeOK, Fails, Fault
  <1>9. CASE Crash(p)
    BY <1>9 DEF TypeOK, Crash, Fault
  <1>10. CASE SessionEnds(p)
    BY <1>10 DEF TypeOK, SessionEnds
  <1>11. CASE Walk(p)
    <2>1. /\ done[p] \in Nat /\ inputs[p] \in Seq(Inputs) /\ done[p] <= Len(inputs[p])
          /\ ask[p] \in Asks /\ ask[p].kind = "hook"
      BY <1>11 DEF TypeOK, Walk
    <2>2. Len(inputs[p]) \in Nat
      BY <2>1
    <2>3. CASE Goto(p, "begin") /\ UNCHANGED reply /\ done[p] < Len(inputs[p])
      BY <1>11, <2>1, <2>2, <2>3 DEF TypeOK, Walk
    <2>4. ASSUME NEW r \in {"accepted", "limit", "refused"}, Answer(p, r)  PROVE TypeOK'
      BY <1>11, <2>1, <2>4 DEF TypeOK, Walk
    <2>. QED  BY <1>11, <2>3, <2>4 DEF Walk
  <1>. QED  BY <1>1, <1>2, <1>3, <1>4, <1>5, <1>6, <1>7, <1>8, <1>9, <1>10, <1>11 DEF Handle

LEMMA TypeStep == TypeOK /\ [Next]_vars => TypeOK'
  <1>1. ASSUME TypeOK, NEW id \in Ids, JobEnds(id)  PROVE TypeOK'
    <2>1. jobs[id] \in Rows
      BY <1>1 DEF TypeOK, JobEnds, NoRow
    <2>2. jobs' = [jobs EXCEPT ![id] = [jobs[id] EXCEPT !.open = FALSE]]
      BY <1>1 DEF JobEnds
    <2>3. [jobs[id] EXCEPT !.open = FALSE] \in Rows
      BY <2>1 DEF Rows
    <2>. QED  BY <1>1, <2>2, <2>3 DEF TypeOK, JobEnds, Busy
  <1>2. ASSUME TypeOK, NEW d \in Deliveries, HeadMoves(d)  PROVE TypeOK'
    BY <1>2 DEF TypeOK, HeadMoves, Busy
  <1>3. ASSUME TypeOK, UNCHANGED vars  PROVE TypeOK'
    BY <1>3 DEF TypeOK, vars, Busy
  <1>. QED  BY <1>1, <1>2, <1>3, TypeRequest DEF Next

\* Every variable keeps its type, and a busy request has an input left.
THEOREM TypeCorrect == Spec => []TypeOK
  BY TypeInit, TypeStep, PTL DEF Spec

-----------------------------------------------------------------------------
(* The invariant, request by request *)

\* The part of the invariant that is about one request.
Mine(p) ==
    /\ pc[p] \in {"look", "commit"} => guard = p
    /\ pc[p] = "commit" => ~Stored(Input(p).id) /\ Cardinality(Open) < Limit
    /\ pc[p] # "idle" => reply[p] = "none"
    /\ pc[p] = "get" => Stored(Input(p).id) /\ SameDelivery(p)
    /\ Busy(p) => \A n \in 1..done[p] :
          LET i == inputs[p][n] IN Stored(i.id) /\ jobs[i.id].content = i.content
    /\ reply[p] \in {"accepted", "limit"} =>
          /\ reply[p] = "accepted" => done[p] = Len(inputs[p])
          /\ \A n \in 1..done[p] :
                LET i == inputs[p][n] IN Stored(i.id) /\ jobs[i.id].content = i.content
    /\ reply[p] = "conflict" =>
          Stored(Input(p).id) /\ jobs[Input(p).id].content # Input(p).content

LEMMA IInvSplit ==
    IInv <=> /\ TypeOK /\ BacklogBounded
             /\ \A p \in Requests : Mine(p)
  BY DEF IInv, Mine, Serialized, Progress, AcceptedComplete, ConflictsAreReal

LEMMA IInvJoin ==
    ASSUME TypeOK', BacklogBounded', \A p \in Requests : Mine(p)'
    PROVE  IInv'
  BY DEF IInv, Mine, Serialized, Progress, AcceptedComplete, ConflictsAreReal

\* What is stored stays stored with its content.
Keeps == \A id : Stored(id) => Stored(id)' /\ jobs'[id].content = jobs[id].content

\* A request that does not move keeps its part when the jobs are kept and the
\* guard row is not taken from it.
LEMMA Bystander ==
    ASSUME IInv, NEW q \in Requests, Keeps,
           pc'[q] = pc[q], inputs'[q] = inputs[q], done'[q] = done[q], reply'[q] = reply[q],
           guard = q => guard' = q,
           pc[q] = "commit" => ~Stored(Input(q).id)' /\ Cardinality(Open)' < Limit
    PROVE  Mine(q)'
  <1>1. Mine(q)
    BY IInvSplit
  <1>2. Input(q)' = Input(q)
    BY DEF Input
  <1>3. SameDelivery(q) /\ Stored(Input(q).id) => SameDelivery(q)'
    BY <1>2 DEF SameDelivery, Keeps
  <1>. QED  BY <1>1, <1>2, <1>3 DEF Mine, Keeps, Busy

\* The open jobs can be counted.
LEMMA OpenFinite == IsFiniteSet(Open) /\ Cardinality(Open) \in Nat
  BY InputsAssumption, FS_Subset, FS_CardinalityType DEF Open

\* The steps of a request that leave the jobs alone.
LEMMA IInvQuiet ==
    ASSUME IInv, TypeOK', NEW p \in Requests, UNCHANGED jobs, Mine(p)',
           \A q \in Requests : q # p => /\ pc'[q] = pc[q] /\ inputs'[q] = inputs[q]
                                       /\ done'[q] = done[q] /\ reply'[q] = reply[q],
           guard' = guard \/ (guard = p /\ guard' = None) \/ (guard = None /\ guard' = p)
    PROVE  IInv'
  <1>1. Keeps /\ Open' = Open
    BY DEF Keeps, Stored, Open
  <1>2. ASSUME NEW q \in Requests, q # p  PROVE Mine(q)'
    <2>1. Input(q)' = Input(q)
      BY <1>2 DEF Input
    <2>2. guard = q => guard' = q
      BY <1>2, BoundsAssumption
    <2>3. pc[q] = "commit" => ~Stored(Input(q).id)' /\ Cardinality(Open)' < Limit
      BY <1>1, <2>1, IInvSplit DEF Mine, Stored
    <2>. QED  BY <1>1, <1>2, <2>2, <2>3, Bystander
  <1>3. BacklogBounded'
    BY <1>1, IInvSplit DEF BacklogBounded
  <1>. QED  BY <1>2, <1>3, IInvJoin

\* The next input begins, or the request ends, with nothing accepted wrongly.
LEMMA MineAccepted ==
    ASSUME IInv, NEW p \in Requests, Storing(p), Accepted(p), UNCHANGED <<jobs, ask, inputs>>,
           Stored(Input(p).id), SameDelivery(p)
    PROVE  Mine(p)'
  <1>1. /\ TypeOK /\ Mine(p) /\ Busy(p)
        /\ ask[p] \in Asks /\ done[p] \in Nat
        /\ inputs[p] \in Seq(Inputs) /\ Len(inputs[p]) \in Nat
        /\ ask[p].kind = "post" => Len(inputs[p]) = 1 /\ done[p] = 0
    <2>1. TypeOK /\ Mine(p) /\ Busy(p)
      BY IInvSplit DEF Storing, Busy
    <2>2. /\ ask[p] \in Asks /\ done[p] \in Nat /\ inputs[p] \in Seq(Inputs)
          /\ ask[p].kind = "post" => inputs[p] = <<ask[p].input>> /\ done[p] = 0
      BY <2>1 DEF TypeOK
    <2>3. Len(<<ask[p].input>>) = 1 /\ Len(inputs[p]) \in Nat
      BY <2>2
    <2>. QED  BY <2>1, <2>2, <2>3
  <1>2. done'[p] = done[p] + 1
    BY <1>1 DEF Accepted, TypeOK
  <1>3. \A n \in 1..done'[p] :
           LET i == inputs[p][n] IN Stored(i.id) /\ jobs[i.id].content = i.content
    <2>1. ASSUME NEW n \in 1..done'[p]
          PROVE  LET i == inputs[p][n]
                 IN  Stored(i.id) /\ jobs[i.id].content = i.content
      <3>1. CASE n = done[p] + 1
        BY <3>1 DEF Input, SameDelivery
      <3>2. CASE n # done[p] + 1
        <4>1. n \in 1..done[p]
          BY <1>1, <1>2, <3>2
        <4>. QED  BY <1>1, <4>1 DEF Mine
      <3>. QED  BY <3>1, <3>2
    <2>. QED  BY <2>1
  <1>4. CASE ask[p].kind = "post"
    <2>1. pc'[p] = "idle" /\ reply'[p] = "accepted" /\ done'[p] = Len(inputs[p])
      BY <1>1, <1>2, <1>4 DEF Accepted, Answer, Goto, TypeOK
    <2>. QED  BY <1>3, <2>1 DEF Mine, Busy, Stored
  <1>5. CASE ask[p].kind # "post"
    <2>1. pc'[p] = "walk" /\ reply'[p] = "none"
      BY <1>1, <1>5 DEF Accepted, Goto, TypeOK, Mine, Busy
    <2>. QED  BY <1>3, <2>1 DEF Mine, Busy, Stored
  <1>. QED  BY <1>4, <1>5

\* The steps of a request other than Commit, and Fails with effect.
LEMMA IInvReads ==
    ASSUME IInv, TypeOK', NEW p \in Requests, UNCHANGED jobs,
           Arrive(p) \/ Handle(p) \/ Fails(p) \/ Crash(p) \/ SessionEnds(p)
    PROVE  IInv'
  <1>. USE DEF Goto, Answer
  <1>1. TypeOK /\ Mine(p) /\ Open' = Open
    BY IInvSplit DEF Open
  <1>2. CASE Arrive(p)
    <2>1. Mine(p)'
      BY <1>1, <1>2, BoundsAssumption DEF Arrive, Mine, Busy, TypeOK
    <2>. QED  BY <1>1, <1>2, <2>1, IInvQuiet DEF Arrive, TypeOK
  <1>3. CASE CheckHead(p)
    <2>1. done[p] = 0 \/ UNCHANGED inputs
      BY <1>1, <1>3 DEF CheckHead, TypeOK, Busy
    <2>2. Mine(p)'
      BY <1>1, <1>3, <2>1, BoundsAssumption DEF CheckHead, Mine, Busy, TypeOK, Stored
    <2>. QED  BY <1>1, <1>3, <2>2, IInvQuiet DEF CheckHead, TypeOK
  <1>4. CASE Begin(p)
    <2>1. Mine(p)'
      BY <1>1, <1>4 DEF Begin, Mine, Busy, TypeOK, Stored
    <2>. QED  BY <1>1, <1>4, <2>1, IInvQuiet DEF Begin, TypeOK
  <1>5. CASE Look(p)
    <2>1. guard = p /\ Busy(p) /\ Storing(p) /\ Input(p).id \in Ids
      BY <1>1, <1>5, InputFact DEF Look, Mine, Busy, Storing
    <2>2. CASE Stored(Input(p).id) /\ SameDelivery(p)
      <3>1. Accepted(p) /\ guard' = None /\ UNCHANGED <<ask, inputs>>
        BY <1>5, <2>2 DEF Look
      <3>2. Mine(p)'
        BY <2>1, <2>2, <3>1, MineAccepted
      <3>. QED  BY <1>1, <2>1, <3>1, <3>2, IInvQuiet DEF Accepted, TypeOK
    <2>3. CASE Stored(Input(p).id) /\ ~SameDelivery(p)
      <3>1. Input(p)' = Input(p)
        BY <1>5, <2>3 DEF Look, Input
      <3>2. Mine(p)'
        BY <1>1, <1>5, <2>3, <3>1 DEF Look, Mine, Busy, TypeOK, SameDelivery, Stored, Conflict
      <3>. QED  BY <1>1, <1>5, <2>1, <2>3, <3>2, IInvQuiet DEF Look, TypeOK
    <2>4. CASE ~Stored(Input(p).id) /\ Cardinality(Open) >= Limit
      <3>1. ~(Cardinality(Open) < Limit)
        BY <2>4, OpenFinite, BoundsAssumption
      <3>2. Mine(p)'
        BY <1>1, <1>5, <2>4, <3>1 DEF Look, Mine, Busy, TypeOK
      <3>. QED  BY <1>1, <1>5, <2>1, <2>4, <3>1, <3>2, IInvQuiet DEF Look, TypeOK
    <2>5. CASE ~Stored(Input(p).id) /\ Cardinality(Open) < Limit
      <3>1. ~(Cardinality(Open) >= Limit)
        BY <2>5, OpenFinite, BoundsAssumption
      <3>2. Input(p)' = Input(p)
        BY <1>5, <2>5, <3>1 DEF Look, Input
      <3>3. Mine(p)'
        BY <1>1, <1>5, <2>1, <2>5, <3>1, <3>2 DEF Look, Mine, Busy, TypeOK, Stored
      <3>. QED  BY <1>1, <1>5, <2>5, <3>1, <3>3, IInvQuiet DEF Look, TypeOK
    <2>. QED  BY <2>2, <2>3, <2>4, <2>5, OpenFinite, BoundsAssumption
  <1>6. CASE Commit(p)
    <2>1. Stored(Input(p).id)
      <3>1. Input(p).id \in Ids /\ Input(p).content \in Contents
        BY <1>1, <1>6, InputFact DEF Commit, Storing
      <3>2. jobs[Input(p).id].trace = p
        BY <1>1, <1>6, <3>1 DEF Commit, Insert, TypeOK
      <3>. QED  BY <3>2, BoundsAssumption DEF Stored, NoRow
    <2>. QED  BY <1>1, <1>6, <2>1 DEF Mine, Commit
  <1>7. CASE Get(p)
    <2>1. Mine(p)'
      BY <1>1, <1>7, MineAccepted DEF Get, Mine, Storing
    <2>. QED  BY <1>1, <1>7, <2>1, IInvQuiet DEF Get, Accepted, TypeOK
  <1>8. CASE GuardWaitEnds(p)
    <2>1. Mine(p)'
      BY <1>1, <1>8 DEF GuardWaitEnds, Mine, Busy, TypeOK
    <2>. QED  BY <1>1, <1>8, <2>1, IInvQuiet DEF GuardWaitEnds, TypeOK
  <1>9. CASE Fails(p)
    <2>1. Mine(p)'
      BY <1>1, <1>9 DEF Fails, Mine, Busy, TypeOK
    <2>. QED  BY <1>1, <1>9, <2>1, IInvQuiet DEF Fails, TypeOK
  <1>10. CASE Crash(p)
    <2>1. Mine(p)'
      BY <1>1, <1>10 DEF Crash, Mine, Busy, TypeOK
    <2>. QED  BY <1>1, <1>10, <2>1, IInvQuiet DEF Crash, TypeOK
  <1>11. CASE SessionEnds(p)
    <2>1. Mine(p)'
      BY <1>1, <1>11 DEF SessionEnds, Mine, Busy, TypeOK
    <2>. QED  BY <1>1, <1>11, <2>1, IInvQuiet DEF SessionEnds, TypeOK
  <1>12. CASE Walk(p)
    <2>1. Mine(p)'
      BY <1>1, <1>12 DEF Walk, Mine, Busy, TypeOK, Stored
    <2>. QED  BY <1>1, <1>12, <2>1, IInvQuiet DEF Walk, TypeOK
  <1>. QED  BY <1>2, <1>3, <1>4, <1>5, <1>6, <1>7, <1>8, <1>9, <1>10, <1>11, <1>12 DEF Handle

-----------------------------------------------------------------------------
(* The steps that change jobs *)

\* The INSERT of the only transaction that has passed its checks.
LEMMA IInvInsert ==
    ASSUME IInv, TypeOK', NEW p \in Requests, pc[p] = "commit", Insert(p), Mine(p)',
           \A q \in Requests : q # p => /\ pc'[q] = pc[q] /\ inputs'[q] = inputs[q]
                                       /\ done'[q] = done[q] /\ reply'[q] = reply[q]
    PROVE  IInv'
  <1>. DEFINE id == Input(p).id
  <1>1. /\ TypeOK /\ Mine(p) /\ Busy(p) /\ id \in Ids
        /\ guard = p /\ ~Stored(id) /\ Cardinality(Open) < Limit
    BY IInvSplit, InputFact DEF Mine, Storing
  <1>2. /\ \A k \in Ids : k # id => jobs'[k] = jobs[k]
        /\ jobs'[id].open = TRUE
        /\ DOMAIN jobs' = Ids /\ DOMAIN jobs = Ids
    BY <1>1 DEF Insert, TypeOK
  <1>3. Keeps
    BY <1>1 DEF Insert, Keeps, Stored, TypeOK
  <1>4. ASSUME NEW q \in Requests, q # p  PROVE Mine(q)'
    <2>1. guard # q /\ pc[q] # "commit"
      BY <1>1, <1>4, IInvSplit DEF Mine
    <2>. QED  BY <1>3, <1>4, <2>1, Bystander
  <1>5. BacklogBounded'
    <2>1. Open' = Open \cup {id} /\ id \notin Open
      BY <1>1, <1>2 DEF Open, Stored, NoRow, TypeOK
    <2>2. Cardinality(Open') = Cardinality(Open) + 1
      BY <2>1, OpenFinite, FS_AddElement
    <2>. QED  BY <1>1, <2>2, OpenFinite, BoundsAssumption DEF BacklogBounded
  <1>. QED  BY <1>4, <1>5, IInvJoin

\* The end of a job makes room and changes nothing else.
LEMMA IInvJobEnds ==
    ASSUME IInv, TypeOK', NEW id \in Ids, JobEnds(id)
    PROVE  IInv'
  <1>1. /\ TypeOK /\ jobs[id].open /\ jobs[id] \in Rows
    BY DEF IInv, TypeOK, JobEnds, NoRow
  <1>2. /\ jobs' = [jobs EXCEPT ![id] = [jobs[id] EXCEPT !.open = FALSE]]
        /\ UNCHANGED <<guard, pc, inputs, done, reply>>
    BY DEF JobEnds
  <1>3. /\ \A k \in Ids : k # id => jobs'[k] = jobs[k]
        /\ jobs'[id].open = FALSE /\ jobs'[id].content = jobs[id].content
        /\ jobs'[id].trace \in Requests /\ jobs[id].trace \in Requests
    BY <1>1, <1>2 DEF TypeOK, Rows
  <1>4. \A k : Stored(k)' <=> Stored(k)
    <2>1. Stored(id) /\ Stored(id)'
      BY <1>3, BoundsAssumption DEF Stored, NoRow
    <2>2. \A k : k # id => jobs'[k] = jobs[k]
      BY <1>1, <1>2 DEF TypeOK
    <2>. QED  BY <2>1, <2>2 DEF Stored
  <1>5. Keeps
    <2>1. \A k : k # id => jobs'[k] = jobs[k]
      BY <1>1, <1>2 DEF TypeOK
    <2>. QED  BY <1>3, <1>4, <2>1 DEF Keeps
  <1>6. Open' \subseteq Open
    BY <1>1, <1>3 DEF Open
  <1>7. Cardinality(Open') <= Cardinality(Open) /\ Cardinality(Open') \in Nat
    BY <1>6, OpenFinite, FS_Subset, FS_CardinalityType
  <1>8. ASSUME NEW q \in Requests  PROVE Mine(q)'
    <2>1. Input(q)' = Input(q)
      BY <1>2 DEF Input
    <2>2. pc[q] = "commit" => ~Stored(Input(q).id)' /\ Cardinality(Open)' < Limit
      BY <1>4, <1>7, <2>1, OpenFinite, BoundsAssumption, IInvSplit DEF Mine
    <2>. QED  BY <1>2, <1>5, <2>2, Bystander
  <1>9. BacklogBounded'
    BY <1>7, OpenFinite, BoundsAssumption, IInvSplit DEF BacklogBounded
  <1>. QED  BY <1>8, <1>9, IInvJoin

-----------------------------------------------------------------------------
(* The theorems *)

LEMMA IInvInit == Init => IInv
  <1>1. ASSUME Init  PROVE IInv
    <2>1. TypeOK
      BY <1>1, TypeInit
    <2>2. \A id \in Ids : ~Stored(id) /\ ~jobs[id].open
      BY <1>1 DEF Init, Stored, NoRow
    <2>3. BacklogBounded
      <3>1. Open = {}
        BY <2>2 DEF Open
      <3>. QED  BY <3>1, FS_EmptySet, BoundsAssumption DEF BacklogBounded
    <2>5. \A p \in Requests : Mine(p)
      BY <1>1 DEF Init, Mine, Busy
    <2>. QED  BY <2>1, <2>3, <2>5, IInvSplit
  <1>. QED  BY <1>1

LEMMA IInvRequest ==
    ASSUME IInv, NEW p \in Requests,
           Arrive(p) \/ Handle(p) \/ Fails(p) \/ Crash(p) \/ SessionEnds(p)
    PROVE  IInv'
  <1>1. TypeOK /\ TypeOK' /\ Mine(p)
    BY TypeRequest, IInvSplit
  <1>2. CASE UNCHANGED jobs
    BY <1>1, <1>2, IInvReads
  <1>3. CASE Commit(p)
    <2>1. Input(p)' = Input(p) /\ Input(p).id \in Ids
      BY <1>1, <1>3, InputFact DEF Commit, Input, Storing
    <2>2. jobs'[Input(p).id] = [content |-> Input(p).content, trace |-> p, open |-> TRUE]
      BY <1>1, <1>3, <2>1 DEF Commit, Insert, TypeOK
    <2>3. Stored(Input(p).id)' /\ SameDelivery(p)'
      BY <2>1, <2>2, BoundsAssumption DEF Stored, NoRow, SameDelivery
    <2>4. \A k : Stored(k) => Stored(k)' /\ jobs'[k].content = jobs[k].content
      BY <1>1, <1>3, <2>2, <2>3 DEF Commit, Insert, Mine, Stored, TypeOK
    <2>5. Mine(p)'
      <3>1. pc[p] = "commit" /\ pc'[p] = "get" /\ UNCHANGED <<inputs, done, reply>>
        BY <1>1, <1>3 DEF Commit, Goto, TypeOK
      <3>2. reply[p] = "none"
        BY <1>1, <3>1 DEF Mine, Busy
      <3>3. \A n \in 1..done[p] :
               LET i == inputs[p][n]
               IN  Stored(i.id)' /\ jobs'[i.id].content = i.content
        BY <1>1, <2>4, <3>1 DEF Mine, Busy
      <3>4. Stored(Input(p).id)' /\ SameDelivery(p)' /\ UNCHANGED Input(p)
        BY <2>1, <2>3
      <3>. QED  BY <3>1, <3>2, <3>3, <3>4 DEF Mine, Busy, Stored
    <2>. QED  BY <1>1, <1>3, <2>5, IInvInsert DEF Commit, Goto, TypeOK
  <1>4. CASE Fails(p) /\ pc[p] = "commit" /\ Insert(p)
    <2>1. Mine(p)'
      BY <1>1, <1>4 DEF Fails, Answer, Goto, Mine, Busy, TypeOK
    <2>. QED  BY <1>1, <1>4, <2>1, IInvInsert DEF Fails, Answer, Goto, TypeOK
  <1>. QED  BY <1>2, <1>3, <1>4
            DEF Arrive, Handle, CheckHead, Walk, Begin, Look, Get, GuardWaitEnds, Fails, Crash,
                SessionEnds

LEMMA IInvStep == IInv /\ [Next]_vars => IInv'
  <1>1. ASSUME IInv, NEW id \in Ids, JobEnds(id)  PROVE IInv'
    BY <1>1, TypeStep, IInvJobEnds DEF IInv, Next
  <1>2. ASSUME IInv, UNCHANGED <<jobs, guard, pc, inputs, done, reply>>, TypeOK'
        PROVE  IInv'
    BY <1>2 DEF IInv, Serialized, Progress, BacklogBounded, AcceptedComplete,
                ConflictsAreReal, Stored, Open, Input, SameDelivery, Busy
  <1>3. ASSUME IInv, NEW d \in Deliveries, HeadMoves(d)  PROVE IInv'
    BY <1>2, <1>3, TypeStep DEF IInv, Next, HeadMoves
  <1>4. ASSUME IInv, UNCHANGED vars  PROVE IInv'
    BY <1>2, <1>4, TypeStep DEF IInv, vars
  <1>. QED  BY <1>1, <1>3, <1>4, IInvRequest DEF Next

\* Transactions are serialized by the guard row, and what is accepted is stored.
THEOREM InvariantCorrect == Spec => []IInv
  BY IInvInit, IInvStep, PTL DEF Spec

\* At most Limit jobs are open, however many requests race.
THEOREM BacklogIsBounded == Spec => []BacklogBounded
  BY InvariantCorrect, PTL DEF IInv

\* An accepted request has its jobs, with its own contents.
THEOREM AcceptedIsStored == Spec => []AcceptedComplete
  BY InvariantCorrect, PTL DEF IInv

\* A conflict is never the answer to a retry.
THEOREM ConflictsDiffer == Spec => []ConflictsAreReal
  BY InvariantCorrect, PTL DEF IInv

\* What requests are told is true of the stored jobs, whatever is listed to each
\* copy of a delivery and whichever inputs share an identifier.
THEOREM RepliesAreTrue == Spec => []RepliesTrue
  BY AcceptedIsStored, ConflictsDiffer, PTL DEF RepliesTrue

LEMMA FullStep ==
    ASSUME IInv, [Next]_vars, NEW p \in Requests, reply'[p] = "full", Busy(p)
    PROVE  ~Stored(Input(p).id)
  <1>. USE DEF Answer, Goto
  <1>1. TypeOK /\ reply[p] = "none"
    BY IInvSplit DEF Mine, Busy
  <1>2. ~UNCHANGED reply
    BY <1>1
  <1>3. PICK q \in Requests : Arrive(q) \/ Handle(q) \/ Fails(q) \/ Crash(q) \/ SessionEnds(q)
    BY <1>2 DEF Next, vars, JobEnds, HeadMoves
  <1>4. q = p
    BY <1>1, <1>3 DEF Arrive, Handle, CheckHead, Walk, Begin, Look, Accepted, Commit, Get,
                      Conflict, GuardWaitEnds, Fails, Crash, SessionEnds, TypeOK
  <1>5. Look(p) /\ ~Accepted(p)
    BY <1>1, <1>3, <1>4 DEF Arrive, Handle, CheckHead, Walk, Begin, Look, Accepted, Commit, Get,
                            Conflict, GuardWaitEnds, Fails, Crash, SessionEnds, TypeOK
  <1>6. reply'[p] # "conflict"
    OBVIOUS
  <1>. QED  BY <1>1, <1>5, <1>6 DEF Look, Conflict, TypeOK

\* Only an input that is not stored yet is turned away by a full backlog.
THEOREM FullIsForNew == Spec => FullOnlyForNew
  <1>1. IInv /\ [Next]_vars
        => [\A p \in Requests : reply'[p] = "full" /\ Busy(p) => ~Stored(Input(p).id)]_vars
    BY FullStep
  <1>. QED  BY <1>1, InvariantCorrect, PTL DEF Spec, FullOnlyForNew

=============================================================================

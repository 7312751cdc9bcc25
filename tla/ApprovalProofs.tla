---------------------------- MODULE ApprovalProofs ----------------------------
(***************************************************************************)
(* Proofs about Approval, for any jobs, reviewers, reports and deliveries: *)
(* decisions are about the report the job keeps, are audited once, stand,  *)
(* and are the only way to a benchmark job.                                *)
(***************************************************************************)
EXTENDS Approval, TLAPS

\* What a well-formed request consists of.
LEMMA AskFields ==
    ASSUME NEW a \in Asks
    PROVE  /\ a.job \in Jobs /\ a.report \in Reports
           /\ a.kind = "decide" => a.decision \in Decisions
           /\ a.kind = "measure" => a.delivery \in Deliveries
  BY DEF Asks

\* What a decision stores is a row, and so is what a benchmark order stores.
LEMMA RowTypes ==
    ASSUME NEW c \in Clients, ask[c] \in Asks
    PROVE  /\ ask[c].kind = "decide" => Entry(c) \in Entries /\ Entry(c) # None
           /\ Order(c) \in Orders /\ Order(c) # None
  BY AskFields, NoneAssumption DEF Entry, Order, Entries, Orders

-----------------------------------------------------------------------------
(* Types *)

LEMMA TypeInit == Init => TypeOK
  BY DEF Init, TypeOK, Statuses

LEMMA TypeRequest ==
    ASSUME TypeOK, NEW c \in Clients, Request(c)
    PROVE  TypeOK'
  <1>1. CASE Ask(c)
    BY <1>1 DEF TypeOK, Ask, Goto, jobVars, tableVars, benchVars
  <1>2. CASE ReadJob(c)
    <2>1. ask[c] \in Asks /\ ask[c].job \in Jobs
      BY <1>2, AskFields DEF TypeOK, ReadJob
    <2>. QED  BY <1>2, <2>1 DEF TypeOK, ReadJob, Goto, jobVars, tableVars, benchVars
  <1>3. CASE ReadReport(c)
    <2>1. ask[c].kind \in {"decide", "measure"}
      BY <1>3 DEF TypeOK, ReadReport, Asks
    <2>. QED  BY <1>3, <2>1
              DEF TypeOK, ReadReport, Goto, Answer, jobVars, tableVars, benchVars
  <1>4. CASE Insert(c)
    BY <1>4, AskFields DEF TypeOK, Insert, Goto, jobVars, benchVars
  <1>13. CASE InsertFails(c)
    BY <1>13 DEF TypeOK, InsertFails, Goto, Fault, jobVars, tableVars, benchVars
  <1>5. ASSUME pc[c] = "commit", Committed(c)
        PROVE  approvals' \in [Jobs -> Entries \cup {None}] /\ audit' \in [Jobs -> Nat]
    BY <1>5, RowTypes, AskFields DEF TypeOK, Committed
  <1>6. CASE Commit(c)
    BY <1>5, <1>6 DEF TypeOK, Commit, Answer, Goto, jobVars, benchVars
  <1>7. CASE CommitFails(c)
    <2>1. approvals' \in [Jobs -> Entries \cup {None}] /\ audit' \in [Jobs -> Nat]
      BY <1>5, <1>7 DEF TypeOK, CommitFails
    <2>2. inserting' \in [Jobs -> Clients \cup {None}]
      BY <1>7 DEF TypeOK, CommitFails
    <2>. QED  BY <1>7, <2>1, <2>2
              DEF TypeOK, CommitFails, Answer, Goto, Fault, jobVars, benchVars
  <1>8. CASE Compare(c)
    BY <1>8 DEF TypeOK, Compare, Answer, Goto, jobVars, tableVars, benchVars
  <1>9. CASE ReadApproval(c)
    BY <1>9 DEF TypeOK, ReadApproval, Answer, Goto, jobVars, tableVars, benchVars
  <1>10. ASSUME pc[c] = "receive", Received(c)
         PROVE  benchmarks' \in [Deliveries -> Orders \cup {None}]
    BY <1>10, RowTypes, AskFields DEF TypeOK, Received
  <1>11. CASE Receive(c)
    <2>1. benchmarks' \in [Deliveries -> Orders \cup {None}]
      BY <1>10, <1>11 DEF TypeOK, Receive
    <2>2. \E r \in {"ordered", "refused"} : Answer(c, r)
      BY <1>11 DEF Receive
    <2>. QED  BY <1>11, <2>1, <2>2 DEF TypeOK, Receive, Answer, Goto, jobVars, tableVars
  <1>12. CASE RequestFails(c)
    BY <1>10, <1>12 DEF TypeOK, RequestFails, Answer, Goto, Fault, jobVars, tableVars
  <1>. QED  BY <1>1, <1>2, <1>3, <1>4, <1>6, <1>7, <1>8, <1>9, <1>11, <1>12, <1>13
         DEF Request

LEMMA TypeStep == TypeOK /\ [Next]_vars => TypeOK'
  <1>1. ASSUME TypeOK, NEW j \in Jobs, SaveReport(j) \/ JobEnds(j)  PROVE TypeOK'
    BY <1>1 DEF TypeOK, SaveReport, JobEnds, Statuses, tableVars, benchVars
  <1>2. ASSUME TypeOK, NEW d \in Deliveries, Measure(d)  PROVE TypeOK'
    BY <1>2 DEF TypeOK, Measure, jobVars, tableVars
  <1>3. ASSUME TypeOK, UNCHANGED vars  PROVE TypeOK'
    BY <1>3 DEF TypeOK, vars, jobVars, tableVars, benchVars
  <1>. QED  BY <1>1, <1>2, <1>3, TypeRequest DEF Next

\* Every variable keeps its type, and every request its kind.
THEOREM TypeCorrect == Spec => []TypeOK
  BY TypeInit, TypeStep, PTL DEF Spec

-----------------------------------------------------------------------------
(* The inductive invariant *)

LEMMA IInvInit == Init => IInv
  BY TypeInit
     DEF Init, IInv, Checked, ApprovalIsCurrent, AuditComplete, RepliesHold,
         BenchmarksApproved

\* Workers write no report that a decision is about, or that was checked.
LEMMA IInvWorker ==
    ASSUME IInv, NEW j \in Jobs, SaveReport(j) \/ JobEnds(j)
    PROVE  IInv'
  <1>. DEFINE Frozen(k) == status'[k] = status[k] /\ report'[k] = report[k]
  <1>1. /\ TypeOK /\ TypeOK'
        /\ UNCHANGED <<approvals, audit, inserting, benchmarks, measured, pc, ask, seen, reply>>
    BY TypeStep DEF IInv, Next, SaveReport, JobEnds, tableVars, benchVars
  <1>2. \A k \in Jobs : status[k] = "COMPLETED" => Frozen(k)
    BY <1>1 DEF SaveReport, JobEnds, TypeOK
  <1>3. Checked'
    <2>1. \A c \in Clients : pc[c] # "idle" => ask[c].job \in Jobs
      BY <1>1, AskFields DEF TypeOK
    <2>2. \A c \in Clients :
             pc[c] # "idle" /\ pc[c] # "job" /\ seen[c] = "COMPLETED" => Frozen(ask[c].job)
      BY <1>2, <2>1 DEF IInv, Checked
    <2>3. \A c \in Clients :
             pc[c] \in {"insert", "commit", "compare", "approval", "receive"} =>
                Reviewable(c) /\ Reviewable(c)'
      BY <1>1, <2>2 DEF IInv, Checked, Reviewable
    <2>. QED  BY <1>1, <2>2, <2>3 DEF IInv, Checked, Approves
  <1>4. ApprovalIsCurrent'
    BY <1>1, <1>2 DEF IInv, ApprovalIsCurrent
  <1>5. BenchmarksApproved'
    BY <1>1, <1>2 DEF IInv, BenchmarksApproved, ApprovalIsCurrent, TypeOK, Orders
  <1>6. AuditComplete' /\ RepliesHold'
    BY <1>1 DEF IInv, AuditComplete, RepliesHold, Entry
  <1>. QED  BY <1>1, <1>3, <1>4, <1>5, <1>6 DEF IInv

\* The Runner's check changes nothing the invariant is about, except measured.
LEMMA IInvMeasure ==
    ASSUME IInv, NEW d \in Deliveries, Measure(d)
    PROVE  IInv'
  <1>1. /\ TypeOK'
        /\ UNCHANGED <<status, report, approvals, audit, inserting, benchmarks,
                       pc, ask, seen, reply>>
        /\ measured' \subseteq measured \cup {d} /\ benchmarks[d] # None
    BY TypeStep DEF IInv, Next, Measure, jobVars, tableVars
  <1>. QED  BY <1>1
            DEF IInv, Checked, Reviewable, Approves, ApprovalIsCurrent, AuditComplete,
                RepliesHold, Entry, BenchmarksApproved

\* A request that touches no table keeps the invariant when what it checked holds.
LEMMA IInvReads ==
    ASSUME IInv, TypeOK', NEW c \in Clients,
           UNCHANGED <<status, report, approvals, audit, inserting, benchmarks, measured>>,
           \A b \in Clients : b # c => /\ pc'[b] = pc[b] /\ ask'[b] = ask[b]
                                       /\ seen'[b] = seen[b] /\ reply'[b] = reply[b],
           \/ pc'[c] = "job" /\ reply'[c] = "none"
           \/ /\ pc'[c] = "report" /\ pc[c] = "job" /\ ask'[c] = ask[c]
              /\ seen'[c] = status[ask[c].job]
              /\ reply'[c] = reply[c]
           \/ /\ pc'[c] \in {"insert", "approval"} /\ Reviewable(c)
              /\ pc[c] = "report"
              /\ ask'[c] = ask[c] /\ seen'[c] = seen[c] /\ reply'[c] = reply[c]
           \/ /\ pc'[c] = "compare" /\ pc[c] = "insert"
              /\ ask'[c] = ask[c] /\ seen'[c] = seen[c] /\ reply'[c] = reply[c]
           \/ /\ pc'[c] = "receive" /\ Approves(ask[c].job, ask[c].report)
              /\ pc[c] = "approval"
              /\ ask'[c] = ask[c] /\ seen'[c] = seen[c] /\ reply'[c] = reply[c]
           \/ /\ pc'[c] = "idle"
              /\ reply'[c] = "decided" => approvals[ask[c].job] = Entry(c)
              /\ ask'[c] = ask[c]
    PROVE  IInv'
  <1>1. Checked'
    <2>1. ASSUME NEW b \in Clients
          PROVE  /\ pc'[b] # "idle" /\ seen'[b] = "COMPLETED" /\ pc'[b] # "job" =>
                       status[ask'[b].job] = "COMPLETED"
                 /\ pc'[b] \in {"insert", "commit", "compare", "approval", "receive"} =>
                       Reviewable(b)'
                 /\ pc'[b] = "receive" => Approves(ask'[b].job, ask'[b].report)
                 /\ pc'[b] = "commit" =>
                       approvals[ask'[b].job] = None /\ inserting[ask'[b].job] = b
      <3>1. CASE b # c
        BY <2>1, <3>1 DEF IInv, Checked, Reviewable
      <3>2. CASE b = c
        BY <3>2 DEF IInv, Checked, Reviewable
      <3>. QED  BY <3>1, <3>2
    <2>. QED  BY <2>1 DEF Checked, Approves
  <1>2. RepliesHold'
    BY DEF IInv, RepliesHold, Entry
  <1>. QED  BY <1>1, <1>2 DEF IInv, ApprovalIsCurrent, AuditComplete, BenchmarksApproved

\* The commit stores the first decision on a report that can no longer change.
LEMMA IInvCommit ==
    ASSUME IInv, TypeOK', NEW c \in Clients, pc[c] = "commit", Committed(c),
           inserting' = [inserting EXCEPT ![ask[c].job] = None],
           UNCHANGED <<status, report, benchmarks, measured, ask, seen>>,
           pc' = [pc EXCEPT ![c] = "idle"],
           \E r \in {"decided", "unavailable"} : reply' = [reply EXCEPT ![c] = r]
    PROVE  IInv'
  <1>. DEFINE j == ask[c].job
  <1>1. /\ TypeOK /\ ask[c] \in Asks /\ j \in Jobs /\ ask[c].kind = "decide"
        /\ Entry(c) # None
    BY AskFields, RowTypes DEF IInv, TypeOK
  <1>2. approvals[j] = None /\ inserting[j] = c /\ Reviewable(c) /\ status[j] = "COMPLETED"
    BY DEF IInv, Checked, Reviewable
  <1>3. approvals'[j] = Entry(c) /\ audit'[j] = audit[j] + 1
    BY <1>1 DEF Committed, TypeOK
  <1>4. \A k \in Jobs : k # j =>
           approvals'[k] = approvals[k] /\ audit'[k] = audit[k] /\ inserting'[k] = inserting[k]
    BY <1>1 DEF Committed, TypeOK
  <1>5. ApprovalIsCurrent'
    BY <1>1, <1>2, <1>3, <1>4 DEF IInv, ApprovalIsCurrent, Reviewable, Entry
  <1>6. AuditComplete'
    BY <1>1, <1>2, <1>3, <1>4 DEF IInv, AuditComplete
  <1>7. RepliesHold'
    <2>1. ASSUME NEW b \in Clients, reply'[b] = "decided"
          PROVE  approvals'[ask[b].job] = Entry(b)
      <3>1. CASE b = c
        BY <1>3, <3>1
      <3>2. CASE b # c
        <4>1. reply[b] = "decided" /\ approvals[ask[b].job] = Entry(b)
          BY <1>1, <2>1, <3>2 DEF IInv, RepliesHold, TypeOK
        <4>2. ask[b] \in Asks /\ ask[b].job \in Jobs /\ Entry(b) # None
          BY <1>1, <4>1, AskFields, RowTypes DEF TypeOK
        <4>. QED  BY <1>2, <1>4, <4>1, <4>2
      <3>. QED  BY <3>1, <3>2
    <2>. QED  BY <2>1 DEF RepliesHold, Entry
  <1>8. BenchmarksApproved'
    BY <1>1, <1>2, <1>4 DEF IInv, BenchmarksApproved, TypeOK, Orders
  <1>9. Checked'
    <2>1. \A b \in Clients : b # c => pc'[b] = pc[b]
      BY <1>1 DEF TypeOK
    <2>2. pc'[c] = "idle"
      BY <1>1 DEF TypeOK
    <2>3. \A b \in Clients : pc[b] # "idle" => ask[b].job \in Jobs
      BY <1>1, AskFields DEF TypeOK
    <2>4. \A b \in Clients : b # c /\ pc[b] = "commit" => ask[b].job # j
      BY <1>2 DEF IInv, Checked
    <2>5. \A k \in Jobs : approvals[k] # None => approvals'[k] = approvals[k]
      BY <1>2, <1>4
    <2>. QED  BY <1>1, <1>3, <1>4, <2>1, <2>2, <2>3, <2>4, <2>5
              DEF IInv, Checked, Reviewable, Approves
  <1>. QED  BY <1>5, <1>6, <1>7, <1>8, <1>9 DEF IInv

\* A transaction that is undone leaves the row to the next one.
LEMMA IInvRollback ==
    ASSUME IInv, TypeOK', NEW c \in Clients, pc[c] = "commit",
           inserting' = [inserting EXCEPT ![ask[c].job] = None],
           UNCHANGED <<status, report, approvals, audit, benchmarks, measured, ask, seen>>,
           pc' = [pc EXCEPT ![c] = "idle"],
           reply' = [reply EXCEPT ![c] = "unavailable"]
    PROVE  IInv'
  <1>1. /\ TypeOK /\ ask[c].job \in Jobs /\ inserting[ask[c].job] = c
        /\ pc'[c] = "idle"
        /\ \A b \in Clients : b # c => pc'[b] = pc[b]
    BY AskFields DEF IInv, TypeOK, Checked
  <1>2. \A b \in Clients : pc[b] = "commit" /\ b # c =>
           ask[b].job \in Jobs /\ ask[b].job # ask[c].job
    BY <1>1, AskFields DEF IInv, Checked, TypeOK
  <1>3. Checked'
    BY <1>1, <1>2 DEF IInv, Checked, Reviewable, Approves, TypeOK
  <1>4. RepliesHold'
    BY <1>1 DEF IInv, RepliesHold, Entry, TypeOK
  <1>. QED  BY <1>3, <1>4 DEF IInv, ApprovalIsCurrent, AuditComplete, BenchmarksApproved

\* A benchmark job is created under the approval that was just read.
LEMMA IInvReceive ==
    ASSUME IInv, TypeOK', NEW c \in Clients, pc[c] = "receive", Received(c),
           UNCHANGED <<status, report, approvals, audit, inserting, measured, ask, seen>>,
           pc' = [pc EXCEPT ![c] = "idle"],
           \E r \in {"ordered", "refused", "unavailable"} : reply' = [reply EXCEPT ![c] = r]
    PROVE  IInv'
  <1>1. /\ TypeOK /\ ask[c] \in Asks /\ ask[c].job \in Jobs /\ ask[c].delivery \in Deliveries
        /\ Order(c) # None
        /\ pc'[c] = "idle" /\ reply'[c] # "decided"
        /\ \A b \in Clients : b # c => pc'[b] = pc[b] /\ reply'[b] = reply[b]
    BY AskFields, RowTypes DEF IInv, TypeOK
  <1>2. Approves(ask[c].job, ask[c].report) /\ Reviewable(c)
    BY DEF IInv, Checked
  <1>3. BenchmarksApproved'
    <2>1. \A d \in Deliveries : benchmarks'[d] = benchmarks[d] \/ benchmarks'[d] = Order(c)
      BY <1>1 DEF Received, TypeOK
    <2>2. \A d \in Deliveries : benchmarks[d] # None => benchmarks'[d] = benchmarks[d]
      BY <1>1 DEF Received, TypeOK
    <2>3. measured \subseteq Deliveries
      BY <1>1 DEF TypeOK
    <2>. QED  BY <1>1, <1>2, <2>1, <2>2, <2>3
              DEF IInv, BenchmarksApproved, Order, Approves, Reviewable
  <1>4. Checked'
    BY <1>1 DEF IInv, Checked, Reviewable, Approves
  <1>5. RepliesHold'
    BY <1>1 DEF IInv, RepliesHold, Entry
  <1>. QED  BY <1>3, <1>4, <1>5 DEF IInv, ApprovalIsCurrent, AuditComplete

\* The INSERT takes the free row of an undecided job.
LEMMA IInvInsert ==
    ASSUME IInv, TypeOK', NEW c \in Clients, Insert(c), approvals[ask[c].job] = None
    PROVE  IInv'
  <1>1. /\ TypeOK /\ ask[c].job \in Jobs
        /\ inserting[ask[c].job] = None
        /\ inserting' = [inserting EXCEPT ![ask[c].job] = c]
        /\ pc[c] = "insert" /\ pc' = [pc EXCEPT ![c] = "commit"]
        /\ UNCHANGED <<status, report, approvals, audit, benchmarks, measured, ask, seen, reply>>
    BY AskFields DEF IInv, TypeOK, Insert, Goto, jobVars, benchVars
  <1>2. \A b \in Clients : pc[b] = "commit" =>
           b # c /\ ask[b].job # ask[c].job /\ ask[b].job \in Jobs
    BY <1>1, NoneAssumption, AskFields DEF IInv, Checked, TypeOK
  <1>3. Checked'
    BY <1>1, <1>2 DEF IInv, Checked, Reviewable, Approves, TypeOK
  <1>. QED  BY <1>1, <1>3 DEF IInv, ApprovalIsCurrent, AuditComplete, RepliesHold, Entry,
                              BenchmarksApproved

LEMMA IInvRequest ==
    ASSUME IInv, NEW c \in Clients, Request(c)
    PROVE  IInv'
  <1>0. TypeOK /\ TypeOK'
    BY TypeRequest DEF IInv
  <1>. USE DEF Goto, Answer
  <1>1. CASE Ask(c)
    BY <1>0, <1>1, IInvReads DEF Ask, TypeOK, jobVars, tableVars, benchVars
  <1>2. CASE ReadJob(c)
    BY <1>0, <1>2, IInvReads DEF ReadJob, TypeOK, jobVars, tableVars, benchVars
  <1>3. CASE ReadReport(c)
    BY <1>0, <1>3, IInvReads DEF ReadReport, TypeOK, jobVars, tableVars, benchVars
  <1>4. CASE Insert(c)
    <2>1. CASE approvals[ask[c].job] = None
      BY <1>0, <1>4, <2>1, IInvInsert
    <2>2. CASE approvals[ask[c].job] # None
      BY <1>0, <1>4, <2>2, IInvReads DEF Insert, TypeOK, jobVars, benchVars
    <2>. QED  BY <2>1, <2>2
  <1>11. CASE InsertFails(c)
    BY <1>0, <1>11, IInvReads DEF InsertFails, TypeOK, jobVars, tableVars, benchVars
  <1>5. CASE Commit(c)
    BY <1>0, <1>5, IInvCommit DEF Commit, jobVars, benchVars
  <1>6. CASE CommitFails(c)
    BY <1>0, <1>6, IInvCommit, IInvRollback DEF CommitFails, jobVars, benchVars
  <1>7. CASE Compare(c)
    BY <1>0, <1>7, IInvReads DEF Compare, TypeOK, jobVars, tableVars, benchVars
  <1>8. CASE ReadApproval(c)
    BY <1>0, <1>8, IInvReads DEF ReadApproval, TypeOK, jobVars, tableVars, benchVars
  <1>9. CASE Receive(c)
    <2>1. CASE UNCHANGED benchmarks /\ Answer(c, "refused")
      BY <1>0, <1>9, <2>1, IInvReads DEF Receive, TypeOK, jobVars, tableVars
    <2>2. CASE Received(c)
      BY <1>0, <1>9, <2>2, IInvReceive DEF Receive, jobVars, tableVars
    <2>. QED  BY <1>9, <2>1, <2>2 DEF Receive
  <1>10. CASE RequestFails(c)
    <2>1. CASE UNCHANGED benchmarks
      BY <1>0, <1>10, <2>1, IInvReads DEF RequestFails, TypeOK, jobVars, tableVars
    <2>2. CASE pc[c] = "receive" /\ Received(c)
      BY <1>0, <1>10, <2>2, IInvReceive DEF RequestFails, jobVars, tableVars
    <2>. QED  BY <1>10, <2>1, <2>2 DEF RequestFails
  <1>. QED  BY <1>1, <1>2, <1>3, <1>4, <1>5, <1>6, <1>7, <1>8, <1>9, <1>10, <1>11
         DEF Request

LEMMA IInvStep == IInv /\ [Next]_vars => IInv'
  <1>1. ASSUME IInv, UNCHANGED vars  PROVE IInv'
    BY <1>1 DEF IInv, TypeOK, Checked, Reviewable, Approves, ApprovalIsCurrent,
                AuditComplete, RepliesHold, Entry, BenchmarksApproved,
                vars, jobVars, tableVars, benchVars
  <1>. QED  BY <1>1, IInvWorker, IInvMeasure, IInvRequest DEF Next

\* What requests have checked stays true, and the tables agree.
THEOREM InvariantCorrect == Spec => []IInv
  BY IInvInit, IInvStep, PTL DEF Spec

\* Stored decisions are about the report their job keeps.
THEOREM ApprovalsAreCurrent == Spec => []ApprovalIsCurrent
  BY InvariantCorrect, PTL DEF IInv

\* Each decision is audited exactly once.
THEOREM DecisionsAreAudited == Spec => []AuditComplete
  BY InvariantCorrect, PTL DEF IInv

\* A confirmed decision is stored.
THEOREM ConfirmedDecisionsHold == Spec => []RepliesHold
  BY InvariantCorrect, PTL DEF IInv

\* A decision, its audit row and what its reviewer was told agree.
THEOREM DecisionsAreKept == Spec => []DecisionsKept
  BY ConfirmedDecisionsHold, DecisionsAreAudited, PTL DEF DecisionsKept

\* Benchmark jobs exist only under an approval of what they carry.
THEOREM BenchmarksAreApproved == Spec => []BenchmarksApproved
  BY InvariantCorrect, PTL DEF IInv

-----------------------------------------------------------------------------
(* Decisions stand *)

LEMMA StandStep ==
    ASSUME IInv, [Next]_vars, NEW j \in Jobs, approvals[j] # None
    PROVE  approvals'[j] = approvals[j]
  <1>1. CASE UNCHANGED approvals
    BY <1>1
  <1>2. ASSUME NEW c \in Clients, pc[c] = "commit", Committed(c)
        PROVE  approvals'[j] = approvals[j]
    BY <1>2 DEF Committed, IInv, Checked, TypeOK
  <1>. QED  BY <1>1, <1>2
            DEF Next, Request, vars, SaveReport, JobEnds, Measure, Ask, ReadJob, ReadReport,
                Insert, InsertFails, Commit, CommitFails, Compare, ReadApproval, Receive, RequestFails,
                tableVars

\* Decisions are never overwritten.
THEOREM DecisionsStand == Spec => ApprovalsStand
  <1>1. IInv /\ [Next]_vars
        => [\A j \in Jobs : approvals[j] # None => approvals'[j] = approvals[j]]_vars
    BY StandStep
  <1>. QED  BY <1>1, InvariantCorrect, PTL DEF Spec, ApprovalsStand

=============================================================================

--------------------------- MODULE JobQueueProofs ---------------------------
(***************************************************************************)
(* Theorems about JobQueue for every set of jobs, workers and relays and   *)
(* every value of the bounds; the last part shows that the workflow        *)
(* implements JobPromise.                                                  *)
(***************************************************************************)
EXTENDS JobQueue, FiniteSetTheorems, TLAPS

USE DEF storeVars, brokerVars, workerVars, budgetVars

-----------------------------------------------------------------------------
(* Type correctness *)

\* The initial state is well typed.
LEMMA TypeInit == Init => TypeOK
  BY MaxAttemptsAssumption
  DEF Init, TypeOK, NoJob, Job, Statuses, Waiting, Terminal, Rows, NoRow,
      Locations, Locals, NoLocals, Outcomes, RelayStates, RelayIdle

\* A row of the outbox table inserted for a job is a row, numbered after the
\* rows before it.
LEMMA InsertRowType ==
  ASSUME TypeOK, NEW j \in Jobs, NEW later \in BOOLEAN, InsertRow(j, later)
  PROVE  /\ created' \in [Jobs -> Nat]
         /\ unpublished' \in SUBSET Rows
         /\ deferred' \in SUBSET Rows
  <1>1. <<j, created[j] + 1>> \in Rows
    BY DEF TypeOK, Rows
  <1>2. QED
    BY <1>1 DEF InsertRow, TypeOK

\* Steps of the intake, of the clocks and of the broker keep the types.
LEMMA TypeEnvironment ==
  ASSUME TypeOK,
         \/ \E j \in Jobs : Receive(j) \/ Clock(j)
         \/ \E row \in deferred : RowDue(row)
         \/ LoseMessage
  PROVE  TypeOK'
  <1>1. ASSUME NEW j \in Jobs, Receive(j) PROVE TypeOK'
    <2>1. jobs' \in [Jobs -> Job]
      BY <1>1 DEF Receive, TypeOK, Job, NoJob, Statuses, Waiting
    <2>2. QED
      BY <1>1, <2>1, InsertRowType DEF Receive, TypeOK
  <1>2. ASSUME NEW j \in Jobs, JobDue(j) PROVE TypeOK'
    <2>1. jobs' \in [Jobs -> Job]
      <3>1. jobs[j] \in Job /\ [jobs[j] EXCEPT !.due = TRUE] \in Job
        BY DEF TypeOK, Job
      <3>2. jobs' = [jobs EXCEPT ![j] = [jobs[j] EXCEPT !.due = TRUE]]
        BY <1>2 DEF JobDue
      <3>. QED  BY <3>1, <3>2 DEF TypeOK
    <2>2. QED
      BY <1>2, <2>1 DEF JobDue, TypeOK
  <1>3. ASSUME NEW j \in Jobs, LeaseExpires(j) PROVE TypeOK'
    <2>1. jobs' \in [Jobs -> Job]
      <3>1. jobs[j] \in Job /\ [jobs[j] EXCEPT !.live = FALSE] \in Job
        BY DEF TypeOK, Job
      <3>2. jobs' = [jobs EXCEPT ![j] = [jobs[j] EXCEPT !.live = FALSE]]
        BY <1>3 DEF LeaseExpires
      <3>. QED  BY <3>1, <3>2 DEF TypeOK
    <2>2. faults' \in Nat
      BY <1>3 DEF LeaseExpires, Fault, NoFault, TypeOK
    <2>3. QED
      BY <1>3, <2>1, <2>2 DEF LeaseExpires, TypeOK
  <1>4. ASSUME NEW j \in Jobs, Ages(j) PROVE TypeOK'
    <2>1. jobs' \in [Jobs -> Job]
      <3>1. jobs[j] \in Job /\ [jobs[j] EXCEPT !.aged = TRUE] \in Job
        BY DEF TypeOK, Job
      <3>2. jobs' = [jobs EXCEPT ![j] = [jobs[j] EXCEPT !.aged = TRUE]]
        BY <1>4 DEF Ages
      <3>. QED  BY <3>1, <3>2 DEF TypeOK
    <2>2. faults' \in Nat
      BY <1>4 DEF Ages, Fault, NoFault, TypeOK
    <2>3. QED
      BY <1>4, <2>1, <2>2 DEF Ages, TypeOK
  <1>5. ASSUME NEW row \in deferred, RowDue(row) PROVE TypeOK'
    BY <1>5 DEF RowDue, TypeOK
  <1>6. CASE LoseMessage
    BY <1>6 DEF LoseMessage, TypeOK
  <1>7. QED
    BY <1>1, <1>2, <1>3, <1>4, <1>5, <1>6 DEF Clock

\* Steps of a worker keep the types.
LEMMA TypeWorker ==
  ASSUME TypeOK, NEW w \in Workers,
         \/ Fetch(w) \/ Handle(w) \/ Commit(w)
         \/ RenewFails(w) \/ StoreError(w) \/ WorkerCrash(w)
  PROVE  TypeOK'
  <1> DEFINE j == message[w][1]
  <1>0. pc[w] # "idle" => j \in Jobs /\ message[w] \in Rows
    BY DEF TypeOK, Rows
  <1>1. CASE Fetch(w)
    BY <1>1 DEF Fetch, Goto, Fault, NoFault, TypeOK, Locations
  <1>2. CASE Claim(w)
    <2> DEFINE n == jobs[j].attempts + 1
               row == [status |-> "RUNNING", attempts |-> n, owner |-> n,
                       live |-> TRUE, due |-> TRUE, aged |-> FALSE]
    <2>1. j \in Jobs /\ n \in Nat
      BY <1>2, <1>0 DEF Claim, TypeOK, Job
    <2>2. row \in Job
      BY <2>1 DEF Job, Statuses
    <2>3. local[w] \in Locals /\ [local[w] EXCEPT !.token = n] \in Locals
      BY <2>1 DEF TypeOK, Locals
    <2>4. /\ jobs' = [jobs EXCEPT ![j] = row] \/ jobs' = jobs
          /\ local' = [local EXCEPT ![w] = [local[w] EXCEPT !.token = n]] \/ local' = local
      BY <1>2 DEF Claim
    <2>5. jobs' \in [Jobs -> Job] /\ local' \in [Workers -> Locals]
      BY <2>1, <2>2, <2>3, <2>4 DEF TypeOK
    <2>6. QED
      BY <1>2, <1>0, <2>5 DEF Claim, Goto, TypeOK, Locations
  <1>3. CASE RecordClaim(w)
    BY <1>3 DEF RecordClaim, Goto, TypeOK, Locations
  <1>4. CASE ReadClaimed(w)
    <2> DEFINE seen == [local[w] EXCEPT !.readOwner = jobs[j].owner,
                                        !.readAttempts = jobs[j].attempts]
    <2>0. /\ seen \in Locals
          /\ [seen EXCEPT !.outcome = "exhausted"] \in Locals
      <3>1. j \in Jobs /\ jobs[j] \in Job /\ local[w] \in Locals
        BY <1>4, <1>0 DEF ReadClaimed, TypeOK
      <3>2. jobs[j].owner \in Nat /\ jobs[j].attempts \in Nat
        BY <3>1 DEF Job
      <3>3. QED
        BY <3>1, <3>2 DEF Locals, Outcomes
    <2>1. local' \in [Workers -> Locals]
      <3>1. \/ local' = [local EXCEPT ![w] = seen]
            \/ local' = [local EXCEPT ![w] = [seen EXCEPT !.outcome = "exhausted"]]
        BY <1>4 DEF ReadClaimed
      <3>2. QED
        BY <2>0, <3>1 DEF TypeOK
    <2>2. started' \in [Jobs -> SUBSET Nat]
      BY <1>4, <1>0 DEF ReadClaimed, TypeOK, Locals
    <2>3. QED
      BY <1>4, <1>0, <2>1, <2>2 DEF ReadClaimed, Goto, TypeOK, Locations
  <1>5. CASE ReadDenied(w)
    <2>1. local' \in [Workers -> Locals]
      <3>1. NoLocals \in Locals
        BY DEF NoLocals, Locals, Outcomes
      <3>2. local' = [local EXCEPT ![w] = NoLocals] \/ local' = local
        BY <1>5 DEF ReadDenied, HandleAgain
      <3>3. QED
        BY <3>1, <3>2 DEF TypeOK
    <2>2. QED
      BY <1>5, <1>0, <2>1 DEF ReadDenied, HandleAgain, Goto, TypeOK, Locations
  <1>6. CASE SaveReport(w)
    <2>1. local' \in [Workers -> Locals]
      <3>1. PICK o \in {"ok", "rejected", "failed"} :
                local' = [local EXCEPT ![w].outcome = o]
        BY <1>6 DEF SaveReport
      <3>2. [local[w] EXCEPT !.outcome = o] \in Locals
        BY DEF TypeOK, Locals, Outcomes
      <3>3. QED
        BY <3>1, <3>2 DEF TypeOK
    <2>2. report' \in [Jobs -> Nat]
      BY <1>6, <1>0 DEF SaveReport, TypeOK, Locals
    <2>3. QED
      BY <1>6, <1>0, <2>1, <2>2 DEF SaveReport, Goto, TypeOK, Locations
  <1>7. CASE RunnerStops(w)
    BY <1>7, <1>0 DEF RunnerStops, Goto, TypeOK, Locations, Locals, Outcomes
  <1>8. CASE RenewFails(w)
    BY <1>8, <1>0 DEF RenewFails, Goto, Fault, NoFault, TypeOK, Locations, Locals, Outcomes
  <1>9. CASE Stamp(w)
    BY <1>9, <1>0 DEF Stamp, Goto, TypeOK, Locations, Locals, Job
  <1>10. CASE Finish(w)
    <2> DEFINE row == [jobs[j] EXCEPT !.status = Verdict(local[w]), !.owner = 0, !.live = FALSE]
    <2>1. j \in Jobs /\ jobs[j] \in Job
      BY <1>10, <1>0 DEF Finish, TypeOK
    <2>2. row \in Job
      BY <1>10, <2>1 DEF Finish, Job, Statuses
    <2>3. jobs' = [jobs EXCEPT ![j] = row]
      BY <1>10 DEF Finish
    <2>4. jobs' \in [Jobs -> Job]
      BY <2>1, <2>2, <2>3 DEF TypeOK
    <2>5. QED
      BY <1>10, <1>0, <2>4 DEF Finish, Goto, TypeOK, Locations
  <1>11. CASE Retry(w)
    <2> DEFINE row == [jobs[j] EXCEPT !.status = "RETRYING", !.owner = 0, !.live = FALSE, !.due = FALSE]
    <2>1. j \in Jobs /\ jobs[j] \in Job
      BY <1>11, <1>0 DEF Retry, TypeOK
    <2>2. row \in Job
      BY <2>1 DEF Job, Statuses, Waiting
    <2>3. jobs' = [jobs EXCEPT ![j] = row]
      BY <1>11 DEF Retry
    <2>4. jobs' \in [Jobs -> Job]
      BY <2>1, <2>2, <2>3 DEF TypeOK
    <2>5. QED
      BY <1>11, <1>0, <2>4, InsertRowType DEF Retry, Goto, TypeOK, Locations
  <1>12. CASE FinishLost(w)
    BY <1>12, <1>0 DEF FinishLost, HandleAgain, Goto, TypeOK, Locations, Locals, NoLocals, Outcomes
  <1>13. CASE RecordFinish(w)
    BY <1>13 DEF RecordFinish, Goto, TypeOK, Locations
  <1>14. CASE Commit(w)
    BY <1>14 DEF Commit, Goto, TypeOK, Locations, Locals, NoLocals, Outcomes
  <1>15. CASE StoreError(w)
    BY <1>15, <1>0 DEF StoreError, HandleAgain, Fault, Goto, TypeOK, Locations, Locals, NoLocals, Outcomes
  <1>16. CASE WorkerCrash(w)
    BY <1>16 DEF WorkerCrash, Fault, Goto, TypeOK, Locations, Locals, NoLocals, Outcomes
  <1>17. QED
    BY <1>1, <1>2, <1>3, <1>4, <1>5, <1>6, <1>7, <1>8, <1>9, <1>10, <1>11,
       <1>12, <1>13, <1>14, <1>15, <1>16 DEF Handle

\* Steps of a relay keep the types.
LEMMA TypeRelay ==
  ASSUME TypeOK, NEW r \in Relays, Poll(r) \/ PublishFails(r) \/ RelayFails(r)
  PROVE  TypeOK'
  <1>0. /\ RelayIdle \in RelayStates
        /\ \A S \in SUBSET Rows : [pc |-> "publish", batch |-> S, row |-> NoRow] \in RelayStates
        /\ relay[r] \in RelayStates
    BY DEF RelayIdle, RelayStates, TypeOK
  <1>1. CASE Recover(r)
    <2>1. PICK S \in SUBSET Jobs :
             LET rows == {<<j, created[j] + 1>> : j \in S}
             IN  /\ jobs' = [j \in Jobs |-> IF j \in S
                            THEN [status |-> "RETRYING", attempts |-> jobs[j].attempts,
                                  owner |-> 0, live |-> FALSE, due |-> TRUE, aged |-> FALSE]
                            ELSE jobs[j]]
                 /\ created' = [j \in Jobs |-> IF j \in S THEN created[j] + 1 ELSE created[j]]
                 /\ unpublished' = unpublished \cup rows
      BY <1>1 DEF Recover, Limited
    <2>2. jobs' \in [Jobs -> Job]
      BY <2>1 DEF TypeOK, Job, Statuses, Waiting
    <2>3. created' \in [Jobs -> Nat] /\ unpublished' \in SUBSET Rows
      BY <2>1 DEF TypeOK, Rows
    <2>4. relay' \in [Relays -> RelayStates]
      BY <1>1, <1>0 DEF Recover, TypeOK, RelayStates
    <2>5. QED
      BY <1>1, <2>2, <2>3, <2>4 DEF Recover, TypeOK
  <1>2. CASE Scan(r)
    <2>1. relay' \in [Relays -> RelayStates]
      BY <1>2, <1>0 DEF Scan, Limited, TypeOK
    <2>2. QED
      BY <1>2, <2>1 DEF Scan, TypeOK
  <1>3. CASE Publish(r)
    <2>1. PICK row \in relay[r].batch :
             /\ AppendMessage(row[1])
             /\ relay' = [relay EXCEPT ![r].pc = "mark", ![r].row = row]
      BY <1>3 DEF Publish
    <2>2. row \in Rows
      BY <1>0 DEF RelayStates
    <2>3. relay' \in [Relays -> RelayStates]
      <3>. DEFINE sent == [relay[r] EXCEPT !.pc = "mark", !.row = row]
      <3>1. relay' = [relay EXCEPT ![r] = sent]
        BY <2>1
      <3>2. sent \in RelayStates
        BY <1>0, <2>2 DEF RelayStates
      <3>. HIDE DEF sent
      <3>. QED BY <3>1, <3>2 DEF TypeOK
    <2>4. produced' \in [Jobs -> Nat] /\ topic' \in SUBSET Rows
      BY <2>1, <2>2 DEF AppendMessage, TypeOK, Rows
    <2>5. QED
      BY <1>3, <2>3, <2>4 DEF Publish, TypeOK
  <1>4. CASE MarkPublished(r)
    <2>1. relay' \in [Relays -> RelayStates]
      BY <1>4, <1>0 DEF MarkPublished, TypeOK, RelayStates
    <2>2. QED
      BY <1>4, <2>1 DEF MarkPublished, TypeOK
  <1>5. CASE MarkFailed(r)
    <2>1. relay' \in [Relays -> RelayStates]
      BY <1>5, <1>0 DEF MarkFailed, TypeOK
    <2>2. QED
      BY <1>5, <2>1 DEF MarkFailed, TypeOK
  <1>6. CASE PublishFails(r)
    <2>1. PICK row \in relay[r].batch :
             /\ AppendMessage(row[1]) \/ UNCHANGED brokerVars
             /\ relay' = [relay EXCEPT ![r].pc = "defer", ![r].row = row]
      BY <1>6 DEF PublishFails
    <2>2. row \in Rows
      BY <1>0 DEF RelayStates
    <2>3. relay' \in [Relays -> RelayStates]
      <3>. DEFINE sent == [relay[r] EXCEPT !.pc = "defer", !.row = row]
      <3>1. relay' = [relay EXCEPT ![r] = sent]
        BY <2>1
      <3>2. sent \in RelayStates
        BY <1>0, <2>2 DEF RelayStates
      <3>. HIDE DEF sent
      <3>. QED BY <3>1, <3>2 DEF TypeOK
    <2>4. produced' \in [Jobs -> Nat] /\ topic' \in SUBSET Rows
      BY <2>1, <2>2 DEF AppendMessage, TypeOK, Rows
    <2>5. faults' \in Nat
      <3>1. Fault
        BY <1>6 DEF PublishFails
      <3>2. QED
        BY <3>1 DEF Fault, TypeOK
    <2>6. UNCHANGED <<storeVars, workerVars, losses>>
      BY <1>6 DEF PublishFails
    <2>7. QED
      BY <2>3, <2>4, <2>5, <2>6 DEF TypeOK
  <1>7. CASE RelayFails(r)
    BY <1>7, <1>0 DEF RelayFails, Fault, TypeOK
  <1>8. QED
    BY <1>1, <1>2, <1>3, <1>4, <1>5, <1>6, <1>7 DEF Poll

\* Every step, stuttering included, keeps the types.
LEMMA TypeStep == TypeOK /\ [Next]_vars => TypeOK'
  <1>1. TypeOK /\ Next => TypeOK'
    BY TypeEnvironment, TypeWorker, TypeRelay DEF Next
  <1>2. TypeOK /\ UNCHANGED vars => TypeOK'
    BY DEF vars, TypeOK
  <1>3. QED
    BY <1>1, <1>2

\* Every reachable state of the job workflow is well typed.
THEOREM TypeCorrect == Spec => []TypeOK
  BY TypeInit, TypeStep, PTL DEF Spec

-----------------------------------------------------------------------------
(* The inductive invariant *)

\* Nothing a Handle call may remember about a job ever shrinks: its attempts,
\* its runs, the existence of its report, the numbering of rows and messages.
LEMMA Monotone ==
  ASSUME IInv, Next, NEW j \in Jobs
  PROVE  /\ jobs[j].attempts <= jobs'[j].attempts
         /\ started[j] \subseteq started'[j]
         /\ report[j] # 0 => report'[j] # 0
         /\ created[j] <= created'[j]
         /\ produced[j] <= produced'[j]
  <1> USE DEF IInv
  <1>0. /\ jobs[j] \in Job /\ jobs[j].attempts \in Nat
        /\ created[j] \in Nat /\ produced[j] \in Nat
    BY DEF TypeOK, Job
  <1>1. ASSUME NEW k \in Jobs, Receive(k) PROVE jobs[j].attempts <= jobs'[j].attempts
    BY <1>0, <1>1 DEF Receive, NoJob, TypeOK
  <1>2. ASSUME NEW k \in Jobs, Clock(k) PROVE jobs[j].attempts <= jobs'[j].attempts
    <2>1. \/ jobs' = [jobs EXCEPT ![k].due = TRUE]
          \/ jobs' = [jobs EXCEPT ![k].live = FALSE]
          \/ jobs' = [jobs EXCEPT ![k].aged = TRUE]
      BY <1>2 DEF Clock, JobDue, LeaseExpires, Ages
    <2>2. jobs'[j].attempts = jobs[j].attempts
      <3>1. CASE jobs' = [jobs EXCEPT ![k].due = TRUE]
        BY <3>1, <1>0 DEF TypeOK, Job
      <3>2. CASE jobs' = [jobs EXCEPT ![k].live = FALSE]
        BY <3>2, <1>0 DEF TypeOK, Job
      <3>3. CASE jobs' = [jobs EXCEPT ![k].aged = TRUE]
        BY <3>3, <1>0 DEF TypeOK, Job
      <3>4. QED
        BY <2>1, <3>1, <3>2, <3>3
    <2>3. QED
      BY <1>0, <2>2
  <1>3. ASSUME NEW w \in Workers, Claim(w) PROVE jobs[j].attempts <= jobs'[j].attempts
    BY <1>0, <1>3 DEF Claim, TypeOK
  <1>4. ASSUME NEW w \in Workers, Finish(w) \/ Retry(w) PROVE jobs[j].attempts <= jobs'[j].attempts
    <2> DEFINE k == message[w][1]
    <2>1. \/ jobs' = [jobs EXCEPT ![k].status = Verdict(local[w]), ![k].owner = 0,
                                 ![k].live = FALSE]
          \/ jobs' = [jobs EXCEPT ![k].status = "RETRYING", ![k].owner = 0,
                                 ![k].live = FALSE, ![k].due = FALSE]
      BY <1>4 DEF Finish, Retry
    <2>2. jobs'[j].attempts = jobs[j].attempts
      <3>1. CASE jobs' = [jobs EXCEPT ![k].status = Verdict(local[w]), ![k].owner = 0,
                                     ![k].live = FALSE]
        BY <3>1, <1>0 DEF TypeOK, Job
      <3>2. CASE jobs' = [jobs EXCEPT ![k].status = "RETRYING", ![k].owner = 0,
                                     ![k].live = FALSE, ![k].due = FALSE]
        BY <3>2, <1>0 DEF TypeOK, Job
      <3>3. QED
        BY <2>1, <3>1, <3>2
    <2>3. QED
      BY <1>0, <2>2
  <1>5. ASSUME NEW r \in Relays, Recover(r)
        PROVE  jobs[j].attempts <= jobs'[j].attempts /\ created[j] <= created'[j]
    BY <1>0, <1>5 DEF Recover, TypeOK
  <1>6. ASSUME NEW k \in Jobs, NEW later \in BOOLEAN, InsertRow(k, later)
        PROVE  created[j] <= created'[j]
    BY <1>0, <1>6 DEF InsertRow, TypeOK
  <1>7. ASSUME NEW k \in Jobs, AppendMessage(k) PROVE produced[j] <= produced'[j]
    BY <1>0, <1>7 DEF AppendMessage, TypeOK
  <1>8. ASSUME NEW w \in Workers, ReadClaimed(w) PROVE started[j] \subseteq started'[j]
    BY <1>8 DEF ReadClaimed, TypeOK
  <1>9. ASSUME NEW w \in Workers, SaveReport(w) PROVE report[j] # 0 => report'[j] # 0
    <2>1. local[w].token \in Nat /\ local[w].token >= 1
      BY <1>9 DEF SaveReport, Remembered, TypeOK, Locals
    <2>2. QED
      BY <1>9, <2>1 DEF SaveReport, TypeOK
  <1>. USE <1>0
  <1>10. CASE \E k \in Jobs : Receive(k) \/ Clock(k)
    <2>1. ASSUME NEW k \in Jobs, Receive(k)
          PROVE  created[j] <= created'[j] /\ UNCHANGED <<started, report, produced>>
      <3>1. InsertRow(k, FALSE)
        BY <2>1 DEF Receive
      <3>2. QED
        BY <2>1, <3>1, <1>6 DEF Receive
    <2>2. ASSUME NEW k \in Jobs, Clock(k)
          PROVE  UNCHANGED <<created, started, report, produced>>
      BY <2>2 DEF Clock, JobDue, LeaseExpires, Ages
    <2>3. QED
      BY <1>10, <1>1, <1>2, <2>1, <2>2
  <1>11. CASE \E row \in deferred : RowDue(row)
    BY <1>11 DEF RowDue
  <1>12. ASSUME NEW w \in Workers,
                Fetch(w) \/ Commit(w) \/ RenewFails(w) \/ StoreError(w) \/ WorkerCrash(w)
         PROVE  UNCHANGED <<storeVars, produced, started>>
    BY <1>12 DEF Fetch, Commit, RenewFails, StoreError, WorkerCrash
  <1>13. ASSUME NEW w \in Workers, Handle(w)
         PROVE  /\ jobs[j].attempts <= jobs'[j].attempts
                /\ started[j] \subseteq started'[j]
                /\ report[j] # 0 => report'[j] # 0
                /\ created[j] <= created'[j]
                /\ produced[j] <= produced'[j]
    <2>1. CASE Claim(w)
      BY <2>1, <1>3 DEF Claim
    <2>2. CASE ReadClaimed(w)
      <3>1. UNCHANGED <<storeVars, brokerVars>>
        BY <2>2 DEF ReadClaimed
      <3>2. QED
        BY <2>2, <3>1, <1>8
    <2>3. CASE SaveReport(w)
      <3>1. jobs' = jobs /\ created' = created /\ produced' = produced /\ started' = started
        BY <2>3 DEF SaveReport, brokerVars
      <3>2. report[j] # 0 => report'[j] # 0
        BY <2>3, <1>9
      <3>. QED
        BY <3>1, <3>2
    <2>4. CASE Finish(w)
      <3>1. UNCHANGED <<report, created, produced, started>>
        BY <2>4 DEF Finish
      <3>2. QED
        BY <2>4, <3>1, <1>4
    <2>5. CASE Retry(w)
      <3>1. message[w][1] \in Jobs
        BY <2>5 DEF Retry, TypeOK, Rows
      <3>2. InsertRow(message[w][1], TRUE) /\ UNCHANGED <<report, produced, started>>
        BY <2>5 DEF Retry
      <3>3. created[j] <= created'[j]
        BY <3>1, <3>2, <1>6
      <3>4. jobs[j].attempts <= jobs'[j].attempts
        BY <2>5, <1>4
      <3>5. QED
        BY <3>2, <3>3, <3>4
    <2>6. CASE RecordClaim(w) \/ ReadDenied(w) \/ RunnerStops(w) \/ Stamp(w)
               \/ FinishLost(w) \/ RecordFinish(w)
      BY <2>6 DEF RecordClaim, ReadDenied, RunnerStops, Stamp, FinishLost, RecordFinish
    <2>7. QED
      BY <1>13, <2>1, <2>2, <2>3, <2>4, <2>5, <2>6 DEF Handle
  <1>14. ASSUME NEW r \in Relays, Poll(r) \/ PublishFails(r) \/ RelayFails(r)
         PROVE  /\ jobs[j].attempts <= jobs'[j].attempts
                /\ started[j] \subseteq started'[j]
                /\ report[j] # 0 => report'[j] # 0
                /\ created[j] <= created'[j]
                /\ produced[j] <= produced'[j]
    <2>1. \A row \in relay[r].batch : row[1] \in Jobs
      BY DEF TypeOK, RelayStates, Rows
    <2>2. CASE Recover(r)
      BY <2>2, <1>5 DEF Recover
    <2>3. CASE Publish(r)
      BY <2>3, <2>1, <1>7 DEF Publish
    <2>4. CASE PublishFails(r)
      BY <2>4, <2>1, <1>7 DEF PublishFails
    <2>5. CASE Scan(r) \/ MarkPublished(r) \/ MarkFailed(r) \/ RelayFails(r)
      BY <2>5 DEF Scan, MarkPublished, MarkFailed, RelayFails
    <2>6. QED
      BY <1>14, <2>2, <2>3, <2>4, <2>5 DEF Poll
  <1>15. CASE LoseMessage
    BY <1>15 DEF LoseMessage
  <1>16. QED
    BY <1>10, <1>11, <1>12, <1>13, <1>14, <1>15 DEF Next

\* Which steps can add an outbox row or a message, take up a message, or move
\* a relay: every other step leaves those variables alone.
LEMMA Frame ==
  ASSUME Next
  PROVE  /\ \/ unpublished' = unpublished /\ created' = created
            \/ \E j \in Jobs : Receive(j)
            \/ \E w \in Workers : Retry(w)
            \/ \E r \in Relays : Recover(r) \/ MarkPublished(r)
         /\ \/ topic' = topic /\ produced' = produced
            \/ \E r \in Relays : Publish(r) \/ PublishFails(r)
            \/ \E w \in Workers : Commit(w)
            \/ LoseMessage
         /\ \/ message' = message /\ pc' = pc /\ local' = local
            \/ \E w \in Workers : \/ Fetch(w) \/ Handle(w) \/ Commit(w)
                                  \/ RenewFails(w) \/ StoreError(w) \/ WorkerCrash(w)
         /\ \/ relay' = relay
            \/ \E r \in Relays : Poll(r) \/ PublishFails(r) \/ RelayFails(r)
  <1>1. ASSUME NEW j \in Jobs, Clock(j)
        PROVE  UNCHANGED <<unpublished, created, brokerVars, workerVars, relay>>
    BY <1>1 DEF Clock, JobDue, LeaseExpires, Ages
  <1>2. ASSUME NEW j \in Jobs, Receive(j)
        PROVE  UNCHANGED <<brokerVars, workerVars, relay>>
    BY <1>2 DEF Receive
  <1>3. ASSUME NEW row \in deferred, RowDue(row)
        PROVE  UNCHANGED <<unpublished, created, brokerVars, workerVars, relay>>
    BY <1>3 DEF RowDue
  <1>4. ASSUME NEW w \in Workers,
               Fetch(w) \/ RenewFails(w) \/ StoreError(w) \/ WorkerCrash(w)
        PROVE  UNCHANGED <<storeVars, brokerVars, relay>>
    BY <1>4 DEF Fetch, RenewFails, StoreError, WorkerCrash
  <1>5. ASSUME NEW w \in Workers, Commit(w)
        PROVE  UNCHANGED <<storeVars, relay>>
    BY <1>5 DEF Commit
  <1>6. ASSUME NEW w \in Workers, Handle(w), ~Retry(w)
        PROVE  UNCHANGED <<unpublished, created, brokerVars, relay>>
    BY <1>6 DEF Handle, Claim, RecordClaim, ReadClaimed, ReadDenied, SaveReport,
                RunnerStops, Stamp, Finish, FinishLost, RecordFinish
  <1>7. ASSUME NEW w \in Workers, Retry(w)
        PROVE  UNCHANGED <<brokerVars, relay>>
    BY <1>7 DEF Retry
  <1>8. ASSUME NEW r \in Relays, Poll(r) \/ PublishFails(r) \/ RelayFails(r)
        PROVE  /\ UNCHANGED workerVars
               /\ Recover(r) \/ MarkPublished(r) \/ UNCHANGED <<unpublished, created>>
               /\ Publish(r) \/ PublishFails(r) \/ UNCHANGED brokerVars
    BY <1>8 DEF Poll, Recover, Scan, Publish, MarkPublished, MarkFailed, PublishFails, RelayFails
  <1>9. LoseMessage => UNCHANGED <<storeVars, workerVars, relay>>
    BY DEF LoseMessage
  <1>10. QED
    BY <1>1, <1>2, <1>3, <1>4, <1>5, <1>6, <1>7, <1>8, <1>9 DEF Next

\* Numbering survives every step: a new row or message takes the next number.
LEMMA NumberedStep ==
  ASSUME IInv, Next
  PROVE  Numbered'
  <1> USE DEF IInv
  <1>0. TypeOK'
    BY TypeStep
  <1>1. \A j \in Jobs : /\ created[j] \in Nat /\ created'[j] \in Nat /\ created[j] <= created'[j]
                        /\ produced[j] \in Nat /\ produced'[j] \in Nat /\ produced[j] <= produced'[j]
    BY <1>0, Monotone DEF TypeOK
  <1>2. \A row \in Rows : row[1] \in Jobs /\ row[2] \in Nat
    BY DEF Rows
  <1>3. \A row \in unpublished' : row[2] <= created'[row[1]]
    <2>1. \A row \in unpublished : row[2] <= created'[row[1]]
      BY <1>1, <1>2 DEF Numbered, TypeOK
    <2>2. ASSUME NEW k \in Jobs, NEW later \in BOOLEAN, InsertRow(k, later)
          PROVE  \A row \in unpublished' : row[2] <= created'[row[1]]
      BY <2>1, <2>2, <1>1 DEF InsertRow, TypeOK
    <2>3. ASSUME NEW r \in Relays, Recover(r)
          PROVE  \A row \in unpublished' : row[2] <= created'[row[1]]
      <3>1. PICK S \in SUBSET Jobs :
               /\ created' = [j \in Jobs |-> IF j \in S THEN created[j] + 1 ELSE created[j]]
               /\ unpublished' = unpublished \cup {<<j, created[j] + 1>> : j \in S}
        BY <2>3 DEF Recover, Limited
      <3>2. QED
        BY <3>1, <2>1, <1>1
    <2>4. ASSUME NEW k \in Jobs, Receive(k) PROVE InsertRow(k, FALSE)
      BY <2>4 DEF Receive
    <2>5. ASSUME NEW w \in Workers, Retry(w)
          PROVE  message[w][1] \in Jobs /\ InsertRow(message[w][1], TRUE)
      BY <2>5, <1>2 DEF Retry, TypeOK
    <2>6. ASSUME NEW r \in Relays, MarkPublished(r) PROVE unpublished' \subseteq unpublished
      BY <2>6 DEF MarkPublished
    <2>7. QED
      BY <2>1, <2>2, <2>3, <2>4, <2>5, <2>6, Frame
  <1>4. \A m \in topic' : m[2] <= produced'[m[1]]
    <2>1. \A m \in topic : m[2] <= produced'[m[1]]
      BY <1>1, <1>2 DEF Numbered, TypeOK
    <2>2. ASSUME NEW k \in Jobs, AppendMessage(k)
          PROVE  \A m \in topic' : m[2] <= produced'[m[1]]
      BY <2>1, <2>2, <1>1 DEF AppendMessage, TypeOK
    <2>3. ASSUME NEW r \in Relays, Publish(r) \/ PublishFails(r)
          PROVE  topic' = topic \/ \E k \in Jobs : AppendMessage(k)
      BY <2>3, <1>2 DEF Publish, PublishFails, TypeOK, RelayStates
    <2>4. (\E w \in Workers : Commit(w)) \/ LoseMessage => topic' \subseteq topic
      BY DEF Commit, LoseMessage
    <2>5. QED
      BY <2>1, <2>2, <2>3, <2>4, Frame
  <1>5. \A w \in Workers : pc'[w] # "idle" => message'[w][2] <= produced'[message'[w][1]]
    <2>1. \A w \in Workers : pc[w] # "idle" => message[w][2] <= produced'[message[w][1]]
      BY <1>1, <1>2 DEF Numbered, TypeOK
    <2>2. \A m \in topic : m[2] <= produced'[m[1]]
      BY <1>1, <1>2 DEF Numbered, TypeOK
    <2>3. ASSUME NEW w \in Workers, Fetch(w)
          PROVE  \A v \in Workers : pc'[v] # "idle" => message'[v][2] <= produced'[message'[v][1]]
      BY <2>3, <2>1, <2>2 DEF Fetch, Goto, TypeOK
    <2>4. ASSUME NEW w \in Workers, Commit(w) \/ WorkerCrash(w)
          PROVE  \A v \in Workers : pc'[v] # "idle" => message'[v] = message[v] /\ pc[v] # "idle"
      BY <2>4 DEF Commit, WorkerCrash, Goto, TypeOK
    <2>5. ASSUME NEW w \in Workers, Handle(w) \/ RenewFails(w) \/ StoreError(w)
          PROVE  \A v \in Workers : pc'[v] # "idle" => message'[v] = message[v] /\ pc[v] # "idle"
      <3>1. message' = message /\ pc[w] # "idle"
        BY <2>5 DEF Handle, Claim, RecordClaim, ReadClaimed, ReadDenied, SaveReport, RunnerStops,
             Stamp, Finish, Retry, FinishLost, RecordFinish, RenewFails, StoreError
      <3>2. \E place \in Locations : pc' = [pc EXCEPT ![w] = place]
        BY <2>5 DEF Handle, Claim, RecordClaim, ReadClaimed, ReadDenied, SaveReport, RunnerStops,
             Stamp, Finish, Retry, FinishLost, RecordFinish, RenewFails, StoreError,
             HandleAgain, Goto, Locations
      <3>3. QED
        BY <3>1, <3>2 DEF TypeOK
    <2>6. QED
      BY <2>1, <2>3, <2>4, <2>5, Frame
  <1>6. ASSUME NEW r \in Relays
        PROVE  /\ \A row \in relay'[r].batch : row[2] <= created'[row[1]]
               /\ relay'[r].pc \in {"mark", "defer"} =>
                     relay'[r].row \in Rows /\ relay'[r].row[2] <= created'[relay'[r].row[1]]
    <2>0. relay[r] \in RelayStates /\ relay[r].batch \subseteq Rows
      BY DEF TypeOK, RelayStates
    <2>1. /\ \A row \in relay[r].batch : row[2] <= created'[row[1]]
          /\ relay[r].pc \in {"mark", "defer"} =>
                relay[r].row \in Rows /\ relay[r].row[2] <= created'[relay[r].row[1]]
      BY <2>0, <1>1, <1>2 DEF Numbered
    <2>2. CASE relay'[r] = relay[r]
      BY <2>1, <2>2
    <2>3. CASE relay'[r] = RelayIdle
      BY <2>3 DEF RelayIdle
    <2>4. CASE Recover(r)
      BY <2>4, <2>1, <2>0 DEF Recover, TypeOK, RelayStates
    <2>5. CASE Scan(r)
      <3>1. \A row \in unpublished : row[2] <= created'[row[1]]
        BY <1>1, <1>2 DEF Numbered, TypeOK
      <3>2. PICK S \in SUBSET unpublished :
               relay'[r] = IF S = {} THEN RelayIdle
                           ELSE [pc |-> "publish", batch |-> S, row |-> NoRow]
        BY <2>5 DEF Scan, Limited, TypeOK
      <3>3. QED
        BY <3>1, <3>2, <2>3
    <2>6. CASE Publish(r) \/ PublishFails(r)
      <3>1. PICK row \in relay[r].batch, place \in {"mark", "defer"} :
               relay' = [relay EXCEPT ![r].pc = place, ![r].row = row]
        BY <2>6 DEF Publish, PublishFails
      <3>2. relay'[r].batch = relay[r].batch /\ relay'[r].row = row
        BY <3>1, <2>0 DEF TypeOK, RelayStates
      <3>3. QED
        BY <3>2, <2>0, <2>1
    <2>7. CASE MarkPublished(r)
      <3>1. \/ relay'[r] = RelayIdle
            \/ relay'[r] = [pc |-> "publish", batch |-> relay[r].batch \ {relay[r].row}, row |-> NoRow]
        BY <2>7 DEF MarkPublished, TypeOK
      <3>2. QED
        BY <3>1, <2>1, <2>3
    <2>8. CASE MarkFailed(r) \/ RelayFails(r)
      BY <2>8, <2>3 DEF MarkFailed, RelayFails, TypeOK
    <2>9. ASSUME NEW q \in Relays, q # r, Poll(q) \/ PublishFails(q) \/ RelayFails(q)
          PROVE  relay'[r] = relay[r]
      BY <2>9 DEF Poll, Recover, Scan, Publish, MarkPublished, MarkFailed, PublishFails,
           RelayFails, TypeOK
    <2>10. QED
      BY <2>2, <2>4, <2>5, <2>6, <2>7, <2>8, <2>9, Frame DEF Poll
  <1>7. QED
    BY <1>3, <1>4, <1>5, <1>6 DEF Numbered

\* What a Handle call remembers stays true under its own steps and everybody's.
LEMMA RememberedStep ==
  ASSUME IInv, Next, NEW v \in Workers
  PROVE  /\ pc'[v] # "idle" => Remembered(v, message[v][1])'
         /\ pc'[v] \in {"idle", "claim", "denied"} => local'[v] = NoLocals
  <1> USE DEF IInv
  <1> DEFINE Goal == /\ pc'[v] # "idle" => Remembered(v, message[v][1])'
                     /\ pc'[v] \in {"idle", "claim", "denied"} => local'[v] = NoLocals
             j == message[v][1]
  <1>0. /\ TypeOK'
        /\ local[v] \in Locals /\ local'[v] \in Locals
        /\ local[v].token \in Nat /\ local[v].readAttempts \in Nat
    BY TypeStep DEF TypeOK, Locals
  <1>1. ASSUME NEW k \in Jobs
        PROVE  /\ jobs[k].attempts \in Nat /\ jobs'[k].attempts \in Nat
               /\ jobs[k].attempts <= jobs'[k].attempts
               /\ started[k] # {} => started'[k] # {}
               /\ report[k] # 0 => report'[k] # 0
    BY <1>0, Monotone DEF TypeOK, Job
  <1>2. pc[v] # "idle" => j \in Jobs /\ Remembered(v, j)
    BY DEF TypeOK, Rows
  <1>3. CASE pc'[v] = pc[v] /\ message'[v] = message[v] /\ local'[v] = local[v]
    BY <1>0, <1>1, <1>2, <1>3 DEF Remembered
  <1>4. CASE Fetch(v)
    <2>1. pc'[v] = "claim" /\ local'[v] = NoLocals /\ message'[v][1] \in Jobs
      BY <1>4, <1>0 DEF Fetch, Goto, TypeOK, Rows
    <2>2. QED
      BY <2>1, <1>1 DEF Remembered, NoLocals
  <1>5. CASE HandleAgain(v) /\ message' = message /\ pc[v] # "idle"
    BY <1>5, <1>1, <1>2 DEF HandleAgain, Goto, TypeOK, Remembered, NoLocals
  <1>6. CASE Claim(v)
    <2>1. local[v] = NoLocals /\ message' = message
      BY <1>6 DEF Claim
    <2>2. CASE local' = [local EXCEPT ![v].token = jobs[j].attempts + 1]
      <3>1. pc'[v] = "granted" /\ jobs'[j].attempts = jobs[j].attempts + 1
        BY <1>6, <1>1, <1>2, <2>1, <2>2 DEF Claim, Goto, TypeOK, NoLocals
      <3>2. /\ local'[v].token = jobs[j].attempts + 1
            /\ local'[v].readAttempts = 0
            /\ local'[v].outcome = "none"
        <4>1. local'[v] = [local[v] EXCEPT !.token = jobs[j].attempts + 1]
          BY <2>2 DEF TypeOK
        <4>2. QED
          BY <4>1, <2>1, <1>0 DEF Locals, NoLocals
      <3>3. QED
        BY <3>1, <3>2, <2>1, <1>6, <1>1, <1>2 DEF Remembered, Claim
    <2>3. CASE local' = local /\ pc'[v] = "denied"
      BY <2>1, <2>3, <1>6, <1>1, <1>2 DEF Remembered, NoLocals, Claim
    <2>4. QED
      BY <1>6, <2>2, <2>3 DEF Claim, Goto, TypeOK
  <1>7. CASE RecordClaim(v)
    BY <1>7, <1>0, <1>1, <1>2 DEF RecordClaim, Goto, TypeOK, Remembered
  <1>8. CASE ReadClaimed(v)
    <2>1. j \in Jobs /\ message' = message /\ jobs' = jobs /\ report' = report
          /\ pc[v] = "read"
      BY <1>8, <1>2 DEF ReadClaimed
    <2>2. /\ local'[v].token = local[v].token
          /\ local'[v].readAttempts = jobs[j].attempts
          /\ \/ /\ pc'[v] = "returned" /\ jobs[j].attempts > MaxAttempts
                /\ local'[v].outcome = "exhausted"
             \/ /\ pc'[v] = "run" /\ started'[j] # {}
                /\ local'[v].outcome = local[v].outcome
      <3> DEFINE seen == [local[v] EXCEPT !.readOwner = jobs[j].owner,
                                          !.readAttempts = jobs[j].attempts]
      <3>1. CASE /\ jobs[j].attempts > MaxAttempts
                 /\ Goto(v, "returned")
                 /\ local' = [local EXCEPT ![v] = [seen EXCEPT !.outcome = "exhausted"]]
        <4>1. local'[v] = [seen EXCEPT !.outcome = "exhausted"] /\ pc'[v] = "returned"
          BY <3>1 DEF Goto, TypeOK
        <4>2. QED
          BY <4>1, <3>1, <1>0 DEF Locals
      <3>2. CASE /\ Goto(v, "run")
                 /\ local' = [local EXCEPT ![v] = seen]
                 /\ started' = [started EXCEPT ![j] = @ \cup {local[v].token}]
        <4>1. local'[v] = seen /\ pc'[v] = "run" /\ started'[j] # {}
          BY <3>2, <2>1 DEF Goto, TypeOK
        <4>2. QED
          BY <4>1, <1>0 DEF Locals
      <3>3. QED
        BY <1>8, <3>1, <3>2 DEF ReadClaimed
    <2>3. local[v].outcome \in {"ok", "rejected"} => started'[j] # {}
      BY <2>1, <1>1, <1>2 DEF Remembered
    <2>4. jobs[j].attempts \in Nat /\ local[v].token <= jobs[j].attempts /\ local[v].token >= 1
          /\ (local[v].outcome = "ok" => report[j] # 0)
          /\ (local[v].outcome = "exhausted" => jobs[j].attempts > MaxAttempts)
      <3>1. local[v].readAttempts <= jobs[j].attempts
            /\ (local[v].outcome = "exhausted" => local[v].readAttempts > MaxAttempts)
        BY <2>1, <1>2 DEF Remembered
      <3>2. QED
        BY <2>1, <3>1, <1>0, <1>1, <1>2, MaxAttemptsAssumption DEF Remembered
    <2>5. QED
      BY <2>1, <2>2, <2>3, <2>4, <1>0 DEF Remembered
  <1>9. CASE ReadDenied(v)
    <2>1. CASE HandleAgain(v)
      BY <1>9, <2>1, <1>5 DEF ReadDenied
    <2>2. CASE pc'[v] = "commit" /\ local' = local
      BY <1>9, <2>2, <1>0, <1>1, <1>2 DEF ReadDenied, Remembered
    <2>3. QED
      BY <1>9, <2>1, <2>2 DEF ReadDenied, Goto, TypeOK
  <1>10. CASE SaveReport(v)
    <2>1. j \in Jobs /\ message' = message /\ jobs' = jobs /\ started' = started
          /\ pc[v] = "run" /\ pc'[v] = "returned"
      BY <1>10, <1>2 DEF SaveReport, Goto, TypeOK
    <2>2. /\ local'[v].token = local[v].token
          /\ local'[v].readAttempts = local[v].readAttempts
          /\ \/ local'[v].outcome = "failed"
             \/ local'[v].outcome \in {"ok", "rejected", "failed"} /\ report'[j] = local[v].token
      BY <1>10, <1>0, <2>1 DEF SaveReport, TypeOK, Locals
    <2>3. QED
      BY <2>1, <2>2, <1>0, <1>1, <1>2 DEF Remembered
  <1>11. CASE RunnerStops(v)
    <2>1. j \in Jobs /\ message' = message /\ jobs' = jobs /\ started' = started /\ report' = report
          /\ pc[v] = "run" /\ pc'[v] = "returned"
      BY <1>11, <1>2 DEF RunnerStops, Goto, TypeOK
    <2>2. /\ local'[v].token = local[v].token
          /\ local'[v].readAttempts = local[v].readAttempts
          /\ local'[v].outcome \in {"rejected", "failed"}
      BY <1>11, <1>0, <2>1 DEF RunnerStops, TypeOK, Locals
    <2>3. QED
      BY <2>1, <2>2, <1>0, <1>1, <1>2 DEF Remembered
  <1>12. CASE RenewFails(v)
    <2>1. j \in Jobs /\ message' = message /\ jobs' = jobs /\ started' = started /\ report' = report
          /\ pc[v] \in {"run", "returned"} /\ pc'[v] = "returned"
      BY <1>12, <1>2 DEF RenewFails, Goto, TypeOK
    <2>2. /\ local'[v].token = local[v].token
          /\ local'[v].readAttempts = local[v].readAttempts
          /\ local'[v].outcome = "failed"
      BY <1>12, <1>0, <2>1 DEF RenewFails, TypeOK, Locals
    <2>3. QED
      BY <2>1, <2>2, <1>0, <1>1, <1>2 DEF Remembered
  <1>13. CASE Stamp(v)
    <2>1. j \in Jobs /\ message' = message /\ jobs' = jobs /\ started' = started /\ report' = report
          /\ pc[v] = "returned" /\ pc'[v] = "finish"
      BY <1>13, <1>2 DEF Stamp, Goto, TypeOK
    <2>2. /\ local'[v].token = local[v].token
          /\ local'[v].readAttempts = local[v].readAttempts
          /\ local'[v].outcome = local[v].outcome
      BY <1>13, <1>0, <2>1 DEF Stamp, TypeOK, Locals
    <2>3. QED
      BY <2>1, <2>2, <1>0, <1>1, <1>2 DEF Remembered
  <1>14. CASE Finish(v) \/ Retry(v) \/ RecordFinish(v)
    <2>1. /\ message' = message /\ local' = local
          /\ pc[v] \in {"finish", "recorded"} /\ pc'[v] \in {"recorded", "commit"}
      BY <1>14 DEF Finish, Retry, RecordFinish, Goto, TypeOK
    <2>2. QED
      BY <2>1, <1>0, <1>1, <1>2 DEF Remembered
  <1>15. CASE FinishLost(v) \/ StoreError(v)
    BY <1>15, <1>5 DEF FinishLost, StoreError
  <1>16. CASE Commit(v) \/ WorkerCrash(v)
    BY <1>16 DEF Commit, WorkerCrash, Goto, TypeOK
  <1>17. ASSUME NEW w \in Workers, w # v,
                \/ Fetch(w) \/ Handle(w) \/ Commit(w)
                \/ RenewFails(w) \/ StoreError(w) \/ WorkerCrash(w)
         PROVE  pc'[v] = pc[v] /\ message'[v] = message[v] /\ local'[v] = local[v]
    BY <1>17 DEF Handle, Claim, RecordClaim, ReadClaimed, ReadDenied, SaveReport, RunnerStops,
         Stamp, Finish, Retry, FinishLost, RecordFinish, RenewFails, StoreError, Fetch, Commit,
         WorkerCrash, HandleAgain, Goto, TypeOK
  <1>18. QED
    BY <1>3, <1>4, <1>6, <1>7, <1>8, <1>9, <1>10, <1>11, <1>12, <1>13, <1>14, <1>15, <1>16,
       <1>17, Frame DEF Handle

\* The life of one job: accepted once, then open until a worker that still owns
\* it ends it; nothing touches its row before or after.
LEMMA JobStep ==
  ASSUME IInv, Next, NEW j \in Jobs
  PROVE  \/ jobs'[j] = jobs[j]
         \/ /\ jobs[j].status = "ABSENT" /\ jobs'[j].status = "QUEUED"
            /\ jobs'[j].attempts = 0 /\ Receive(j)
         \/ /\ jobs[j].status \notin Terminal \cup {"ABSENT"}
            /\ jobs'[j].status \notin Terminal \cup {"ABSENT"}
            /\ \/ jobs'[j].attempts = jobs[j].attempts
               \/ jobs'[j].attempts = jobs[j].attempts + 1
            /\ UNCHANGED <<report, started>>
         \/ /\ jobs[j].status = "RUNNING"
            /\ jobs'[j].status \in Terminal
            /\ jobs'[j].attempts = jobs[j].attempts
            /\ UNCHANGED <<report, started>>
            /\ \E w \in Workers : /\ Finish(w) /\ message[w][1] = j
                                  /\ jobs'[j].status = Verdict(local[w])
  <1> USE DEF IInv
  <1>0. jobs[j] \in Job /\ jobs[j].attempts \in Nat
    BY DEF TypeOK, Job
  <1>1. ASSUME NEW k \in Jobs, Receive(k)
        PROVE  \/ jobs'[j] = jobs[j]
               \/ /\ j = k /\ jobs[j].status = "ABSENT" /\ jobs'[j].status = "QUEUED"
                  /\ jobs'[j].attempts = 0
    BY <1>1 DEF Receive, NoJob, TypeOK
  <1>2. ASSUME NEW k \in Jobs, Clock(k)
        PROVE  \/ jobs'[j] = jobs[j]
               \/ /\ jobs[j].status \notin Terminal \cup {"ABSENT"}
                  /\ jobs'[j].status = jobs[j].status
                  /\ jobs'[j].attempts = jobs[j].attempts
                  /\ UNCHANGED <<report, started>>
    <2>1. CASE JobDue(k)
      BY <2>1, <1>0 DEF JobDue, TypeOK, Job, Terminal
    <2>2. CASE LeaseExpires(k)
      BY <2>2, <1>0 DEF LeaseExpires, TypeOK, Job, Terminal
    <2>3. CASE Ages(k)
      BY <2>3, <1>0 DEF Ages, TypeOK, Job, Terminal, Waiting
    <2>4. QED
      BY <1>2, <2>1, <2>2, <2>3 DEF Clock
  <1>3. ASSUME NEW w \in Workers, Claim(w)
        PROVE  \/ jobs'[j] = jobs[j]
               \/ /\ jobs[j].status \notin Terminal \cup {"ABSENT"}
                  /\ jobs'[j].status = "RUNNING"
                  /\ jobs'[j].attempts = jobs[j].attempts + 1
                  /\ UNCHANGED <<report, started>>
    BY <1>3, <1>0 DEF Claim, Claimable, TypeOK, Terminal, Waiting
  <1>4. ASSUME NEW w \in Workers, Finish(w)
        PROVE  \/ jobs'[j] = jobs[j]
               \/ /\ jobs[j].status = "RUNNING" /\ message[w][1] = j
                  /\ jobs'[j].status = Verdict(local[w])
                  /\ jobs'[j].status \in Terminal
                  /\ jobs'[j].attempts = jobs[j].attempts
                  /\ UNCHANGED <<report, started>>
    <2> DEFINE k == message[w][1]
    <2>1. /\ jobs' = [jobs EXCEPT ![k].status = Verdict(local[w]), ![k].owner = 0,
                                  ![k].live = FALSE]
          /\ Verdict(local[w]) \in Terminal /\ jobs[k].status = "RUNNING"
          /\ UNCHANGED <<report, started>>
      BY <1>4 DEF Finish, StillOwner
    <2>2. QED
      BY <2>1, <1>0 DEF TypeOK, Job
  <1>5. ASSUME NEW w \in Workers, Retry(w)
        PROVE  \/ jobs'[j] = jobs[j]
               \/ /\ jobs[j].status = "RUNNING" /\ jobs'[j].status = "RETRYING"
                  /\ jobs'[j].attempts = jobs[j].attempts
                  /\ UNCHANGED <<report, started>>
    <2> DEFINE k == message[w][1]
    <2>1. /\ jobs' = [jobs EXCEPT ![k].status = "RETRYING", ![k].owner = 0,
                                  ![k].live = FALSE, ![k].due = FALSE]
          /\ jobs[k].status = "RUNNING"
          /\ UNCHANGED <<report, started>>
      BY <1>5 DEF Retry, StillOwner
    <2>2. QED
      BY <2>1, <1>0 DEF TypeOK, Job
  <1>6. ASSUME NEW r \in Relays, Recover(r)
        PROVE  \/ jobs'[j] = jobs[j]
               \/ /\ jobs[j].status \in Waiting \cup {"RUNNING"} /\ jobs'[j].status = "RETRYING"
                  /\ jobs'[j].attempts = jobs[j].attempts
                  /\ UNCHANGED <<report, started>>
    <2>1. PICK S \in SUBSET {k \in Jobs : Recoverable(k)} :
             jobs' = [k \in Jobs |-> IF k \in S
                        THEN [status |-> "RETRYING", attempts |-> jobs[k].attempts,
                              owner |-> 0, live |-> FALSE, due |-> TRUE, aged |-> FALSE]
                        ELSE jobs[k]]
      BY <1>6 DEF Recover, Limited
    <2>2. QED
      BY <2>1, <1>6 DEF Recover, Recoverable
  <1>7. \/ jobs' = jobs
        \/ \E k \in Jobs : Receive(k) \/ Clock(k)
        \/ \E w \in Workers : Claim(w) \/ Finish(w) \/ Retry(w)
        \/ \E r \in Relays : Recover(r)
    <2>1. ASSUME NEW w \in Workers, Handle(w), ~Claim(w), ~Finish(w), ~Retry(w)
          PROVE  jobs' = jobs
      BY <2>1 DEF Handle, RecordClaim, ReadClaimed, ReadDenied, SaveReport,
                  RunnerStops, Stamp, FinishLost, RecordFinish
    <2>2. ASSUME NEW w \in Workers,
                 Fetch(w) \/ Commit(w) \/ RenewFails(w) \/ StoreError(w) \/ WorkerCrash(w)
          PROVE  jobs' = jobs
      BY <2>2 DEF Fetch, Commit, RenewFails, StoreError, WorkerCrash
    <2>3. ASSUME NEW r \in Relays, Poll(r) \/ PublishFails(r) \/ RelayFails(r), ~Recover(r)
          PROVE  jobs' = jobs
      BY <2>3 DEF Poll, Scan, Publish, MarkPublished, MarkFailed, PublishFails, RelayFails
    <2>4. (\E row \in deferred : RowDue(row)) \/ LoseMessage => jobs' = jobs
      BY DEF RowDue, LoseMessage
    <2>5. QED
      BY <2>1, <2>2, <2>3, <2>4 DEF Next
  <1>8. QED
    BY <1>1, <1>2, <1>3, <1>4, <1>5, <1>6, <1>7 DEF Terminal, Waiting

\* The bounds and the report of every job survive a step.
LEMMA JobFactsStep ==
  ASSUME IInv, Next, NEW j \in Jobs
  PROVE  /\ Admitted(j)'
         /\ jobs'[j].status = "ABSENT" => jobs'[j].attempts = 0
         /\ jobs'[j].status = "COMPLETED" => report'[j] # 0
         /\ jobs'[j].status = "DEAD_LETTER" => jobs'[j].attempts >= MaxAttempts
  <1> USE DEF IInv
  <1>0. /\ jobs[j].attempts \in Nat /\ jobs'[j].attempts \in Nat
        /\ jobs[j].attempts <= jobs'[j].attempts
        /\ report[j] # 0 => report'[j] # 0
        /\ MaxAttempts \in Nat
    BY TypeStep, Monotone, MaxAttemptsAssumption DEF TypeOK, Job
  <1>1. Admitted(j)'
    <2>1. CASE started'[j] = started[j]
      BY <2>1, <1>0 DEF Admitted
    <2>2. ASSUME NEW w \in Workers, ReadClaimed(w) PROVE Admitted(j)'
      <3> DEFINE k == message[w][1]
      <3>1. /\ k \in Jobs /\ jobs' = jobs
            /\ local[w].token \in Nat /\ local[w].token >= 1
            /\ local[w].token <= jobs[k].attempts
        BY <2>2 DEF ReadClaimed, Remembered, TypeOK, Rows, Locals
      <3>2. \/ started' = started
            \/ /\ jobs[k].attempts <= MaxAttempts
               /\ started' = [started EXCEPT ![k] = @ \cup {local[w].token}]
        BY <2>2 DEF ReadClaimed
      <3>3. CASE j = k /\ started'[j] = started[j] \cup {local[w].token}
                 /\ jobs[k].attempts <= MaxAttempts
        BY <3>1, <3>3, <1>0 DEF Admitted
      <3>4. QED
        BY <2>1, <3>1, <3>2, <3>3 DEF TypeOK
    <2>3. started' = started \/ \E w \in Workers : ReadClaimed(w)
      <3>1. ASSUME NEW w \in Workers, Handle(w), ~ReadClaimed(w) PROVE started' = started
        BY <3>1 DEF Handle, Claim, RecordClaim, ReadDenied, SaveReport,
                    RunnerStops, Stamp, Finish, Retry, FinishLost, RecordFinish
      <3>2. ASSUME NEW w \in Workers,
                   Fetch(w) \/ Commit(w) \/ RenewFails(w) \/ StoreError(w) \/ WorkerCrash(w)
            PROVE  started' = started
        BY <3>2 DEF Fetch, Commit, RenewFails, StoreError, WorkerCrash
      <3>3. ASSUME NEW r \in Relays, Poll(r) \/ PublishFails(r) \/ RelayFails(r)
            PROVE  started' = started
        BY <3>3 DEF Poll, Recover, Scan, Publish, MarkPublished, MarkFailed, PublishFails, RelayFails
      <3>4. ASSUME NEW k \in Jobs, Receive(k) \/ Clock(k) PROVE started' = started
        BY <3>4 DEF Receive, Clock, JobDue, LeaseExpires, Ages
      <3>5. (\E row \in deferred : RowDue(row)) \/ LoseMessage => started' = started
        BY DEF RowDue, LoseMessage
      <3>6. QED
        BY <3>1, <3>2, <3>3, <3>4, <3>5 DEF Next
    <2>4. QED
      BY <2>1, <2>2, <2>3
  <1>2. ASSUME NEW w \in Workers, Finish(w), message[w][1] = j
        PROVE  /\ Verdict(local[w]) = "COMPLETED" => report[j] # 0
               /\ Verdict(local[w]) = "DEAD_LETTER" => jobs[j].attempts >= MaxAttempts
    <2>1. Remembered(w, j) /\ local[w].readAttempts \in Nat
      BY <1>2 DEF Finish, TypeOK, Locals
    <2>2. Verdict(local[w]) = "COMPLETED" => local[w].outcome = "ok"
      BY DEF Verdict
    <2>3. Verdict(local[w]) = "DEAD_LETTER" =>
             local[w].outcome = "exhausted" \/ local[w].readAttempts >= MaxAttempts
      BY DEF Verdict
    <2>4. QED
      BY <2>1, <2>2, <2>3, <1>0 DEF Remembered
  <1>3. QED
    BY <1>0, <1>1, <1>2, JobStep DEF CompletedHasReport, DeadLetterExhausted, Terminal

\* A row inserted now is fresh: no relay is about to mark it.
LEMMA FreshRow ==
  ASSUME IInv, NEW j \in Jobs, <<j, created[j] + 1>> \in unpublished',
         \A r \in Relays : relay'[r].pc = "mark" =>
            relay[r].pc = "mark" /\ relay'[r].row = relay[r].row
  PROVE  Wakeable(j)'
  <1> USE DEF IInv
  <1>0. PICK row : row = <<j, created[j] + 1>>
    OBVIOUS
  <1>1. created[j] \in Nat /\ row[1] = j /\ row[2] = created[j] + 1
    BY <1>0 DEF TypeOK
  <1>2. ASSUME NEW r \in Relays, relay'[r].pc = "mark", relay'[r].row = row PROVE FALSE
    <2>1. relay[r].pc = "mark" /\ relay[r].row = row
      BY <1>2
    <2>2. row[2] <= created[row[1]]
      BY <2>1 DEF Numbered
    <2>3. QED
      BY <1>1, <2>2
  <1>3. ~Marking(row)'
    BY <1>2 DEF Marking
  <1>4. QED
    BY <1>0, <1>1, <1>3 DEF Wakeable

\* A message appended now is fresh: no worker is about to commit it.
LEMMA FreshMessage ==
  ASSUME IInv, NEW j \in Jobs, <<j, produced[j] + 1>> \in topic',
         UNCHANGED <<pc, message>>
  PROVE  Wakeable(j)'
  <1> USE DEF IInv
  <1>0. PICK m : m = <<j, produced[j] + 1>>
    OBVIOUS
  <1>1. produced[j] \in Nat /\ m[1] = j /\ m[2] = produced[j] + 1
    BY <1>0 DEF TypeOK
  <1>2. ASSUME NEW w \in Workers, pc[w] \in {"recorded", "commit"}, message[w] = m PROVE FALSE
    <2>1. m[2] <= produced[m[1]]
      BY <1>2 DEF Numbered
    <2>2. QED
      BY <1>1, <2>1
  <1>3. ~Committing(m)'
    BY <1>2 DEF Committing
  <1>4. QED
    BY <1>0, <1>1, <1>3 DEF Wakeable

\* A row that waits for a relay is still waiting after a step, unless a relay
\* has just published its message.
LEMMA WaitingRow ==
  ASSUME IInv, Next, NEW row \in unpublished, ~Marking(row)
  PROVE  Wakeable(row[1])'
  <1> USE DEF IInv
  <1>0. row \in Rows /\ row[1] \in Jobs
    BY DEF TypeOK, Rows
  <1>1. row \in unpublished'
    <2>1. ASSUME NEW k \in Jobs, Receive(k) PROVE row \in unpublished'
      BY <2>1 DEF Receive, InsertRow
    <2>2. ASSUME NEW w \in Workers, Retry(w) PROVE row \in unpublished'
      BY <2>2 DEF Retry, InsertRow
    <2>3. ASSUME NEW r \in Relays, Recover(r) PROVE row \in unpublished'
      BY <2>3 DEF Recover
    <2>4. ASSUME NEW r \in Relays, MarkPublished(r) PROVE row \in unpublished'
      BY <2>4 DEF MarkPublished, Marking
    <2>5. QED
      BY <2>1, <2>2, <2>3, <2>4, Frame
  <1>2. ASSUME NEW r \in Relays, Publish(r), relay'[r].row = row PROVE Wakeable(row[1])'
    <2>1. PICK chosen \in relay[r].batch :
             /\ AppendMessage(chosen[1])
             /\ relay' = [relay EXCEPT ![r].pc = "mark", ![r].row = chosen]
      BY <1>2 DEF Publish
    <2>2. chosen = row
      BY <2>1, <1>2 DEF TypeOK, RelayStates
    <2>3. <<row[1], produced[row[1]] + 1>> \in topic'
      BY <2>1, <2>2 DEF AppendMessage
    <2>4. QED
      BY <1>0, <1>2, <2>3, FreshMessage DEF Publish
  <1>3. ASSUME NEW r \in Relays, Poll(r) \/ PublishFails(r) \/ RelayFails(r),
               ~(Publish(r) /\ relay'[r].row = row)
        PROVE  ~Marking(row)'
    <2>1. \A q \in Relays : relay'[q].pc = "mark" /\ relay'[q].row = row =>
                relay[q].pc = "mark" /\ relay[q].row = row
      <3>1. CASE Recover(r)
        BY <3>1 DEF Recover, TypeOK, RelayStates
      <3>2. CASE Scan(r)
        BY <3>2 DEF Scan, RelayIdle, TypeOK
      <3>3. CASE Publish(r)
        BY <3>3, <1>3 DEF Publish, TypeOK, RelayStates
      <3>4. CASE MarkPublished(r)
        BY <3>4 DEF MarkPublished, RelayIdle, TypeOK
      <3>5. CASE MarkFailed(r) \/ RelayFails(r)
        BY <3>5 DEF MarkFailed, RelayFails, RelayIdle, TypeOK
      <3>6. CASE PublishFails(r)
        BY <3>6 DEF PublishFails, TypeOK, RelayStates
      <3>7. QED
        BY <1>3, <3>1, <3>2, <3>3, <3>4, <3>5, <3>6 DEF Poll
    <2>2. QED
      BY <2>1 DEF Marking
  <1>4. CASE relay' = relay
    BY <1>1, <1>4 DEF Wakeable, Marking
  <1>5. QED
    BY <1>1, <1>2, <1>3, <1>4, Frame DEF Wakeable

\* A message that waits for a worker is still waiting after a step, unless it
\* was lost, or its job is over, or its job has been put off with a new row.
LEMMA WaitingMessage ==
  ASSUME IInv, Next, losses' = losses, NEW m \in topic, ~Committing(m)
  PROVE  \/ Wakeable(m[1])'
         \/ jobs'[m[1]].status \in Terminal
  <1> USE DEF IInv
  <1>0. m \in Rows /\ m[1] \in Jobs
    BY DEF TypeOK, Rows
  <1>1. m \in topic'
    <2>1. ASSUME NEW r \in Relays, Publish(r) \/ PublishFails(r) PROVE m \in topic'
      BY <2>1 DEF Publish, PublishFails, AppendMessage
    <2>2. ASSUME NEW w \in Workers, Commit(w) PROVE m \in topic'
      BY <2>2 DEF Commit, Committing
    <2>3. ~LoseMessage
      BY DEF LoseMessage, TypeOK
    <2>4. QED
      BY <2>1, <2>2, <2>3, Frame
  <1>2. CASE message' = message /\ pc' = pc
    BY <1>1, <1>2 DEF Wakeable, Committing
  <1>3. ASSUME NEW w \in Workers,
               \/ Fetch(w) \/ Commit(w) \/ RenewFails(w) \/ StoreError(w) \/ WorkerCrash(w)
               \/ Claim(w) \/ RecordClaim(w) \/ ReadClaimed(w) \/ SaveReport(w)
               \/ RunnerStops(w) \/ Stamp(w) \/ FinishLost(w) \/ RecordFinish(w)
        PROVE  Wakeable(m[1])'
    <2>1. pc'[w] \in {"recorded", "commit"} =>
             message'[w] = message[w] /\ pc[w] \in {"recorded", "commit"}
      BY <1>3 DEF Fetch, Commit, RenewFails, StoreError, WorkerCrash, Claim, RecordClaim,
                  ReadClaimed, SaveReport, RunnerStops, Stamp, FinishLost, RecordFinish,
                  HandleAgain, Goto, TypeOK
    <2>2. \A v \in Workers : v # w => pc'[v] = pc[v] /\ message'[v] = message[v]
      BY <1>3 DEF Fetch, Commit, RenewFails, StoreError, WorkerCrash, Claim, RecordClaim,
                  ReadClaimed, SaveReport, RunnerStops, Stamp, FinishLost, RecordFinish,
                  HandleAgain, Goto, TypeOK
    <2>3. ~Committing(m)'
      BY <2>1, <2>2 DEF Committing
    <2>4. QED
      BY <1>1, <2>3 DEF Wakeable
  <1>4. ASSUME NEW w \in Workers, ReadDenied(w) \/ Finish(w) \/ Retry(w), message[w] # m
        PROVE  Wakeable(m[1])'
    <2>1. /\ message' = message
          /\ \A v \in Workers : v # w => pc'[v] = pc[v]
      BY <1>4 DEF ReadDenied, Finish, Retry, HandleAgain, Goto, TypeOK
    <2>2. ~Committing(m)'
      BY <1>4, <2>1 DEF Committing
    <2>3. QED
      BY <1>1, <2>2 DEF Wakeable
  <1>5. ASSUME NEW w \in Workers, ReadDenied(w), message[w] = m
        PROVE  Wakeable(m[1])' \/ jobs'[m[1]].status \in Terminal
    <2>1. CASE jobs[m[1]].status \in Terminal
      BY <1>5, <2>1 DEF ReadDenied
    <2>2. CASE HandleAgain(w)
      <3>1. /\ message' = message /\ pc'[w] = "claim"
            /\ \A v \in Workers : v # w => pc'[v] = pc[v]
        BY <1>5, <2>2 DEF ReadDenied, HandleAgain, Goto, TypeOK
      <3>2. ~Committing(m)'
        BY <3>1 DEF Committing
      <3>3. QED
        BY <1>1, <3>2 DEF Wakeable
    <2>3. QED
      BY <1>5, <2>1, <2>2 DEF ReadDenied
  <1>6. ASSUME NEW w \in Workers, Finish(w), message[w] = m
        PROVE  jobs'[m[1]].status \in Terminal
    <2>1. /\ jobs' = [jobs EXCEPT ![m[1]].status = Verdict(local[w]),
                                  ![m[1]].owner = 0, ![m[1]].live = FALSE]
          /\ Verdict(local[w]) \in Terminal
      BY <1>6 DEF Finish
    <2>2. QED
      BY <1>0, <2>1 DEF TypeOK, Job
  <1>7. ASSUME NEW w \in Workers, Retry(w), message[w] = m PROVE Wakeable(m[1])'
    <2>1. <<m[1], created[m[1]] + 1>> \in unpublished' /\ relay' = relay
      BY <1>7 DEF Retry, InsertRow
    <2>2. QED
      BY <1>0, <2>1, FreshRow
  <1>8. QED
    BY <1>2, <1>3, <1>4, <1>5, <1>6, <1>7, Frame DEF Handle

\* While no message was lost, a step leaves every open job something that will
\* wake it.
LEMMA WakeableStep ==
  ASSUME IInv, Next, losses' = 0, NEW j \in Jobs
  PROVE  jobs'[j].status \in Terminal \cup {"ABSENT"} \/ Wakeable(j)'
  <1> USE DEF IInv
  <1>1. losses = 0 /\ losses' = losses
    <2>1. losses' = losses \/ losses' = losses + 1
      <3>1. ASSUME NEW w \in Workers,
                   \/ Fetch(w) \/ Handle(w) \/ Commit(w)
                   \/ RenewFails(w) \/ StoreError(w) \/ WorkerCrash(w)
            PROVE  losses' = losses
        BY <3>1 DEF Handle, Claim, RecordClaim, ReadClaimed, ReadDenied, SaveReport, RunnerStops,
             Stamp, Finish, Retry, FinishLost, RecordFinish, RenewFails, StoreError, Fetch, Commit,
             WorkerCrash
      <3>2. ASSUME NEW r \in Relays, Poll(r) \/ PublishFails(r) \/ RelayFails(r)
            PROVE  losses' = losses
        BY <3>2 DEF Poll, Recover, Scan, Publish, MarkPublished, MarkFailed, PublishFails,
             RelayFails
      <3>3. ASSUME NEW k \in Jobs, Receive(k) \/ Clock(k) PROVE losses' = losses
        BY <3>3 DEF Receive, Clock, JobDue, LeaseExpires, Ages
      <3>4. ((\E row \in deferred : RowDue(row)) => losses' = losses)
            /\ (LoseMessage => losses' = losses + 1)
        BY DEF RowDue, LoseMessage
      <3>5. QED
        BY <3>1, <3>2, <3>3, <3>4 DEF Next
    <2>2. QED
      BY <2>1 DEF TypeOK
  <1>2. CASE jobs[j].status \in Terminal
    BY <1>2, JobStep DEF Terminal
  <1>3. CASE jobs[j].status = "ABSENT"
    <2>1. CASE Receive(j)
      <3>1. <<j, created[j] + 1>> \in unpublished' /\ relay' = relay
        BY <2>1 DEF Receive, InsertRow
      <3>2. QED
        BY <3>1, FreshRow
    <2>2. QED
      BY <1>3, <2>1, JobStep
  <1>4. CASE \E row \in unpublished : row[1] = j /\ ~Marking(row)
    BY <1>4, WaitingRow
  <1>5. CASE \E m \in topic : m[1] = j /\ ~Committing(m)
    BY <1>1, <1>5, WaitingMessage
  <1>6. QED
    BY <1>1, <1>2, <1>3, <1>4, <1>5 DEF Wakeable

\* The initial state satisfies the inductive invariant.
LEMMA IInvInit == Init => IInv
  <1> SUFFICES ASSUME Init PROVE IInv
    OBVIOUS
  <1>1. TypeOK
    BY TypeInit
  <1>2. Numbered
    BY DEF Init, Numbered, RelayIdle
  <1>3. \A w \in Workers : pc[w] = "idle" /\ local[w] = NoLocals
    BY DEF Init
  <1>4. \A j \in Jobs : /\ Admitted(j) /\ jobs[j].status = "ABSENT" /\ jobs[j].attempts = 0
    BY DEF Init, NoJob, Admitted
  <1>5. QED
    BY <1>1, <1>2, <1>3, <1>4 DEF IInv, CompletedHasReport, DeadLetterExhausted

\* The invariant is inductive.
LEMMA IInvStep == IInv /\ [Next]_vars => IInv'
  <1>1. ASSUME IInv, Next PROVE IInv'
    <2>1. TypeOK'
      BY <1>1, TypeStep DEF IInv
    <2>2. Numbered'
      BY <1>1, NumberedStep
    <2>3. \A w \in Workers : /\ pc'[w] # "idle" => Remembered(w, message[w][1])'
                             /\ pc'[w] \in {"idle", "claim", "denied"} => local'[w] = NoLocals
      BY <1>1, RememberedStep
    <2>4. \A j \in Jobs : /\ Admitted(j)'
                          /\ jobs'[j].status = "ABSENT" => jobs'[j].attempts = 0
                          /\ jobs'[j].status = "COMPLETED" => report'[j] # 0
                          /\ jobs'[j].status = "DEAD_LETTER" => jobs'[j].attempts >= MaxAttempts
      BY <1>1, JobFactsStep
    <2>5. losses' = 0 => \A j \in Jobs :
             jobs'[j].status \in Terminal \cup {"ABSENT"} \/ Wakeable(j)'
      BY <1>1, WakeableStep
    <2>6. (losses = 0 => \A j \in Jobs :
             jobs[j].status \in Terminal \cup {"ABSENT"} \/ Wakeable(j))'
      BY <2>5 DEF Terminal
    <2>7. CompletedHasReport'
      BY <2>4 DEF CompletedHasReport
    <2>8. DeadLetterExhausted'
      BY <2>4 DEF DeadLetterExhausted
    <2>9. (\A w \in Workers : /\ pc[w] # "idle" => Remembered(w, message[w][1])
                              /\ pc[w] \in {"idle", "claim", "denied"} => local[w] = NoLocals)'
      BY <2>3
    <2>10. (\A j \in Jobs : /\ Admitted(j)
                            /\ jobs[j].status = "ABSENT" => jobs[j].attempts = 0)'
      BY <2>4
    <2>11. QED
      BY <2>1, <2>2, <2>6, <2>7, <2>8, <2>9, <2>10 DEF IInv
  <1>2. ASSUME IInv, UNCHANGED vars PROVE IInv'
    BY <1>2 DEF vars, IInv, TypeOK, Numbered, Remembered, Admitted, CompletedHasReport,
                DeadLetterExhausted, Wakeable, Marking, Committing, Verdict
  <1>3. QED
    BY <1>1, <1>2

\* The bookkeeping invariant holds in every reachable state.
THEOREM InvariantCorrect == Spec => []IInv
  BY IInvInit, IInvStep, PTL DEF Spec

-----------------------------------------------------------------------------
(* What the invariant is for *)

\* Of a job's claims at most MaxAttempts reach the Runner, whatever crashes,
\* redeliveries and recoveries happen between them (runtime.go, Handle).
THEOREM RunsAreBounded == Spec => []RunsBounded
  <1>1. IInv => RunsBounded
    <2> SUFFICES ASSUME IInv, NEW j \in Jobs
                 PROVE  Cardinality(started[j]) <= MaxAttempts
      BY DEF RunsBounded
    <2>1. MaxAttempts \in Nat /\ started[j] \subseteq 1..MaxAttempts
      BY MaxAttemptsAssumption DEF IInv, Admitted
    <2>2. IsFiniteSet(1..MaxAttempts) /\ Cardinality(1..MaxAttempts) = MaxAttempts
      BY <2>1, FS_Interval
    <2>3. QED
      BY <2>1, <2>2, FS_Subset
  <1>2. QED
    BY <1>1, InvariantCorrect, PTL

\* A job becomes COMPLETED only when its report is stored, although two
\* transactions of perhaps two claims write them (runtime.go, runner.go).
THEOREM CompletedJobsHaveReports == Spec => []CompletedHasReport
  <1>1. IInv => CompletedHasReport
    BY DEF IInv
  <1>2. QED
    BY <1>1, InvariantCorrect, PTL

\* A job is dead-lettered only after its last attempt was claimed (runtime.go,
\* Handle).
THEOREM DeadLettersAreExhausted == Spec => []DeadLetterExhausted
  <1>1. IInv => DeadLetterExhausted
    BY DEF IInv
  <1>2. QED
    BY <1>1, InvariantCorrect, PTL

\* The outbox and the topic together never lose an open job, as long as Kafka
\* keeps its messages (mysql.go, runtime.go).
THEOREM NoJobIsLost == Spec => []NoLostJob
  <1>1. IInv => NoLostJob
    BY DEF IInv, NoLostJob, Wakeable, Rows_of
  <1>2. QED
    BY <1>1, InvariantCorrect, PTL

\* Only the report transaction of a worker whose claim is in force writes a
\* report (runner.go, Run).
LEMMA ReportStep ==
  ASSUME Next
  PROVE  \/ report' = report
         \/ \E w \in Workers :
               /\ SaveReport(w)
               /\ jobs[message[w][1]].status = "RUNNING"
               /\ report' = [report EXCEPT ![message[w][1]] = local[w].token]
  <1>1. ASSUME NEW w \in Workers, Handle(w), ~SaveReport(w) PROVE report' = report
    BY <1>1 DEF Handle, Claim, RecordClaim, ReadClaimed, ReadDenied, RunnerStops, Stamp,
                Finish, Retry, FinishLost, RecordFinish
  <1>2. ASSUME NEW w \in Workers, SaveReport(w)
        PROVE  \/ report' = report
               \/ /\ jobs[message[w][1]].status = "RUNNING"
                  /\ report' = [report EXCEPT ![message[w][1]] = local[w].token]
    BY <1>2 DEF SaveReport
  <1>3. ASSUME NEW w \in Workers,
               Fetch(w) \/ Commit(w) \/ RenewFails(w) \/ StoreError(w) \/ WorkerCrash(w)
        PROVE  report' = report
    BY <1>3 DEF Fetch, Commit, RenewFails, StoreError, WorkerCrash
  <1>4. ASSUME NEW r \in Relays, Poll(r) \/ PublishFails(r) \/ RelayFails(r)
        PROVE  report' = report
    BY <1>4 DEF Poll, Recover, Scan, Publish, MarkPublished, MarkFailed, PublishFails, RelayFails
  <1>5. ASSUME NEW k \in Jobs, Receive(k) \/ Clock(k) PROVE report' = report
    BY <1>5 DEF Receive, Clock, JobDue, LeaseExpires, Ages
  <1>6. (\E row \in deferred : RowDue(row)) \/ LoseMessage => report' = report
    BY DEF RowDue, LoseMessage
  <1>7. QED
    BY <1>1, <1>2, <1>3, <1>4, <1>5, <1>6 DEF Next

\* Once a job is over, its row and its report never change again, whichever
\* late worker, duplicate message or recovery comes by (mysql.go, recovery.go).
THEOREM TerminalJobsAreFrozen == Spec => TerminalFrozen
  <1>1. IInv /\ [Next]_vars =>
          [\A j \in Jobs : jobs[j].status \in Terminal =>
              jobs'[j] = jobs[j] /\ report'[j] = report[j]]_vars
    <2>1. SUFFICES ASSUME IInv, Next, NEW j \in Jobs, jobs[j].status \in Terminal
                   PROVE  jobs'[j] = jobs[j] /\ report'[j] = report[j]
      OBVIOUS
    <2>2. jobs'[j] = jobs[j]
      BY <2>1, JobStep DEF Terminal
    <2>3. report'[j] = report[j]
      BY <2>1, ReportStep DEF Terminal, IInv, TypeOK
    <2>4. QED
      BY <2>2, <2>3
  <1>2. QED
    BY <1>1, InvariantCorrect, PTL DEF Spec, TerminalFrozen

-----------------------------------------------------------------------------
(* The workflow implements JobPromise *)

\* Claims that have not reached the Runner yet are distinct, and new to it.
Unspent(w) == pc[w] \in {"granted", "read"}

DistinctClaims ==
    \A w \in Workers : Unspent(w) =>
        /\ local[w].token \notin started[message[w][1]]
        /\ \A v \in Workers \ {w} :
              Unspent(v) /\ message[v][1] = message[w][1] => local[v].token # local[w].token

-----------------------------------------------------------------------------
(* A claim reaches the Runner at most once *)

\* A claim becomes unspent only by the UPDATE that makes it; until then, and
\* while it stays unspent, no other step touches what its worker remembers.
LEMMA UnspentStep ==
  ASSUME IInv, Next, NEW w \in Workers, Unspent(w)'
  PROVE  \/ /\ Claim(w) /\ pc[w] = "claim"
            /\ message' = message /\ started' = started
            /\ local'[w].token = jobs[message[w][1]].attempts + 1
            /\ \A v \in Workers \ {w} : pc'[v] = pc[v] /\ local'[v] = local[v]
         \/ Unspent(w) /\ message'[w] = message[w] /\ local'[w].token = local[w].token
  <1> USE DEF IInv
  <1>1. CASE Claim(w)
    <2>1. message[w] \in Rows /\ jobs[message[w][1]].attempts + 1 \in Nat
      BY <1>1 DEF Claim, TypeOK, Rows, Job
    <2>2. pc'[w] # "denied"
      BY DEF Unspent
    <2>3. local' = [local EXCEPT ![w].token = jobs[message[w][1]].attempts + 1]
      BY <1>1, <2>2 DEF Claim, Goto, TypeOK
    <2>4. QED
      BY <1>1, <2>1, <2>3 DEF Claim, Goto, TypeOK, Locals
  <1>2. CASE RecordClaim(w)
    BY <1>2 DEF RecordClaim, Unspent, Goto, TypeOK
  <1>3. ~(\/ Fetch(w) \/ Commit(w) \/ RenewFails(w) \/ StoreError(w) \/ WorkerCrash(w)
          \/ ReadClaimed(w) \/ ReadDenied(w) \/ SaveReport(w) \/ RunnerStops(w) \/ Stamp(w)
          \/ Finish(w) \/ Retry(w) \/ FinishLost(w) \/ RecordFinish(w))
    BY DEF Fetch, Commit, RenewFails, StoreError, WorkerCrash, ReadClaimed, ReadDenied,
           SaveReport, RunnerStops, Stamp, Finish, Retry, FinishLost, RecordFinish,
           HandleAgain, Goto, Unspent, TypeOK
  <1>4. ASSUME NEW v \in Workers, v # w,
               \/ Fetch(v) \/ Handle(v) \/ Commit(v)
               \/ RenewFails(v) \/ StoreError(v) \/ WorkerCrash(v)
        PROVE  pc'[w] = pc[w] /\ message'[w] = message[w] /\ local'[w] = local[w]
    BY <1>4 DEF Handle, Claim, RecordClaim, ReadClaimed, ReadDenied, SaveReport, RunnerStops,
         Stamp, Finish, Retry, FinishLost, RecordFinish, RenewFails, StoreError, Fetch, Commit,
         WorkerCrash, HandleAgain, Goto, TypeOK
  <1>5. QED
    BY <1>1, <1>2, <1>3, <1>4, Frame DEF Handle, Unspent

\* What a step adds to the claims that reached the Runner is the unspent claim
\* of the worker that takes it.
LEMMA StartedStep ==
  ASSUME IInv, Next
  PROVE  \/ started' = started
         \/ \E w \in Workers :
               /\ ReadClaimed(w) /\ pc[w] = "read" /\ pc'[w] = "run"
               /\ jobs[message[w][1]].attempts <= MaxAttempts
               /\ message[w][1] \in Jobs
               /\ message' = message /\ jobs' = jobs /\ report' = report
               /\ started' = [started EXCEPT ![message[w][1]] = @ \cup {local[w].token}]
  <1> USE DEF IInv
  <1>1. ASSUME NEW w \in Workers, Handle(w), ~ReadClaimed(w) PROVE started' = started
    BY <1>1 DEF Handle, Claim, RecordClaim, ReadDenied, SaveReport,
                RunnerStops, Stamp, Finish, Retry, FinishLost, RecordFinish
  <1>2. ASSUME NEW w \in Workers, ReadClaimed(w)
        PROVE  \/ started' = started
               \/ /\ pc[w] = "read" /\ pc'[w] = "run"
                  /\ jobs[message[w][1]].attempts <= MaxAttempts
                  /\ message[w][1] \in Jobs
                  /\ message' = message /\ jobs' = jobs /\ report' = report
                  /\ started' = [started EXCEPT ![message[w][1]] = @ \cup {local[w].token}]
    <2>1. message[w][1] \in Jobs /\ pc[w] = "read"
      BY <1>2 DEF ReadClaimed, TypeOK, Rows
    <2>2. QED
      BY <1>2, <2>1 DEF ReadClaimed, Goto, TypeOK
  <1>3. ASSUME NEW w \in Workers,
               Fetch(w) \/ Commit(w) \/ RenewFails(w) \/ StoreError(w) \/ WorkerCrash(w)
        PROVE  started' = started
    BY <1>3 DEF Fetch, Commit, RenewFails, StoreError, WorkerCrash
  <1>4. ASSUME NEW r \in Relays, Poll(r) \/ PublishFails(r) \/ RelayFails(r)
        PROVE  started' = started
    BY <1>4 DEF Poll, Recover, Scan, Publish, MarkPublished, MarkFailed, PublishFails, RelayFails
  <1>5. ASSUME NEW k \in Jobs, Receive(k) \/ Clock(k) PROVE started' = started
    BY <1>5 DEF Receive, Clock, JobDue, LeaseExpires, Ages
  <1>6. (\E row \in deferred : RowDue(row)) \/ LoseMessage => started' = started
    BY DEF RowDue, LoseMessage
  <1>7. QED
    BY <1>1, <1>2, <1>3, <1>4, <1>5, <1>6 DEF Next

\* Distinct claims stay distinct.
LEMMA DistinctStep ==
  ASSUME IInv, DistinctClaims, Next
  PROVE  DistinctClaims'
  <1> USE DEF IInv
  <1>0. ASSUME NEW w \in Workers, pc[w] # "idle"
        PROVE  /\ message[w][1] \in Jobs
               /\ jobs[message[w][1]].attempts \in Nat
               /\ local[w].token \in Nat
               /\ local[w].token <= jobs[message[w][1]].attempts
    BY <1>0 DEF TypeOK, Rows, Job, Locals, Remembered
  <1>1. ASSUME NEW w \in Workers, Unspent(w)'
        PROVE  local'[w].token \notin started'[message'[w][1]]
    <2>1. CASE started' = started /\ Unspent(w) /\ message'[w] = message[w]
               /\ local'[w].token = local[w].token
      BY <2>1 DEF DistinctClaims
    <2>2. CASE Claim(w) /\ pc[w] = "claim" /\ message' = message /\ started' = started
               /\ local'[w].token = jobs[message[w][1]].attempts + 1
      <3>1. \A n \in started[message[w][1]] : n \in Nat /\ n <= jobs[message[w][1]].attempts
        BY <2>2, <1>0 DEF Admitted
      <3>2. QED
        BY <2>2, <3>1, <1>0
    <2>3. ASSUME NEW v \in Workers, v # w, pc[v] = "read", message[v][1] \in Jobs,
                 message' = message, Unspent(w), local'[w].token = local[w].token,
                 started' = [started EXCEPT ![message[v][1]] = @ \cup {local[v].token}]
          PROVE  local'[w].token \notin started'[message'[w][1]]
      <3>1. local[w].token \notin started[message[w][1]]
        BY <2>3 DEF DistinctClaims
      <3>2. message[v][1] = message[w][1] => local[w].token # local[v].token
        BY <2>3 DEF DistinctClaims, Unspent
      <3>3. message[w][1] \in Jobs
        BY <2>3, <1>0 DEF Unspent
      <3>4. QED
        BY <2>3, <3>1, <3>2, <3>3 DEF TypeOK
    <2>4. QED
      BY <1>1, <2>1, <2>2, <2>3, UnspentStep, StartedStep DEF Unspent, Claim
  <1>2. ASSUME NEW w \in Workers, NEW v \in Workers, v # w, Unspent(w)', Unspent(v)',
               message'[v][1] = message'[w][1]
        PROVE  local'[v].token # local'[w].token
    <2>1. ASSUME NEW x \in Workers, NEW y \in Workers, x # y, Unspent(y)', message' = message,
                 message[x][1] = message[y][1], pc[x] = "claim",
                 local'[x].token = jobs[message[x][1]].attempts + 1,
                 pc'[y] = pc[y], local'[y] = local[y]
          PROVE  local'[x].token # local'[y].token
      BY <2>1, <1>0 DEF Unspent
    <2>2. CASE /\ Unspent(w) /\ message'[w] = message[w] /\ local'[w].token = local[w].token
               /\ Unspent(v) /\ message'[v] = message[v] /\ local'[v].token = local[v].token
      BY <1>2, <2>2 DEF DistinctClaims
    <2>3. CASE Claim(w) /\ pc[w] = "claim" /\ message' = message
               /\ local'[w].token = jobs[message[w][1]].attempts + 1
               /\ pc'[v] = pc[v] /\ local'[v] = local[v]
      BY <1>2, <2>1, <2>3
    <2>4. CASE Claim(v) /\ pc[v] = "claim" /\ message' = message
               /\ local'[v].token = jobs[message[v][1]].attempts + 1
               /\ pc'[w] = pc[w] /\ local'[w] = local[w]
      BY <1>2, <2>1, <2>4
    <2>5. QED
      BY <1>2, <2>2, <2>3, <2>4, UnspentStep
  <1>3. QED
    BY <1>1, <1>2 DEF DistinctClaims

\* No claim reaches the Runner twice: its number is new until it does.
THEOREM ClaimsAreDistinct == Spec => []DistinctClaims
  <1>1. Init => DistinctClaims
    BY DEF Init, DistinctClaims, Unspent
  <1>2. IInv /\ DistinctClaims /\ [Next]_vars => DistinctClaims'
    <2>1. DistinctClaims /\ UNCHANGED vars => DistinctClaims'
      BY DEF vars, DistinctClaims, Unspent
    <2>2. QED
      BY <2>1, DistinctStep
  <1>3. QED
    BY <1>1, <1>2, InvariantCorrect, PTL DEF Spec

-----------------------------------------------------------------------------
(* The refinement *)

\* The initial states agree.
LEMMA PromiseInit == Init => Promise!Init
  <1> SUFFICES ASSUME Init PROVE Promise!Init
    OBVIOUS
  <1>1. \A j \in Jobs : /\ jobs[j].status = "ABSENT" /\ jobs[j].attempts = 0
                        /\ started[j] = {} /\ report[j] = 0
    BY DEF Init, NoJob
  <1>2. \A j \in Jobs : PhaseOf(j) = "absent"
    BY <1>1 DEF PhaseOf
  <1>3. \A j \in Jobs : TriesOf(j) = 0
    BY <1>1, MaxAttemptsAssumption DEF TriesOf
  <1>4. [j \in Jobs |-> report[j] # 0] = [j \in Jobs |-> FALSE]
    BY <1>1
  <1>5. started = [j \in Jobs |-> {}]
    BY DEF Init
  <1>6. QED
    BY <1>2, <1>3, <1>4, <1>5 DEF Promise!Init

\* A step that ends no job, accepts none, grants no try, calls no Runner and
\* stores no first report is invisible.
LEMMA Invisible ==
  ASSUME started' = started,
         \A j \in Jobs : /\ PhaseOf(j)' = PhaseOf(j) /\ TriesOf(j)' = TriesOf(j)
                         /\ (report'[j] # 0) = (report[j] # 0)
  PROVE  UNCHANGED Promise!vars
  BY DEF Promise!vars

\* Steps that leave the rows, the runs and the reports of all jobs alone.
LEMMA InvisibleRest ==
  ASSUME Next,
         ~\E j \in Jobs : Receive(j) \/ Clock(j),
         ~\E w \in Workers : Claim(w) \/ Finish(w) \/ Retry(w) \/ ReadClaimed(w) \/ SaveReport(w),
         ~\E r \in Relays : Recover(r)
  PROVE  UNCHANGED <<jobs, started, report>>
  <1>1. ASSUME NEW w \in Workers,
               \/ Fetch(w) \/ Commit(w) \/ RenewFails(w) \/ StoreError(w) \/ WorkerCrash(w)
               \/ RecordClaim(w) \/ ReadDenied(w) \/ RunnerStops(w) \/ Stamp(w)
               \/ FinishLost(w) \/ RecordFinish(w)
        PROVE  UNCHANGED <<jobs, started, report>>
    BY <1>1 DEF Fetch, Commit, RenewFails, StoreError, WorkerCrash, RecordClaim, ReadDenied,
                RunnerStops, Stamp, FinishLost, RecordFinish
  <1>2. ASSUME NEW r \in Relays, Poll(r) \/ PublishFails(r) \/ RelayFails(r)
        PROVE  UNCHANGED <<jobs, started, report>>
    BY <1>2 DEF Poll, Scan, Publish, MarkPublished, MarkFailed, PublishFails, RelayFails
  <1>3. (\E row \in deferred : RowDue(row)) \/ LoseMessage => UNCHANGED <<jobs, started, report>>
    BY DEF RowDue, LoseMessage
  <1>4. QED
    BY <1>1, <1>2, <1>3 DEF Next, Handle

\* Deadlines, retries and recoveries keep an open job open.
LEMMA StaysOpen ==
  ASSUME IInv, Next,
         \/ \E k \in Jobs : Clock(k)
         \/ \E w \in Workers : Retry(w)
         \/ \E r \in Relays : Recover(r)
  PROVE  UNCHANGED Promise!vars
  <1> USE DEF IInv
  <1>1. UNCHANGED <<started, report>>
    BY DEF Clock, JobDue, LeaseExpires, Ages, Retry, Recover
  <1>2. ASSUME NEW j \in Jobs
        PROVE  \/ jobs'[j] = jobs[j]
               \/ /\ jobs[j].status \notin Terminal \cup {"ABSENT"}
                  /\ jobs'[j].status \notin Terminal \cup {"ABSENT"}
                  /\ jobs'[j].attempts = jobs[j].attempts
    <2>0. jobs[j] \in Job
      BY DEF TypeOK
    <2>1. ASSUME NEW k \in Jobs, Clock(k)
          PROVE  \/ jobs'[j] = jobs[j]
                 \/ /\ jobs[j].status \notin Terminal \cup {"ABSENT"}
                    /\ jobs'[j].status = jobs[j].status
                    /\ jobs'[j].attempts = jobs[j].attempts
      <3>1. CASE JobDue(k)
        BY <3>1, <2>0 DEF JobDue, TypeOK, Job, Terminal
      <3>2. CASE LeaseExpires(k)
        BY <3>2, <2>0 DEF LeaseExpires, TypeOK, Job, Terminal
      <3>3. CASE Ages(k)
        BY <3>3, <2>0 DEF Ages, TypeOK, Job, Terminal, Waiting
      <3>4. QED
        BY <2>1, <3>1, <3>2, <3>3 DEF Clock
    <2>2. ASSUME NEW w \in Workers, Retry(w)
          PROVE  \/ jobs'[j] = jobs[j]
                 \/ /\ jobs[j].status = "RUNNING" /\ jobs'[j].status = "RETRYING"
                    /\ jobs'[j].attempts = jobs[j].attempts
      <3>1. /\ jobs' = [jobs EXCEPT ![message[w][1]].status = "RETRYING",
                          ![message[w][1]].owner = 0, ![message[w][1]].live = FALSE,
                          ![message[w][1]].due = FALSE]
            /\ jobs[message[w][1]].status = "RUNNING"
        BY <2>2 DEF Retry, StillOwner
      <3>2. QED
        BY <3>1, <2>0 DEF TypeOK, Job
    <2>3. ASSUME NEW r \in Relays, Recover(r)
          PROVE  \/ jobs'[j] = jobs[j]
                 \/ /\ jobs[j].status \in Waiting \cup {"RUNNING"}
                    /\ jobs'[j].status = "RETRYING"
                    /\ jobs'[j].attempts = jobs[j].attempts
      <3>1. PICK S \in SUBSET {k \in Jobs : Recoverable(k)} :
               jobs' = [k \in Jobs |-> IF k \in S
                          THEN [status |-> "RETRYING", attempts |-> jobs[k].attempts,
                                owner |-> 0, live |-> FALSE, due |-> TRUE, aged |-> FALSE]
                          ELSE jobs[k]]
        BY <2>3 DEF Recover, Limited
      <3>2. QED
        BY <3>1, <2>3 DEF Recoverable
    <2>4. QED
      BY <2>1, <2>2, <2>3 DEF Terminal, Waiting
  <1>3. QED
    BY <1>1, <1>2, Invisible DEF PhaseOf, TriesOf

\* The intake's transaction accepts the job.
LEMMA AcceptStep ==
  ASSUME IInv, NEW k \in Jobs, Receive(k)
  PROVE  Promise!Accept(k)
  <1> USE DEF IInv
  <1>1. /\ started' = started /\ report' = report
        /\ jobs[k].status = "ABSENT" /\ jobs[k].attempts = 0
        /\ jobs'[k].status = "QUEUED" /\ jobs'[k].attempts = 0
        /\ \A j \in Jobs : j # k => jobs'[j] = jobs[j]
    BY DEF Receive, NoJob, TypeOK
  <1>2. PhaseOf(k) = "absent" /\ PhaseOf(k)' = "open"
    BY <1>1 DEF PhaseOf, Terminal
  <1>3. \A j \in Jobs : /\ j # k => PhaseOf(j)' = PhaseOf(j)
                        /\ TriesOf(j)' = TriesOf(j)
    BY <1>1 DEF PhaseOf, TriesOf
  <1>4. QED
    BY <1>1, <1>2, <1>3 DEF Promise!Accept

\* A claim grants a try while tries are left, and is invisible afterwards.
LEMMA GrantStep ==
  ASSUME IInv, NEW w \in Workers, Claim(w),
         NEW k \in Jobs, k = message[w][1]
  PROVE  Promise!Grant(k) \/ UNCHANGED Promise!vars
  <1> USE DEF IInv
  <1>0. UNCHANGED <<started, report>> /\ MaxAttempts \in Nat
    BY MaxAttemptsAssumption DEF Claim
  <1>1. CASE jobs' = jobs
    BY <1>0, <1>1, Invisible DEF PhaseOf, TriesOf
  <1>2. CASE Claimable(k) /\ jobs' = [jobs EXCEPT ![k] =
               [status |-> "RUNNING", attempts |-> jobs[k].attempts + 1,
                owner |-> jobs[k].attempts + 1, live |-> TRUE, due |-> TRUE, aged |-> FALSE]]
    <2>1. k \in Jobs /\ jobs[k].attempts \in Nat /\ pc[w] = "claim"
      BY DEF Claim, TypeOK, Rows, Job
    <2>2. /\ jobs[k].status \in Waiting \cup {"RUNNING"}
          /\ jobs'[k].status = "RUNNING" /\ jobs'[k].attempts = jobs[k].attempts + 1
          /\ \A j \in Jobs : j # k => jobs'[j] = jobs[j]
      BY <1>2, <2>1 DEF Claimable, TypeOK
    <2>3. PhaseOf(k) = "open" /\ PhaseOf(k)' = "open"
      BY <2>2 DEF PhaseOf, Terminal, Waiting
    <2>4. \A j \in Jobs : PhaseOf(j)' = PhaseOf(j)
      BY <2>2, <2>3 DEF PhaseOf
    <2>5. \A j \in Jobs : j # k => TriesOf(j)' = TriesOf(j)
      BY <2>2 DEF TriesOf
    <2>6. CASE jobs[k].attempts < MaxAttempts
      <3>1. TriesOf(k) < MaxAttempts /\ TriesOf(k)' = TriesOf(k) + 1
        BY <1>0, <2>1, <2>2, <2>6 DEF TriesOf
      <3>2. QED
        BY <1>0, <2>1, <2>3, <2>4, <2>5, <3>1 DEF Promise!Grant
    <2>7. CASE ~(jobs[k].attempts < MaxAttempts)
      <3>1. TriesOf(k)' = TriesOf(k)
        BY <1>0, <2>1, <2>2, <2>7 DEF TriesOf
      <3>2. QED
        BY <1>0, <2>4, <2>5, <3>1, Invisible
    <2>8. QED
      BY <2>6, <2>7
  <1>3. QED
    BY <1>1, <1>2 DEF Claim

\* A claim that reaches the Runner is a granted try that did not run before.
LEMMA RunStep ==
  ASSUME IInv, DistinctClaims, Next, NEW w \in Workers, ReadClaimed(w),
         NEW k \in Jobs, k = message[w][1]
  PROVE  Promise!Run(k) \/ UNCHANGED Promise!vars
  <1> USE DEF IInv
  <1> DEFINE t == local[w].token
  <1>0. /\ pc[w] = "read" /\ k \in Jobs /\ jobs[k].attempts \in Nat
        /\ t \in Nat /\ t >= 1 /\ t <= jobs[k].attempts
        /\ UNCHANGED <<jobs, report>>
    BY DEF ReadClaimed, TypeOK, Rows, Job, Locals, Remembered
  <1>1. CASE started' = started
    BY <1>0, <1>1, Invisible DEF PhaseOf, TriesOf
  <1>2. CASE /\ jobs[k].attempts <= MaxAttempts
             /\ started' = [started EXCEPT ![k] = @ \cup {t}]
    <2>1. t \in 1..TriesOf(k)
      BY <1>0, <1>2 DEF TriesOf
    <2>2. t \notin started[k]
      BY <1>0 DEF DistinctClaims, Unspent
    <2>3. \A j \in Jobs : PhaseOf(j)' = PhaseOf(j) /\ TriesOf(j)' = TriesOf(j)
      BY <1>0 DEF PhaseOf, TriesOf
    <2>4. QED
      BY <1>0, <1>2, <2>1, <2>2, <2>3 DEF Promise!Run
  <1>3. QED
    BY <1>1, <1>2 DEF ReadClaimed

\* A report is stored for an open job that has run.
LEMMA StoreStep ==
  ASSUME IInv, Next, NEW w \in Workers, SaveReport(w),
         NEW k \in Jobs, k = message[w][1]
  PROVE  Promise!Store(k) \/ UNCHANGED Promise!vars
  <1> USE DEF IInv
  <1>0. /\ pc[w] = "run" /\ k \in Jobs /\ local[w].token \in Nat /\ local[w].token >= 1
        /\ started[k] # {}
        /\ UNCHANGED <<jobs, started>>
    BY DEF SaveReport, TypeOK, Rows, Locals, Remembered
  <1>1. \A j \in Jobs : PhaseOf(j)' = PhaseOf(j) /\ TriesOf(j)' = TriesOf(j)
    BY <1>0 DEF PhaseOf, TriesOf
  <1>2. CASE report' = report
    BY <1>0, <1>1, <1>2, Invisible
  <1>3. CASE /\ jobs[k].status = "RUNNING"
             /\ report' = [report EXCEPT ![k] = local[w].token]
    <2>1. PhaseOf(k) = "open"
      BY <1>3 DEF PhaseOf, Terminal
    <2>2. report'[k] # 0 /\ \A j \in Jobs : j # k => report'[j] = report[j]
      BY <1>0, <1>3 DEF TypeOK
    <2>3. [j \in Jobs |-> report'[j] # 0]
            = [[j \in Jobs |-> report[j] # 0] EXCEPT ![k] = TRUE]
      BY <1>0, <2>2
    <2>4. QED
      BY <1>0, <1>1, <2>1, <2>3 DEF Promise!Store
  <1>4. QED
    BY <1>2, <1>3 DEF SaveReport

\* A worker ends an open job as the promise allows.
LEMMA CloseStep ==
  ASSUME IInv, Next, NEW w \in Workers, Finish(w),
         NEW k \in Jobs, k = message[w][1]
  PROVE  \E end \in Promise!Closed : Promise!Close(k, end)
  <1> USE DEF IInv
  <1>a. PICK end : end = Verdict(local[w])
    OBVIOUS
  <1>0. /\ pc[w] = "finish" /\ k \in Jobs /\ jobs[k] \in Job /\ jobs[k].attempts \in Nat
        /\ local[w].readAttempts \in Nat /\ MaxAttempts \in Nat
        /\ Remembered(w, k)
        /\ UNCHANGED <<started, report>>
    BY MaxAttemptsAssumption DEF Finish, TypeOK, Rows, Locals, Job
  <1>1. /\ end \in Terminal /\ jobs[k].status = "RUNNING"
        /\ jobs' = [jobs EXCEPT ![k].status = end, ![k].owner = 0, ![k].live = FALSE]
    BY <1>a DEF Finish, StillOwner
  <1>2. /\ jobs'[k].status = end /\ jobs'[k].attempts = jobs[k].attempts
        /\ \A j \in Jobs : j # k => jobs'[j] = jobs[j]
    BY <1>0, <1>1 DEF TypeOK, Job
  <1>3. PhaseOf(k) = "open" /\ PhaseOf(k)' = end
    BY <1>1, <1>2 DEF PhaseOf, Terminal
  <1>4. \A j \in Jobs : /\ j # k => PhaseOf(j)' = PhaseOf(j)
                        /\ TriesOf(j)' = TriesOf(j)
    BY <1>2 DEF PhaseOf, TriesOf
  <1>5. end = "COMPLETED" => report[k] # 0
    BY <1>a, <1>0 DEF Verdict, Remembered
  <1>6. end = "REJECTED" => started[k] # {}
    BY <1>a, <1>0 DEF Verdict, Remembered
  <1>7. end = "DEAD_LETTER" => TriesOf(k) = MaxAttempts
    <2>1. end = "DEAD_LETTER" => local[w].readAttempts >= MaxAttempts
      BY <1>a, <1>0 DEF Verdict, Remembered
    <2>2. local[w].readAttempts <= jobs[k].attempts
      BY <1>0 DEF Remembered
    <2>3. QED
      BY <1>0, <2>1, <2>2 DEF TriesOf
  <1>8. Promise!Close(k, end)
    BY <1>0, <1>3, <1>4, <1>5, <1>6, <1>7 DEF Promise!Close
  <1>9. end \in Promise!Closed
    BY <1>1 DEF Promise!Closed, Terminal
  <1>10. QED
    BY <1>8, <1>9

\* Every step of the workflow is a step of the promise, or invisible to it.
LEMMA PromiseStep ==
  ASSUME IInv, DistinctClaims, [Next]_vars
  PROVE  [Promise!Next]_(Promise!vars)
  <1>1. CASE UNCHANGED vars
    BY <1>1, Invisible DEF vars, PhaseOf, TriesOf
  <1>2. CASE Next
    <2>1. ASSUME NEW k \in Jobs, Receive(k) PROVE Promise!Next
      BY <2>1, AcceptStep DEF Promise!Next
    <2>2. ASSUME NEW w \in Workers, pc[w] # "idle" PROVE message[w][1] \in Jobs
      BY <2>2 DEF IInv, TypeOK, Rows
    <2>3. ASSUME NEW w \in Workers, Claim(w) PROVE Promise!Next \/ UNCHANGED Promise!vars
      <3>1. message[w][1] \in Jobs
        BY <2>2, <2>3 DEF Claim
      <3>2. QED
        BY <2>3, <3>1, GrantStep DEF Promise!Next
    <2>4. ASSUME NEW w \in Workers, ReadClaimed(w) PROVE Promise!Next \/ UNCHANGED Promise!vars
      <3>1. message[w][1] \in Jobs
        BY <2>2, <2>4 DEF ReadClaimed
      <3>2. QED
        BY <1>2, <2>4, <3>1, RunStep DEF Promise!Next
    <2>5. ASSUME NEW w \in Workers, SaveReport(w) PROVE Promise!Next \/ UNCHANGED Promise!vars
      <3>1. message[w][1] \in Jobs
        BY <2>2, <2>5 DEF SaveReport
      <3>2. QED
        BY <1>2, <2>5, <3>1, StoreStep DEF Promise!Next
    <2>6. ASSUME NEW w \in Workers, Finish(w) PROVE Promise!Next
      <3>1. message[w][1] \in Jobs
        BY <2>2, <2>6 DEF Finish
      <3>2. QED
        BY <1>2, <2>6, <3>1, CloseStep DEF Promise!Next
    <2>7. CASE \/ \E k \in Jobs : Clock(k)
               \/ \E w \in Workers : Retry(w)
               \/ \E r \in Relays : Recover(r)
      BY <1>2, <2>7, StaysOpen
    <2>8. CASE /\ ~\E j \in Jobs : Receive(j) \/ Clock(j)
               /\ ~\E w \in Workers : \/ Claim(w) \/ Finish(w) \/ Retry(w)
                                      \/ ReadClaimed(w) \/ SaveReport(w)
               /\ ~\E r \in Relays : Recover(r)
      BY <1>2, <2>8, InvisibleRest, Invisible DEF PhaseOf, TriesOf
    <2>9. QED
      BY <2>1, <2>3, <2>4, <2>5, <2>6, <2>7, <2>8
  <1>3. QED
    BY <1>1, <1>2

\* The workflow keeps the promise made to whoever submits a job: a bounded
\* number of tries, each run once, evidence before completion, no early
\* dead-letter, and an end that is final (runtime.go, mysql.go, recovery.go).
THEOREM WorkflowKeepsPromise == Spec => PromiseKept
  <1>1. Init => Promise!Init
    BY PromiseInit
  <1>2. IInv /\ DistinctClaims /\ [Next]_vars => [Promise!Next]_(Promise!vars)
    BY PromiseStep
  <1>3. QED
    BY <1>1, <1>2, InvariantCorrect, ClaimsAreDistinct, PTL DEF Spec, PromiseKept, Promise!Spec

=============================================================================

------------------------------ MODULE JobQueue ------------------------------
(***************************************************************************)
(* The durable job workflow of sql-sentinel: the MySQL job table with its  *)
(* transactional outbox, the relays that publish the outbox to Kafka and   *)
(* recover stuck jobs, the Kafka topic, and the workers that claim a job   *)
(* under a lease, run it and finish it.                                    *)
(*                                                                         *)
(* The grain is the SQL statement, or the transaction where the code opens *)
(* one: every step below is one database statement or transaction, one     *)
(* broker call, one decision of the worker loop, or the passing of a       *)
(* deadline.  Timestamps are reduced to what the WHERE clauses compare:    *)
(* "live" (lease_until > now), "due" (next_attempt_at <= now), "aged"      *)
(* (updated_at <= now - 5min) and "deferred" (available_at > now).         *)
(*                                                                         *)
(* A claim's owner string is unique and is written by the UPDATE that also *)
(* increments attempts, so the k-th claim of a job is identified by k.     *)
(***************************************************************************)
EXTENDS Naturals, FiniteSets

CONSTANTS
    Jobs,         \* deliveries the intake may accept
    Workers,      \* kafka-worker processes
    Relays,       \* kafka-relay processes
    MaxAttempts,  \* Config.MaxAttempts
    BatchSize,    \* Relay.BatchSize, also the limit of RecoverExpired
    MaxFaults,    \* bound: crashes, errors, stalls and rebalances in one behaviour
    MaxLosses     \* bound: messages Kafka drops before they are handled

ASSUME MaxAttemptsAssumption == MaxAttempts \in Nat \ {0}
ASSUME BatchSizeAssumption == BatchSize \in Nat \ {0}
ASSUME BoundsAssumption == MaxFaults \in Nat /\ MaxLosses \in Nat

VARIABLES
    jobs,         \* sql_sentinel_jobs, one row per job
    report,       \* sql_sentinel_reports: the claim that wrote the row, 0 if none
    created,      \* number of outbox rows ever inserted for a job
    unpublished,  \* outbox rows <<job, number>> whose published_at is NULL
    deferred,     \* the unpublished rows whose available_at lies ahead
    produced,     \* number of messages ever appended to the topic for a job
    topic,        \* messages <<job, number>> whose offset is not committed
    pc,           \* where each worker stands in Worker.Run / Worker.Handle
    message,      \* the Kafka message the worker holds
    local,        \* what the worker's Handle call remembers
    relay,        \* each relay's scan
    started,      \* the claims of a job whose Runner was called
    faults,       \* faults so far
    losses        \* messages lost so far

storeVars == <<jobs, report, created, unpublished, deferred>>
brokerVars == <<produced, topic>>
workerVars == <<pc, message, local, started>>
budgetVars == <<faults, losses>>
vars == <<storeVars, brokerVars, workerVars, relay, budgetVars>>

-----------------------------------------------------------------------------
(* Values *)

Terminal == {"COMPLETED", "REJECTED", "DEAD_LETTER"}
Waiting == {"QUEUED", "RETRYING"}
\* RECEIVED is replaced by QUEUED inside the inserting transaction, so no
\* other session ever sees it.
Statuses == {"ABSENT", "RUNNING"} \cup Waiting \cup Terminal

Job == [status: Statuses, attempts: Nat, owner: Nat,
        live: BOOLEAN, due: BOOLEAN, aged: BOOLEAN]

NoJob == [status |-> "ABSENT", attempts |-> 0, owner |-> 0,
          live |-> FALSE, due |-> FALSE, aged |-> FALSE]

Outcomes == {"none", "ok", "rejected", "failed", "exhausted"}

Locations == {"idle", "claim", "denied", "granted", "read", "run",
              "returned", "finish", "recorded", "commit"}

Locals == [token: Nat, readOwner: Nat, readAttempts: Nat,
           outcome: Outcomes, fresh: BOOLEAN]

NoLocals == [token |-> 0, readOwner |-> 0, readAttempts |-> 0,
             outcome |-> "none", fresh |-> FALSE]

Rows == Jobs \X (Nat \ {0})
NoRow == <<>>

RelayStates == [pc: {"idle", "scan", "publish", "mark", "defer"},
                batch: SUBSET Rows, row: Rows \cup {NoRow}]
RelayIdle == [pc |-> "idle", batch |-> {}, row |-> NoRow]

-----------------------------------------------------------------------------
(* The control-plane tables *)

Rows_of(j, S) == {r \in S : r[1] = j}

\* INSERT INTO sql_sentinel_outbox, available at once or only later.
InsertRow(j, later) ==
    LET row == <<j, created[j] + 1>>
    IN  /\ created' = [created EXCEPT ![j] = @ + 1]
        /\ unpublished' = unpublished \cup {row}
        /\ deferred' = IF later THEN deferred \cup {row} ELSE deferred

\* The WHERE clause of Claim's UPDATE.
Claimable(j) ==
    \/ jobs[j].status \in Waiting /\ jobs[j].due
    \/ jobs[j].status = "RUNNING" /\ ~jobs[j].live

\* Mutant: recovery looks only for waiting jobs, never for expired leases.
Recoverable_WaitingOnly(j) ==
    /\ jobs[j].status \in Waiting
    /\ jobs[j].due /\ jobs[j].aged
    /\ Rows_of(j, unpublished) = {}

\* The WHERE clause of RecoverExpired's SELECT.
Recoverable(j) ==
    \/ jobs[j].status = "RUNNING" /\ ~jobs[j].live
    \/ /\ jobs[j].status \in Waiting
       /\ jobs[j].due /\ jobs[j].aged
       /\ Rows_of(j, unpublished) = {}

\* Receive's transaction for a new delivery: the job row, already QUEUED, and
\* its first outbox row commit together.
Receive(j) ==
    /\ jobs[j].status = "ABSENT"
    /\ jobs' = [jobs EXCEPT ![j] = [NoJob EXCEPT !.status = "QUEUED", !.due = TRUE]]
    /\ InsertRow(j, FALSE)
    /\ UNCHANGED <<report, brokerVars, workerVars, relay, budgetVars>>

-----------------------------------------------------------------------------
(* The passing of deadlines, and the faults *)

Fault == faults < MaxFaults /\ faults' = faults + 1
NoFault == UNCHANGED faults

\* next_attempt_at of a RETRYING job is reached.
JobDue(j) ==
    /\ ~jobs[j].due /\ jobs[j].status = "RETRYING"
    /\ jobs' = [jobs EXCEPT ![j].due = TRUE]
    /\ UNCHANGED <<report, created, unpublished, deferred, brokerVars,
                   workerVars, relay, budgetVars>>

\* available_at of an outbox row is reached.
RowDue(row) ==
    /\ row \in deferred
    /\ deferred' = deferred \ {row}
    /\ UNCHANGED <<jobs, report, created, unpublished, brokerVars,
                   workerVars, relay, budgetVars>>

\* A Handle call is still executing under the claim in force; while its Runner
\* works, a goroutine renews the lease every third of its length.
Executing(j) ==
    \E w \in Workers : /\ pc[w] \in {"granted", "read", "run", "returned", "finish"}
                       /\ message[w][1] = j
                       /\ local[w].token = jobs[j].owner

\* lease_until passes: in due course once nobody renews the lease, and as a
\* fault (a stalled process, a slow database) while the claimer is alive.
LeaseExpires(j) ==
    /\ jobs[j].status = "RUNNING" /\ jobs[j].live
    /\ jobs' = [jobs EXCEPT ![j].live = FALSE]
    /\ IF Executing(j) THEN Fault ELSE NoFault
    /\ UNCHANGED <<report, created, unpublished, deferred, brokerVars,
                   workerVars, relay, losses>>

\* Five minutes pass since a waiting job was last updated: in due course when
\* nothing is left that would wake it, as a fault (a backlog) otherwise.
Ages(j) ==
    /\ jobs[j].status \in Waiting /\ jobs[j].due /\ ~jobs[j].aged
    /\ jobs' = [jobs EXCEPT ![j].aged = TRUE]
    /\ IF Rows_of(j, unpublished \cup topic) = {} THEN NoFault ELSE Fault
    /\ UNCHANGED <<report, created, unpublished, deferred, brokerVars,
                   workerVars, relay, losses>>

\* Kafka's retention drops a message nobody has committed.
LoseMessage ==
    /\ losses < MaxLosses /\ losses' = losses + 1
    /\ \E m \in topic : topic' = topic \ {m}
    /\ UNCHANGED <<storeVars, produced, workerVars, relay, faults>>

-----------------------------------------------------------------------------
(* The worker: Worker.Run's loop around Worker.Handle *)

Goto(w, place) == pc' = [pc EXCEPT ![w] = place]

\* Handle returned an error: a second later the loop calls it again with the
\* same message and a new owner.
HandleAgain(w) ==
    /\ Goto(w, "claim")
    /\ local' = [local EXCEPT ![w] = NoLocals]

\* FetchMessage.  The group gives a partition to one member; a rebalance while
\* the message is still being handled is a fault.
Fetch(w) ==
    /\ pc[w] = "idle"
    /\ \E m \in topic :
          /\ message' = [message EXCEPT ![w] = m]
          /\ IF \E v \in Workers : pc[v] # "idle" /\ message[v] = m
             THEN Fault ELSE NoFault
    /\ Goto(w, "claim")
    /\ UNCHANGED <<storeVars, brokerVars, local, started, relay, losses>>

\* The UPDATE of Claim.
Claim(w) ==
    LET j == message[w][1]
        n == jobs[j].attempts + 1
    IN  /\ pc[w] = "claim"
        /\ \/ /\ Claimable(j)
              /\ jobs' = [jobs EXCEPT ![j] =
                    [status |-> "RUNNING", attempts |-> n, owner |-> n,
                     live |-> TRUE, due |-> TRUE, aged |-> FALSE]]
              /\ Goto(w, "granted")
              /\ local' = [local EXCEPT ![w].token = n]
           \/ /\ ~Claimable(j)
              /\ Goto(w, "denied")
              /\ UNCHANGED <<jobs, local>>
        /\ UNCHANGED <<report, created, unpublished, deferred, brokerVars,
                       message, started, relay, budgetVars>>

\* Claim's history row, a statement of its own.
RecordClaim(w) ==
    /\ pc[w] = "granted"
    /\ Goto(w, "read")
    /\ UNCHANGED <<storeVars, brokerVars, message, local, started, relay, budgetVars>>

\* Claim's closing SELECT returns the row as it is now, whoever owns it by then;
\* Handle judges the attempt number it finds there and calls the Runner.
ReadClaimed(w) ==
    LET j == message[w][1]
        seen == [local[w] EXCEPT !.readOwner = jobs[j].owner,
                                 !.readAttempts = jobs[j].attempts]
    IN  /\ pc[w] = "read"
        /\ \/ /\ jobs[j].attempts > MaxAttempts
              /\ Goto(w, "returned")
              /\ local' = [local EXCEPT ![w] = [seen EXCEPT !.outcome = "exhausted"]]
              /\ UNCHANGED started
           \/ /\ jobs[j].attempts <= MaxAttempts
              /\ Goto(w, "run")
              /\ local' = [local EXCEPT ![w] = seen]
              /\ started' = [started EXCEPT ![j] = @ \cup {local[w].token}]
        /\ UNCHANGED <<storeVars, brokerVars, message, relay, budgetVars>>

\* A denied claim is good news only when the job is over; otherwise Handle
\* returns ErrLeaseBusy.
ReadDenied(w) ==
    /\ pc[w] = "denied"
    /\ IF jobs[message[w][1]].status \in Terminal
       THEN Goto(w, "commit") /\ UNCHANGED local
       ELSE HandleAgain(w)
    /\ UNCHANGED <<storeVars, brokerVars, message, started, relay, budgetVars>>

\* Mutant: the report transaction does not look at the lease.
SaveReport_Unfenced(w) ==
    /\ pc[w] = "run"
    /\ report' = [report EXCEPT ![message[w][1]] = local[w].token]
    /\ \E o \in {"ok", "rejected", "failed"} : local' = [local EXCEPT ![w].outcome = o]
    /\ Goto(w, "returned")
    /\ UNCHANGED <<jobs, created, unpublished, deferred, brokerVars,
                   message, started, relay, budgetVars>>

\* The Runner's report transaction, fenced by the LeaseOwner of the row that
\* Claim returned; afterwards the Runner may still reject or fail.
SaveReport(w) ==
    LET j == message[w][1]
        fenced == /\ jobs[j].status = "RUNNING"
                  /\ jobs[j].owner = local[w].readOwner
                  /\ jobs[j].live
    IN  /\ pc[w] = "run"
        /\ \/ /\ fenced
              /\ report' = [report EXCEPT ![j] = local[w].token]
              /\ \E o \in {"ok", "rejected", "failed"} :
                    local' = [local EXCEPT ![w].outcome = o]
           \/ /\ ~fenced
              /\ local' = [local EXCEPT ![w].outcome = "failed"]
              /\ UNCHANGED report
        /\ Goto(w, "returned")
        /\ UNCHANGED <<jobs, created, unpublished, deferred, brokerVars,
                       message, started, relay, budgetVars>>

\* The Runner stops before it has a report to save.
RunnerStops(w) ==
    /\ pc[w] = "run"
    /\ \E o \in {"rejected", "failed"} : local' = [local EXCEPT ![w].outcome = o]
    /\ Goto(w, "returned")
    /\ UNCHANGED <<storeVars, brokerVars, message, started, relay, budgetVars>>

\* The renewal fails because the lease is gone, or as a fault; the run is
\* cancelled and its result becomes ErrLeaseLost.
RenewFails(w) ==
    LET j == message[w][1]
        held == /\ jobs[j].status = "RUNNING"
                /\ jobs[j].owner = local[w].token
                /\ jobs[j].live
    IN  /\ pc[w] \in {"run", "returned"}
        /\ local[w].outcome # "exhausted"
        /\ IF held THEN Fault ELSE NoFault
        /\ Goto(w, "returned")
        /\ local' = [local EXCEPT ![w].outcome = "failed"]
        /\ UNCHANGED <<storeVars, brokerVars, message, started, relay, losses>>

\* Handle reads the clock before it finishes the job: fresh says whether
\* lease_until > now holds for that reading, however late the UPDATE runs.
Stamp(w) ==
    /\ pc[w] = "returned"
    /\ Goto(w, "finish")
    /\ local' = [local EXCEPT ![w].fresh = jobs[message[w][1]].live]
    /\ UNCHANGED <<storeVars, brokerVars, message, started, relay, budgetVars>>

\* How Handle ends the job, from the Runner's error and the attempt number read.
Verdict(l) ==
    CASE l.outcome = "ok" -> "COMPLETED"
      [] l.outcome = "rejected" -> "REJECTED"
      [] l.outcome = "exhausted" -> "DEAD_LETTER"
      [] OTHER -> IF l.readAttempts >= MaxAttempts THEN "DEAD_LETTER" ELSE "RETRYING"

\* The WHERE clause of finish and Retry.
StillOwner(w, j) ==
    /\ jobs[j].status = "RUNNING"
    /\ jobs[j].owner = local[w].token
    /\ local[w].fresh

\* Complete, Reject and DeadLetter: one UPDATE.
Finish(w) ==
    LET j == message[w][1]
    IN  /\ pc[w] = "finish"
        /\ Verdict(local[w]) \in Terminal
        /\ StillOwner(w, j)
        /\ jobs' = [jobs EXCEPT ![j].status = Verdict(local[w]),
                                ![j].owner = 0, ![j].live = FALSE]
        /\ Goto(w, "recorded")
        /\ UNCHANGED <<report, created, unpublished, deferred, brokerVars, message,
                       local, started, relay, budgetVars>>

\* Retry's transaction: the job and its next outbox row, both due only later.
Retry(w) ==
    LET j == message[w][1]
    IN  /\ pc[w] = "finish"
        /\ Verdict(local[w]) = "RETRYING"
        /\ StillOwner(w, j)
        /\ jobs' = [jobs EXCEPT ![j].status = "RETRYING", ![j].owner = 0,
                                ![j].live = FALSE, ![j].due = FALSE]
        /\ InsertRow(j, TRUE)
        /\ Goto(w, "recorded")
        /\ UNCHANGED <<report, brokerVars, message, local, started, relay, budgetVars>>

\* The UPDATE matched no row: ErrLeaseLost, and the loop goes round again.
FinishLost(w) ==
    /\ pc[w] = "finish"
    /\ ~StillOwner(w, message[w][1])
    /\ HandleAgain(w)
    /\ UNCHANGED <<storeVars, brokerVars, message, started, relay, budgetVars>>

\* The history row of a finished job, or the answer to Retry's commit.
RecordFinish(w) ==
    /\ pc[w] = "recorded"
    /\ Goto(w, "commit")
    /\ UNCHANGED <<storeVars, brokerVars, message, local, started, relay, budgetVars>>

\* CommitMessages, and back to FetchMessage.
Commit(w) ==
    /\ pc[w] = "commit"
    /\ topic' = topic \ {message[w]}
    /\ Goto(w, "idle")
    /\ message' = [message EXCEPT ![w] = NoRow]
    /\ local' = [local EXCEPT ![w] = NoLocals]
    /\ UNCHANGED <<storeVars, produced, started, relay, budgetVars>>

\* A statement fails before or after it took effect: Handle returns the error.
StoreError(w) ==
    /\ pc[w] \in {"granted", "read", "denied", "finish", "recorded"}
    /\ Fault
    /\ HandleAgain(w)
    /\ UNCHANGED <<storeVars, brokerVars, message, started, relay, losses>>

\* The process dies or is replaced; Kafka redelivers what it had not committed.
WorkerCrash(w) ==
    /\ pc[w] # "idle"
    /\ Fault
    /\ Goto(w, "idle")
    /\ message' = [message EXCEPT ![w] = NoRow]
    /\ local' = [local EXCEPT ![w] = NoLocals]
    /\ UNCHANGED <<storeVars, brokerVars, started, relay, losses>>

-----------------------------------------------------------------------------
(* The relay: RunPolling around RecoverExpired and Relay.RunOnce *)

\* As many members of S as LIMIT admits.
Limited(S) ==
    {T \in SUBSET S : \/ T = S /\ Cardinality(T) <= BatchSize
                      \/ Cardinality(T) = BatchSize}

\* Mutant: a recovered job gets its attempts back.
Recover_ForgetsAttempts(r) ==
    /\ relay[r].pc = "idle"
    /\ \E S \in Limited({j \in Jobs : Recoverable(j)}) :
          LET rows == {<<j, created[j] + 1>> : j \in S}
          IN  /\ jobs' = [j \in Jobs |-> IF j \in S
                            THEN [status |-> "RETRYING", attempts |-> 0,
                                  owner |-> 0, live |-> FALSE, due |-> TRUE, aged |-> FALSE]
                            ELSE jobs[j]]
              /\ created' = [j \in Jobs |-> IF j \in S THEN created[j] + 1 ELSE created[j]]
              /\ unpublished' = unpublished \cup rows
    /\ relay' = [relay EXCEPT ![r].pc = "scan"]
    /\ UNCHANGED <<report, deferred, brokerVars, workerVars, budgetVars>>

\* RecoverExpired's transaction: every selected job is taken from its owner and
\* gets a new outbox row.  A row SKIP LOCKED leaves out waits for the next poll.
Recover(r) ==
    /\ relay[r].pc = "idle"
    /\ \E S \in Limited({j \in Jobs : Recoverable(j)}) :
          LET rows == {<<j, created[j] + 1>> : j \in S}
          IN  /\ jobs' = [j \in Jobs |-> IF j \in S
                            THEN [status |-> "RETRYING", attempts |-> jobs[j].attempts,
                                  owner |-> 0, live |-> FALSE, due |-> TRUE, aged |-> FALSE]
                            ELSE jobs[j]]
              /\ created' = [j \in Jobs |-> IF j \in S THEN created[j] + 1 ELSE created[j]]
              /\ unpublished' = unpublished \cup rows
    /\ relay' = [relay EXCEPT ![r].pc = "scan"]
    /\ UNCHANGED <<report, deferred, brokerVars, workerVars, budgetVars>>

\* PendingOutbox.
Scan(r) ==
    /\ relay[r].pc = "scan"
    /\ \E S \in Limited(unpublished \ deferred) :
          relay' = [relay EXCEPT ![r] = IF S = {} THEN RelayIdle
                        ELSE [pc |-> "publish", batch |-> S, row |-> NoRow]]
    /\ UNCHANGED <<storeVars, brokerVars, workerVars, budgetVars>>

AppendMessage(j) ==
    /\ produced' = [produced EXCEPT ![j] = @ + 1]
    /\ topic' = topic \cup {<<j, produced[j] + 1>>}

\* Publish succeeds for the next row of the batch.
Publish(r) ==
    /\ relay[r].pc = "publish"
    /\ \E row \in relay[r].batch :
          /\ AppendMessage(row[1])
          /\ relay' = [relay EXCEPT ![r].pc = "mark", ![r].row = row]
    /\ UNCHANGED <<storeVars, workerVars, budgetVars>>

\* Publish fails, and the broker may have kept the message all the same.
PublishFails(r) ==
    /\ relay[r].pc = "publish"
    /\ Fault
    /\ \E row \in relay[r].batch :
          /\ AppendMessage(row[1]) \/ UNCHANGED brokerVars
          /\ relay' = [relay EXCEPT ![r].pc = "defer", ![r].row = row]
    /\ UNCHANGED <<storeVars, workerVars, losses>>

\* Mutant: the whole batch is marked after its first row was published.
MarkPublished_WholeBatch(r) ==
    /\ relay[r].pc = "mark"
    /\ unpublished' = unpublished \ relay[r].batch
    /\ deferred' = deferred \ relay[r].batch
    /\ relay' = [relay EXCEPT ![r] = RelayIdle]
    /\ UNCHANGED <<jobs, report, created, brokerVars, workerVars, budgetVars>>

\* MarkPublished after a success; RunOnce goes on with the batch.
MarkPublished(r) ==
    LET rest == relay[r].batch \ {relay[r].row}
    IN  /\ relay[r].pc = "mark"
        /\ unpublished' = unpublished \ {relay[r].row}
        /\ deferred' = deferred \ {relay[r].row}
        /\ relay' = [relay EXCEPT ![r] = IF rest = {} THEN RelayIdle
                        ELSE [pc |-> "publish", batch |-> rest, row |-> NoRow]]
        /\ UNCHANGED <<jobs, report, created, brokerVars, workerVars, budgetVars>>

\* MarkPublished after a failure puts the row off, unless it was published by
\* somebody else meanwhile, and RunOnce gives the batch up.
MarkFailed(r) ==
    /\ relay[r].pc = "defer"
    /\ deferred' = deferred \cup ({relay[r].row} \cap unpublished)
    /\ relay' = [relay EXCEPT ![r] = RelayIdle]
    /\ UNCHANGED <<jobs, report, created, unpublished, brokerVars, workerVars, budgetVars>>

\* The relay dies, or a statement of the poll fails; the next poll starts afresh.
RelayFails(r) ==
    /\ relay[r].pc # "idle"
    /\ Fault
    /\ relay' = [relay EXCEPT ![r] = RelayIdle]
    /\ UNCHANGED <<storeVars, brokerVars, workerVars, losses>>

-----------------------------------------------------------------------------

Init ==
    /\ jobs = [j \in Jobs |-> NoJob]
    /\ report = [j \in Jobs |-> 0]
    /\ created = [j \in Jobs |-> 0]
    /\ unpublished = {} /\ deferred = {}
    /\ produced = [j \in Jobs |-> 0]
    /\ topic = {}
    /\ pc = [w \in Workers |-> "idle"]
    /\ message = [w \in Workers |-> NoRow]
    /\ local = [w \in Workers |-> NoLocals]
    /\ started = [j \in Jobs |-> {}]
    /\ relay = [r \in Relays |-> RelayIdle]
    /\ faults = 0 /\ losses = 0

Handle(w) ==
    \/ Claim(w) \/ RecordClaim(w) \/ ReadClaimed(w) \/ ReadDenied(w)
    \/ SaveReport(w) \/ RunnerStops(w) \/ Stamp(w)
    \/ Finish(w) \/ Retry(w) \/ FinishLost(w) \/ RecordFinish(w)

Poll(r) ==
    Recover(r) \/ Scan(r) \/ Publish(r) \/ MarkPublished(r) \/ MarkFailed(r)

Clock(j) == JobDue(j) \/ LeaseExpires(j) \/ Ages(j)

Next ==
    \/ \E j \in Jobs : Receive(j) \/ Clock(j)
    \/ \E row \in deferred : RowDue(row)
    \/ \E w \in Workers : \/ Fetch(w) \/ Handle(w) \/ Commit(w)
                          \/ RenewFails(w) \/ StoreError(w) \/ WorkerCrash(w)
    \/ \E r \in Relays : Poll(r) \/ PublishFails(r) \/ RelayFails(r)
    \/ LoseMessage

Spec == Init /\ [][Next]_vars

-----------------------------------------------------------------------------
(* Properties *)

\* Every variable holds a value of its kind; a worker that is not idle holds a
\* message.
TypeOK ==
    /\ jobs \in [Jobs -> Job]
    /\ report \in [Jobs -> Nat]
    /\ created \in [Jobs -> Nat]
    /\ unpublished \in SUBSET Rows
    /\ deferred \in SUBSET Rows
    /\ produced \in [Jobs -> Nat]
    /\ topic \in SUBSET Rows
    /\ pc \in [Workers -> Locations]
    /\ message \in [Workers -> Rows \cup {NoRow}]
    /\ \A w \in Workers : pc[w] # "idle" => message[w] \in Rows
    /\ local \in [Workers -> Locals]
    /\ relay \in [Relays -> RelayStates]
    /\ started \in [Jobs -> SUBSET Nat]
    /\ faults \in Nat /\ losses \in Nat

\* However often a job is redelivered, recovered, or claimed by workers that
\* die, its Runner is called at most MaxAttempts times.
RunsBounded == \A j \in Jobs : Cardinality(started[j]) <= MaxAttempts

\* A COMPLETED job has its report, although the report and the status are
\* written by different transactions of possibly different claims.
CompletedHasReport ==
    \A j \in Jobs : jobs[j].status = "COMPLETED" => report[j] # 0

\* A job is given up only after the last attempt was claimed.
DeadLetterExhausted ==
    \A j \in Jobs : jobs[j].status = "DEAD_LETTER" => jobs[j].attempts >= MaxAttempts

\* As long as Kafka keeps its messages, a job that is not over always has an
\* unpublished outbox row or an uncommitted message: no crash between publish
\* and mark, or between finish and commit, strands it.
NoLostJob ==
    losses = 0 => \A j \in Jobs : \/ jobs[j].status \in Terminal \cup {"ABSENT"}
                                  \/ Rows_of(j, unpublished \cup topic) # {}

\* Once a job is over, neither its row nor its report ever changes: late
\* workers, duplicate messages and recovery have no effect on it.
TerminalFrozen ==
    [][\A j \in Jobs : jobs[j].status \in Terminal =>
          jobs'[j] = jobs[j] /\ report'[j] = report[j]]_vars

\* Only the claim that holds the lease saves the report.
ReportFenced ==
    [][\A j \in Jobs : report'[j] # report[j] => report'[j] = jobs[j].owner]_vars

\* What the submitter of a job sees of it.
PhaseOf(j) ==
    IF jobs[j].status = "ABSENT" THEN "absent"
    ELSE IF jobs[j].status \in Terminal THEN jobs[j].status ELSE "open"

\* Claims beyond MaxAttempts only bury the job.
TriesOf(j) == IF jobs[j].attempts <= MaxAttempts THEN jobs[j].attempts ELSE MaxAttempts

\* The workflow implements JobPromise: the queue, the relays, the leases and the
\* retries are invisible to whoever submitted the job.
Promise == INSTANCE JobPromise WITH
    phase <- [j \in Jobs |-> PhaseOf(j)],
    tries <- [j \in Jobs |-> TriesOf(j)],
    runs <- started,
    evidence <- [j \in Jobs |-> report[j] # 0]

PromiseKept == Promise!Spec

-----------------------------------------------------------------------------
(* The inductive invariant behind the invariants above *)

\* Rows and messages are numbered from 1 without gaps, so the next one is new
\* to every relay and every worker.
Numbered ==
    /\ \A row \in unpublished : row[2] <= created[row[1]]
    /\ \A m \in topic : m[2] <= produced[m[1]]
    /\ \A w \in Workers : pc[w] # "idle" => message[w][2] <= produced[message[w][1]]
    /\ \A r \in Relays :
          /\ \A row \in relay[r].batch : row[2] <= created[row[1]]
          /\ relay[r].pc \in {"mark", "defer"} =>
                relay[r].row \in Rows /\ relay[r].row[2] <= created[relay[r].row[1]]

\* What a Handle call remembers still bounds the state of its job from below.
Remembered(w, j) ==
    /\ pc[w] \in {"granted", "read", "run", "returned", "finish"} => local[w].token >= 1
    /\ local[w].token <= jobs[j].attempts
    /\ local[w].readAttempts <= jobs[j].attempts
    /\ pc[w] = "run" => started[j] # {}
    /\ local[w].outcome \in {"ok", "rejected"} => started[j] # {}
    /\ local[w].outcome = "ok" => report[j] # 0
    /\ local[w].outcome = "exhausted" => local[w].readAttempts > MaxAttempts

\* Only the first MaxAttempts claims reach the Runner.
Admitted(j) == started[j] \subseteq {n \in 1..MaxAttempts : n <= jobs[j].attempts}

\* A relay is about to mark this row as published.
Marking(row) == \E r \in Relays : relay[r].pc = "mark" /\ relay[r].row = row

\* A worker is about to commit this message.
Committing(m) == \E w \in Workers : pc[w] \in {"recorded", "commit"} /\ message[w] = m

\* Something will still wake the job: a row no relay is about to mark, or a
\* message no worker is about to commit.
Wakeable(j) ==
    \/ \E row \in unpublished : row[1] = j /\ ~Marking(row)
    \/ \E m \in topic : m[1] = j /\ ~Committing(m)

\* The inductive invariant: the code's bookkeeping across crashes, in one formula.
IInv ==
    /\ TypeOK
    /\ Numbered
    /\ \A w \in Workers : /\ pc[w] # "idle" => Remembered(w, message[w][1])
                          /\ pc[w] \in {"idle", "claim", "denied"} => local[w] = NoLocals
    /\ \A j \in Jobs : /\ Admitted(j)
                       /\ jobs[j].status = "ABSENT" => jobs[j].attempts = 0
    /\ CompletedHasReport
    /\ DeadLetterExhausted
    /\ losses = 0 => \A j \in Jobs :
                       jobs[j].status \in Terminal \cup {"ABSENT"} \/ Wakeable(j)

-----------------------------------------------------------------------------
(* Liveness *)

\* Every process that is up keeps taking steps, and every deadline passes.
Fairness ==
    /\ \A w \in Workers : WF_vars(Fetch(w) \/ Handle(w) \/ Commit(w))
    /\ \A r \in Relays : WF_vars(Poll(r))
    /\ \A j \in Jobs : /\ WF_vars(JobDue(j))
                       /\ WF_vars(LeaseExpires(j) /\ NoFault)
                       /\ WF_vars(Ages(j) /\ NoFault)
    /\ WF_vars(\E row \in deferred : RowDue(row))

FairSpec == Spec /\ Fairness

\* Every accepted job is eventually over, whatever the (finitely many) faults
\* and losses were.
EventuallyOver ==
    \A j \in Jobs : jobs[j].status # "ABSENT" ~> jobs[j].status \in Terminal

=============================================================================

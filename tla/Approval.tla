------------------------------- MODULE Approval -------------------------------
(***************************************************************************)
(* Approvals and benchmark jobs: reviewers decide on the report of an      *)
(* analysis job, a benchmark job is created under an approval, and the     *)
(* Runner measures it only if the approval still matches.                  *)
(*                                                                         *)
(* A request reads the job, the report and the approval in separate        *)
(* statements, while workers write reports and finish jobs.  The decision  *)
(* and its audit row are one transaction; a second INSERT of the same job  *)
(* waits for the first one's transaction.                                  *)
(*                                                                         *)
(* A report stands for its digest.  The caller's free-text reason is left  *)
(* out: it is compared like the decision and stored beside it.             *)
(***************************************************************************)
EXTENDS Naturals

CONSTANTS
    Jobs,        \* analysis jobs
    Clients,     \* reviewers, one request of each at a time
    Admins,      \* those of them with the role admin
    Creator,     \* who created a job
    Reports,     \* contents of a report
    ReadyReports, \* those with a valid candidate, and an equivalent rewrite if any
    SpecOf,      \* the candidate specification in a report
    Deliveries,  \* delivery identifiers for benchmark jobs
    None,        \* no row
    MaxFaults    \* bound: failed statements, transactions and processes

ASSUME BoundsAssumption == MaxFaults \in Nat

VARIABLES
    status,      \* of the analysis jobs
    report,      \* sql_sentinel_reports
    approvals,   \* sql_sentinel_approvals
    audit,       \* number of candidate.* audit rows of a job
    inserting,   \* whose uncommitted INSERT holds the approval row of a job
    benchmarks,  \* the benchmark jobs by delivery
    measured,    \* the benchmark jobs the Runner let through
    pc, ask, seen, reply,   \* each client's request
    faults

jobVars == <<status, report>>
tableVars == <<approvals, audit, inserting>>
benchVars == <<benchmarks, measured>>
vars == <<jobVars, tableVars, benchVars, pc, ask, seen, reply, faults>>

Decisions == {"approved", "rejected"}
Statuses == {"OPEN", "COMPLETED", "CLOSED"}

\* The rows of the two tables.
Entries == [decision: Decisions, report: Reports,
            spec: {SpecOf[r] : r \in Reports}, actor: Clients]
Orders == [job: Jobs, report: Reports,
           spec: {SpecOf[r] : r \in Reports}, actor: Clients]

ASSUME NoneAssumption == None \notin Reports \cup Clients \cup Entries \cup Orders

Asks ==
    [kind: {"decide"}, job: Jobs, report: Reports, decision: Decisions]
      \cup [kind: {"measure"}, job: Jobs, report: Reports, delivery: Deliveries]

\* What a decision stores.
Entry(c) == [decision |-> ask[c].decision, report |-> ask[c].report,
             spec |-> SpecOf[ask[c].report], actor |-> c]

\* What a benchmark job carries: its options and its candidate.
Order(c) == [job |-> ask[c].job, report |-> ask[c].report,
             spec |-> SpecOf[ask[c].report], actor |-> c]

Fault == faults < MaxFaults /\ faults' = faults + 1

-----------------------------------------------------------------------------
(* The workers: a finished job and its report never change again. *)

SaveReport(j) ==
    /\ status[j] = "OPEN"
    /\ \E r \in Reports : report' = [report EXCEPT ![j] = r]
    /\ UNCHANGED <<status, tableVars, benchVars, pc, ask, seen, reply, faults>>

JobEnds(j) ==
    /\ status[j] = "OPEN"
    /\ \/ report[j] # None /\ status' = [status EXCEPT ![j] = "COMPLETED"]
       \/ status' = [status EXCEPT ![j] = "CLOSED"]
    /\ UNCHANGED <<report, tableVars, benchVars, pc, ask, seen, reply, faults>>

-----------------------------------------------------------------------------
(* A request, as far as deciding and ordering a benchmark have in common *)

Goto(c, place) == pc' = [pc EXCEPT ![c] = place]

Answer(c, r) == Goto(c, "idle") /\ reply' = [reply EXCEPT ![c] = r]

\* A well-formed request arrives: the digest it quotes may be any.
Ask(c) ==
    /\ pc[c] = "idle"
    /\ \E a \in Asks : ask' = [ask EXCEPT ![c] = a]
    /\ Goto(c, "job")
    /\ reply' = [reply EXCEPT ![c] = "none"]
    /\ UNCHANGED <<jobVars, tableVars, benchVars, seen, faults>>

\* scopedJob reads the job row.
ReadJob(c) ==
    /\ pc[c] = "job"
    /\ seen' = [seen EXCEPT ![c] = status[ask[c].job]]
    /\ Goto(c, "report")
    /\ UNCHANGED <<jobVars, tableVars, benchVars, ask, reply, faults>>

\* Mutant: the job's status is not looked at.
Reviewable_AnyStatus(c) ==
    /\ report[ask[c].job] = ask[c].report
    /\ ask[c].report \in ReadyReports

\* The job was complete when it was read, the report read now is the quoted one,
\* and its candidate can be approved.
Reviewable(c) ==
    /\ seen[c] = "COMPLETED"
    /\ report[ask[c].job] = ask[c].report
    /\ ask[c].report \in ReadyReports

\* Reviewers do not decide on their own jobs.
SelfApproval(c) == c = Creator[ask[c].job] /\ c \notin Admins

ReadReport(c) ==
    /\ pc[c] = "report"
    /\ \/ /\ Reviewable(c) /\ ask[c].kind = "measure"
          /\ Goto(c, "approval") /\ UNCHANGED reply
       \/ /\ Reviewable(c) /\ ask[c].kind = "decide" /\ ~SelfApproval(c)
          /\ Goto(c, "insert") /\ UNCHANGED reply
       \/ /\ ~Reviewable(c) \/ (ask[c].kind = "decide" /\ SelfApproval(c))
          /\ Answer(c, "refused")
    /\ UNCHANGED <<jobVars, tableVars, benchVars, ask, seen, faults>>

-----------------------------------------------------------------------------
(* Deciding *)

\* Mutant: the row is looked up, not inserted, before the commit.
Insert_DoesNotWait(c) ==
    LET j == ask[c].job
    IN  /\ pc[c] = "insert"
        /\ IF approvals[j] = None
           THEN Goto(c, "commit") /\ inserting' = [inserting EXCEPT ![j] = c]
           ELSE Goto(c, "compare") /\ UNCHANGED inserting
        /\ UNCHANGED <<jobVars, approvals, audit, benchVars, ask, seen, reply, faults>>

\* The INSERT waits for another one's transaction, then finds a duplicate or not.
Insert(c) ==
    LET j == ask[c].job
    IN  /\ pc[c] = "insert"
        /\ inserting[j] = None
        /\ IF approvals[j] = None
           THEN Goto(c, "commit") /\ inserting' = [inserting EXCEPT ![j] = c]
           ELSE Goto(c, "compare") /\ UNCHANGED inserting
        /\ UNCHANGED <<jobVars, approvals, audit, benchVars, ask, seen, reply, faults>>

\* The INSERT fails for another reason; the code looks for a duplicate all the same.
InsertFails(c) ==
    /\ pc[c] = "insert"
    /\ Fault
    /\ Goto(c, "compare")
    /\ UNCHANGED <<jobVars, tableVars, benchVars, ask, seen, reply>>

\* The transaction commits the decision together with its audit row.
Committed(c) ==
    /\ approvals' = [approvals EXCEPT ![ask[c].job] = Entry(c)]
    /\ audit' = [audit EXCEPT ![ask[c].job] = @ + 1]

Commit(c) ==
    /\ pc[c] = "commit"
    /\ Committed(c)
    /\ inserting' = [inserting EXCEPT ![ask[c].job] = None]
    /\ Answer(c, "decided")
    /\ UNCHANGED <<jobVars, benchVars, ask, seen, faults>>

\* The audit row or the commit fails, or the process dies: the transaction is
\* undone, or its commit is done but not confirmed.
CommitFails(c) ==
    /\ pc[c] = "commit"
    /\ Fault
    /\ Committed(c) \/ UNCHANGED <<approvals, audit>>
    /\ inserting' = [inserting EXCEPT ![ask[c].job] = None]
    /\ Answer(c, "unavailable")
    /\ UNCHANGED <<jobVars, benchVars, ask, seen>>

\* After a failed INSERT: the same decision again is fine, another one, or none,
\* a conflict.
Compare(c) ==
    /\ pc[c] = "compare"
    /\ IF approvals[ask[c].job] = Entry(c)
       THEN Answer(c, "decided") ELSE Answer(c, "refused")
    /\ UNCHANGED <<jobVars, tableVars, benchVars, ask, seen, faults>>

-----------------------------------------------------------------------------
(* Ordering and running a benchmark *)

\* Mutant: any decision on the report will do.
Approves_AnyDecision(j, r) ==
    /\ approvals[j] # None
    /\ approvals[j].report = r
    /\ approvals[j].spec = SpecOf[r]

\* The stored decision approves this report and its candidate.
Approves(j, r) ==
    /\ approvals[j] # None
    /\ approvals[j].decision = "approved"
    /\ approvals[j].report = r
    /\ approvals[j].spec = SpecOf[r]

ReadApproval(c) ==
    /\ pc[c] = "approval"
    /\ IF Approves(ask[c].job, ask[c].report)
       THEN Goto(c, "receive") /\ UNCHANGED reply
       ELSE Answer(c, "refused")
    /\ UNCHANGED <<jobVars, tableVars, benchVars, ask, seen, faults>>

\* Store.Receive creates the benchmark job, or finds the delivery taken.  A full
\* backlog refuses the request as a conflict does, and leaves no trace either.
Received(c) ==
    LET d == ask[c].delivery
    IN  benchmarks' = IF benchmarks[d] = None
                      THEN [benchmarks EXCEPT ![d] = Order(c)] ELSE benchmarks

Receive(c) ==
    /\ pc[c] = "receive"
    /\ \/ /\ Received(c)
          /\ Answer(c, IF benchmarks'[ask[c].delivery] = Order(c)
                       THEN "ordered" ELSE "refused")
       \/ benchmarks[ask[c].delivery] = None /\ Answer(c, "refused") /\ UNCHANGED benchmarks
    /\ UNCHANGED <<jobVars, tableVars, measured, ask, seen, faults>>

\* A statement of the request fails, or the process dies.
RequestFails(c) ==
    /\ pc[c] \in {"job", "report", "insert", "compare", "approval", "receive"}
    /\ Fault
    /\ \/ pc[c] = "receive" /\ Received(c)
       \/ UNCHANGED benchmarks
    /\ Answer(c, "unavailable")
    /\ UNCHANGED <<jobVars, tableVars, measured, ask, seen>>

\* The Runner compares the benchmark job with the approval once more before it
\* measures; otherwise it rejects the job.
Measure(d) ==
    /\ benchmarks[d] # None
    /\ LET b == benchmarks[d] IN
       measured' = IF /\ approvals[b.job] # None
                      /\ approvals[b.job].decision = "approved"
                      /\ approvals[b.job].report = b.report
                      /\ approvals[b.job].spec = b.spec
                   THEN measured \cup {d} ELSE measured
    /\ UNCHANGED <<jobVars, tableVars, benchmarks, pc, ask, seen, reply, faults>>

-----------------------------------------------------------------------------

Init ==
    /\ status = [j \in Jobs |-> "OPEN"]
    /\ report = [j \in Jobs |-> None]
    /\ approvals = [j \in Jobs |-> None]
    /\ audit = [j \in Jobs |-> 0]
    /\ inserting = [j \in Jobs |-> None]
    /\ benchmarks = [d \in Deliveries |-> None]
    /\ measured = {}
    /\ pc = [c \in Clients |-> "idle"]
    /\ ask = [c \in Clients |-> None]
    /\ seen = [c \in Clients |-> "OPEN"]
    /\ reply = [c \in Clients |-> "none"]
    /\ faults = 0

Request(c) ==
    \/ Ask(c) \/ ReadJob(c) \/ ReadReport(c)
    \/ Insert(c) \/ InsertFails(c) \/ Commit(c) \/ CommitFails(c) \/ Compare(c)
    \/ ReadApproval(c) \/ Receive(c) \/ RequestFails(c)

Next ==
    \/ \E j \in Jobs : SaveReport(j) \/ JobEnds(j)
    \/ \E c \in Clients : Request(c)
    \/ \E d \in Deliveries : Measure(d)

Spec == Init /\ [][Next]_vars

-----------------------------------------------------------------------------
(* Properties *)

\* Every variable holds a value of its kind; a request is where its kind may be.
TypeOK ==
    /\ status \in [Jobs -> Statuses]
    /\ report \in [Jobs -> Reports \cup {None}]
    /\ approvals \in [Jobs -> Entries \cup {None}]
    /\ audit \in [Jobs -> Nat]
    /\ inserting \in [Jobs -> Clients \cup {None}]
    /\ benchmarks \in [Deliveries -> Orders \cup {None}]
    /\ measured \in SUBSET Deliveries
    /\ pc \in [Clients -> {"idle", "job", "report", "insert", "commit",
                           "compare", "approval", "receive"}]
    /\ ask \in [Clients -> Asks \cup {None}]
    /\ \A c \in Clients :
          /\ pc[c] # "idle" => ask[c] \in Asks
          /\ pc[c] \in {"insert", "commit", "compare"} => ask[c].kind = "decide"
          /\ reply[c] = "decided" => ask[c] \in Asks /\ ask[c].kind = "decide"
          /\ pc[c] \in {"approval", "receive"} => ask[c].kind = "measure"
    /\ seen \in [Clients -> Statuses]
    /\ reply \in [Clients -> {"none", "refused", "decided", "ordered", "unavailable"}]
    /\ faults \in Nat

\* A decision, once stored, is about the report the job still has, although the
\* job and the report were read before the decision was stored.
ApprovalIsCurrent ==
    \A j \in Jobs : approvals[j] # None =>
       /\ status[j] = "COMPLETED"
       /\ approvals[j].report = report[j]
       /\ report[j] \in ReadyReports

\* A job has one decision in the audit log if it was decided, otherwise none.
AuditComplete ==
    \A j \in Jobs : audit[j] = IF approvals[j] = None THEN 0 ELSE 1

\* A client that was told its decision is stored finds it stored, with whomever
\* it raced.
RepliesHold ==
    \A c \in Clients : reply[c] = "decided" => approvals[ask[c].job] = Entry(c)

\* A decision, its audit row and what its reviewer was told agree, whatever
\* failed (extension.go:494-508).
DecisionsKept == RepliesHold /\ AuditComplete

\* Benchmark jobs exist, and are measured, only under an approval of the very
\* report and candidate they carry, which is the report the job has.
BenchmarksApproved ==
    /\ \A d \in Deliveries : benchmarks[d] # None =>
          LET b == benchmarks[d]
              a == approvals[b.job]
          IN  /\ a # None /\ a.decision = "approved"
              /\ a.report = b.report /\ a.spec = b.spec
              /\ report[b.job] = b.report
    /\ \A d \in measured : benchmarks[d] # None

\* Decisions are never overwritten.
ApprovalsStand ==
    [][\A j \in Jobs : approvals[j] # None => approvals'[j] = approvals[j]]_vars

-----------------------------------------------------------------------------
(* The inductive invariant *)

\* What a request has checked stays true until it acts on it.
Checked ==
    \A c \in Clients :
       /\ pc[c] # "idle" /\ seen[c] = "COMPLETED" /\ pc[c] # "job" =>
             status[ask[c].job] = "COMPLETED"
       /\ pc[c] \in {"insert", "commit", "compare", "approval", "receive"} =>
             Reviewable(c)
       /\ pc[c] = "receive" => Approves(ask[c].job, ask[c].report)
       /\ pc[c] = "commit" => approvals[ask[c].job] = None /\ inserting[ask[c].job] = c

IInv ==
    /\ TypeOK /\ Checked
    /\ ApprovalIsCurrent /\ AuditComplete /\ RepliesHold /\ BenchmarksApproved

=============================================================================

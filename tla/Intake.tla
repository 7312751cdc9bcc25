-------------------------------- MODULE Intake --------------------------------
(***************************************************************************)
(* How jobs get into the store: POST /jobs with one input, and the GitHub  *)
(* webhook with one input per changed statement of a pull request.  Both   *)
(* call MySQLStore.Receive, a transaction that takes the row of a guard    *)
(* table first, so that looking for the delivery, counting the backlog and *)
(* inserting happen one request at a time.                                 *)
(*                                                                         *)
(* A webhook delivery stops at its first error and keeps what it has       *)
(* stored; GitHub, or an operator, may deliver it again, also while the    *)
(* first copy is being handled.  Each copy asks GitHub anew for the files  *)
(* and patches of the pull request, and may be told of other statements:   *)
(* the head is the same, but the branch it is compared with may not be.    *)
(* Statements that begin on one line of a file share an identifier.        *)
(*                                                                         *)
(* The rows that Receive adds to other tables belong to its transaction    *)
(* and are left out.                                                       *)
(***************************************************************************)
EXTENDS Naturals, Sequences, FiniteSets

CONSTANTS
    Ids,         \* delivery identifiers of jobs
    Contents,    \* statement, candidate, pull request and options of an input
    Posts,       \* inputs that clients post
    Deliveries,  \* webhook deliveries
    Listings,    \* the changed statements that GitHub may list for a delivery
    Requests,    \* requests in progress
    None,        \* no row, nobody
    Limit,       \* open jobs at most
    MaxParts,    \* statements of a delivery at most
    MaxFaults    \* bound: failed statements, calls and processes

Inputs == [id: Ids, content: Contents]

ASSUME InputsAssumption ==
    /\ IsFiniteSet(Ids)
    /\ Posts \subseteq Inputs
    /\ Listings \in [Deliveries -> SUBSET Seq(Inputs)]

ASSUME BoundsAssumption == /\ Limit \in Nat /\ MaxParts \in Nat \ {0} /\ MaxFaults \in Nat
                           /\ None \notin Requests

VARIABLES
    jobs,     \* sql_sentinel_jobs by delivery identifier
    guard,    \* the transaction that holds the row of sql_sentinel_receive_guard
    current,  \* deliveries whose head is still the pull request's
    pc, ask,  \* where a request stands, and what it asks
    inputs,   \* what it has to store: what was posted, or is listed to it
    done,     \* how many of its inputs have been accepted
    reply,    \* what it was answered
    faults

vars == <<jobs, guard, current, pc, ask, inputs, done, reply, faults>>

\* A row, with the trace context of the request that created it.
Rows == [content: Contents, trace: Requests, open: BOOLEAN]
NoRow == [content |-> None, trace |-> None, open |-> FALSE]
Stored(id) == jobs[id] # NoRow

Places == {"idle", "dead", "head", "walk", "begin", "look", "commit", "get"}
Replies == {"none", "accepted", "conflict", "full", "limit", "refused", "superseded",
            "unavailable"}

Asks == [kind: {"post"}, input: Posts] \cup [kind: {"hook"}, delivery: Deliveries]

\* The input a request is about to store.
Input(p) == inputs[p][done[p] + 1]

Open == {id \in Ids : jobs[id].open}

Fault == faults < MaxFaults /\ faults' = faults + 1

-----------------------------------------------------------------------------
(* Around the requests *)

JobEnds(id) ==
    /\ jobs[id].open
    /\ jobs' = [jobs EXCEPT ![id].open = FALSE]
    /\ UNCHANGED <<guard, current, pc, ask, inputs, done, reply, faults>>

HeadMoves(d) ==
    /\ d \in current
    /\ current' = current \ {d}
    /\ UNCHANGED <<jobs, guard, pc, ask, inputs, done, reply, faults>>

-----------------------------------------------------------------------------
(* A request *)

Busy(p) == pc[p] \notin {"idle", "dead"}

Goto(p, place) == pc' = [pc EXCEPT ![p] = place]

Answer(p, r) == Goto(p, "idle") /\ reply' = [reply EXCEPT ![p] = r]

\* A well-formed request; a delivery may have been handled before.
Arrive(p) ==
    /\ pc[p] = "idle"
    /\ \E a \in Asks :
          /\ ask' = [ask EXCEPT ![p] = a]
          /\ IF a.kind = "post"
             THEN Goto(p, "begin") /\ inputs' = [inputs EXCEPT ![p] = <<a.input>>]
             ELSE Goto(p, "head") /\ inputs' = [inputs EXCEPT ![p] = << >>]
    /\ done' = [done EXCEPT ![p] = 0]
    /\ reply' = [reply EXCEPT ![p] = "none"]
    /\ UNCHANGED <<jobs, guard, current, faults>>

\* The webhook asks GitHub whether the event's head is still the current one, and
\* for its changed files.
CheckHead(p) ==
    /\ pc[p] = "head"
    /\ IF ask[p].delivery \in current
       THEN /\ \E listing \in Listings[ask[p].delivery] :
                  inputs' = [inputs EXCEPT ![p] = listing]
            /\ Goto(p, "walk") /\ UNCHANGED reply
       ELSE Answer(p, "superseded") /\ UNCHANGED inputs
    /\ UNCHANGED <<jobs, guard, current, ask, done, faults>>

\* Between two statements: the next one is due, or there is none, or the webhook
\* finds another statement, or just another file, beyond the limit, or a file
\* that it cannot take: too large, without its patch, or one too many.
Walk(p) ==
    /\ pc[p] = "walk"
    /\ \/ done[p] < Len(inputs[p]) /\ done[p] < MaxParts /\ Goto(p, "begin") /\ UNCHANGED reply
       \/ done[p] = Len(inputs[p]) /\ Answer(p, "accepted")
       \/ done[p] = MaxParts /\ Answer(p, "limit")
       \/ Answer(p, "refused")
    /\ UNCHANGED <<jobs, guard, current, ask, inputs, done, faults>>

\* Mutant: the guard row is read without FOR UPDATE.
Begin_Unlocked(p) ==
    /\ pc[p] = "begin"
    /\ guard' = p
    /\ Goto(p, "look")
    /\ UNCHANGED <<jobs, current, ask, inputs, done, reply, faults>>

\* The transaction of Receive begins with the guard row.
Begin(p) ==
    /\ pc[p] = "begin" /\ guard = None
    /\ guard' = p
    /\ Goto(p, "look")
    /\ UNCHANGED <<jobs, current, ask, inputs, done, reply, faults>>

\* The input in hand has its job.
Accepted(p) ==
    /\ done' = [done EXCEPT ![p] = @ + 1]
    /\ IF ask[p].kind = "post" THEN Answer(p, "accepted")
       ELSE Goto(p, "walk") /\ UNCHANGED reply

\* Only clients are told of a conflict; to the webhook it is any other error.
Conflict(p) == IF ask[p].kind = "post" THEN "conflict" ELSE "unavailable"

\* Mutant: the trace context is compared too.
SameDelivery_WithTrace(p) ==
    LET row == jobs[Input(p).id] IN row.content = Input(p).content /\ row.trace = p

SameDelivery(p) == jobs[Input(p).id].content = Input(p).content

\* One snapshot serves both reads: the delivery is stored already, with this
\* content or another, or the backlog is full, or there is room.
Look(p) ==
    /\ pc[p] = "look"
    /\ \/ /\ Stored(Input(p).id) /\ SameDelivery(p)
          /\ guard' = None /\ Accepted(p)
       \/ /\ Stored(Input(p).id) /\ ~SameDelivery(p)
          /\ guard' = None /\ Answer(p, Conflict(p)) /\ UNCHANGED done
       \/ /\ ~Stored(Input(p).id) /\ Cardinality(Open) >= Limit
          /\ guard' = None /\ Answer(p, "full") /\ UNCHANGED done
       \/ /\ ~Stored(Input(p).id) /\ Cardinality(Open) < Limit
          /\ Goto(p, "commit") /\ UNCHANGED <<guard, done, reply>>
    /\ UNCHANGED <<jobs, current, ask, inputs, faults>>

Insert(p) ==
    jobs' = [jobs EXCEPT ![Input(p).id] =
                [content |-> Input(p).content, trace |-> p, open |-> TRUE]]

\* The job and everything that goes with it is inserted and committed.
Commit(p) ==
    /\ pc[p] = "commit"
    /\ Insert(p)
    /\ guard' = None
    /\ Goto(p, "get")
    /\ UNCHANGED <<current, ask, inputs, done, reply, faults>>

\* Receive reads the row back for its answer.
Get(p) ==
    /\ pc[p] = "get"
    /\ Accepted(p)
    /\ UNCHANGED <<jobs, guard, current, ask, inputs, faults>>

\* The guard row stays taken until the 25 seconds of the request are over.
GuardWaitEnds(p) ==
    /\ pc[p] = "begin" /\ guard # None
    /\ Answer(p, "unavailable")
    /\ UNCHANGED <<jobs, guard, current, ask, inputs, done, faults>>

\* Mutant: the transaction of a failed request is not rolled back.
Fails_KeepsGuard(p) ==
    /\ Busy(p)
    /\ Fault
    /\ Answer(p, "unavailable")
    /\ UNCHANGED <<jobs, guard, current, ask, inputs, done>>

\* A statement, a commit or a call to GitHub fails.  An open transaction is
\* rolled back; a failed commit may have taken effect.
Fails(p) ==
    /\ Busy(p)
    /\ Fault
    /\ \/ pc[p] = "commit" /\ Insert(p)
       \/ UNCHANGED jobs
    /\ guard' = IF guard = p THEN None ELSE guard
    /\ Answer(p, "unavailable")
    /\ UNCHANGED <<current, ask, inputs, done>>

\* The process dies, and its caller gets no answer.
Crash(p) ==
    /\ Busy(p)
    /\ Fault
    /\ Goto(p, "dead")
    /\ UNCHANGED <<jobs, guard, current, ask, inputs, done, reply>>

\* The server ends the session of a dead process and undoes its transaction.
SessionEnds(p) ==
    /\ pc[p] = "dead"
    /\ guard' = IF guard = p THEN None ELSE guard
    /\ Goto(p, "idle")
    /\ UNCHANGED <<jobs, current, ask, inputs, done, reply, faults>>

-----------------------------------------------------------------------------

Init ==
    /\ jobs = [id \in Ids |-> NoRow]
    /\ guard = None
    /\ current = Deliveries
    /\ pc = [p \in Requests |-> "idle"]
    /\ ask = [p \in Requests |-> None]
    /\ inputs = [p \in Requests |-> << >>]
    /\ done = [p \in Requests |-> 0]
    /\ reply = [p \in Requests |-> "none"]
    /\ faults = 0

Handle(p) ==
    \/ CheckHead(p) \/ Walk(p) \/ Begin(p) \/ Look(p) \/ Commit(p) \/ Get(p)
    \/ GuardWaitEnds(p)

Next ==
    \/ \E id \in Ids : JobEnds(id)
    \/ \E d \in Deliveries : HeadMoves(d)
    \/ \E p \in Requests :
          Arrive(p) \/ Handle(p) \/ Fails(p) \/ Crash(p) \/ SessionEnds(p)

Spec == Init /\ [][Next]_vars

\* A request goes on or runs into its deadline, and the server notices a dead
\* client.
Fairness == \A p \in Requests : WF_vars(Handle(p)) /\ WF_vars(SessionEnds(p))

FairSpec == Spec /\ Fairness

-----------------------------------------------------------------------------
(* Properties *)

\* Every variable holds a value of its kind.
TypeOK ==
    /\ jobs \in [Ids -> Rows \cup {NoRow}]
    /\ guard \in Requests \cup {None}
    /\ current \in SUBSET Deliveries
    /\ pc \in [Requests -> Places]
    /\ ask \in [Requests -> Asks \cup {None}]
    /\ inputs \in [Requests -> Seq(Inputs)]
    /\ done \in [Requests -> Nat]
    /\ reply \in [Requests -> Replies]
    /\ faults \in Nat
    /\ \A p \in Requests :
          /\ Busy(p) => ask[p] \in Asks /\ done[p] <= Len(inputs[p])
          /\ pc[p] \in {"head", "walk"} => ask[p].kind = "hook"
          /\ pc[p] = "head" => done[p] = 0
          /\ pc[p] \in {"begin", "look", "commit", "get"} => done[p] < Len(inputs[p])
          /\ Busy(p) /\ ask[p].kind = "post" => inputs[p] = <<ask[p].input>> /\ done[p] = 0

\* However many requests arrive at once, at most Limit jobs are open.
BacklogBounded == Cardinality(Open) <= Limit

\* The jobs a request is told of exist and have its own contents: two statements
\* that share an identifier are never both accepted unless they are equal.  An
\* accepted request is told of all its inputs, so that a webhook delivery that
\* failed before is complete.
AcceptedComplete ==
    \A p \in Requests : reply[p] \in {"accepted", "limit"} =>
       /\ reply[p] = "accepted" => done[p] = Len(inputs[p])
       /\ \A n \in 1..done[p] :
             LET i == inputs[p][n] IN Stored(i.id) /\ jobs[i.id].content = i.content

\* A request is told of a conflict only if the stored job is really another one:
\* the retry of an accepted input is a duplicate.
ConflictsAreReal ==
    \A p \in Requests : reply[p] = "conflict" =>
       Stored(Input(p).id) /\ jobs[Input(p).id].content # Input(p).content

\* What requests are told is true of the stored jobs (mysql.go:159-227,
\* github.go:169), whatever is listed to each copy of a delivery.
RepliesTrue == AcceptedComplete /\ ConflictsAreReal

\* A full backlog does not turn away the retry of a stored input.
FullOnlyForNew ==
    [][\A p \in Requests : reply'[p] = "full" /\ Busy(p) => ~Stored(Input(p).id)]_vars

\* The guard row comes free again, whatever becomes of the requests.
GuardFreed == guard # None ~> guard = None

-----------------------------------------------------------------------------
(* The inductive invariant *)

\* The transaction that holds the guard row is the only one, and what it has seen
\* is still so.
Serialized ==
    \A p \in Requests :
       /\ pc[p] \in {"look", "commit"} => guard = p
       /\ pc[p] = "commit" => ~Stored(Input(p).id) /\ Cardinality(Open) < Limit

\* What a request has accepted is stored.
Progress ==
    \A p \in Requests :
       /\ pc[p] # "idle" => reply[p] = "none"
       /\ pc[p] = "get" => Stored(Input(p).id) /\ SameDelivery(p)
       /\ Busy(p) => \A n \in 1..done[p] :
             LET i == inputs[p][n] IN Stored(i.id) /\ jobs[i.id].content = i.content

IInv ==
    /\ TypeOK /\ Serialized /\ Progress
    /\ BacklogBounded /\ AcceptedComplete /\ ConflictsAreReal

=============================================================================

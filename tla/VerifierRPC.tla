---------------------------- MODULE VerifierRPC ----------------------------
(***************************************************************************)
(* The verifier service: Server.Run for calls of several workers, and      *)
(* Client, which gives a worker a Runner that runs in another process.     *)
(*                                                                         *)
(* A try is one claim of a job.  Its worker reads the job's row back and   *)
(* calls the verifier with the lease it finds there, which may already be  *)
(* the next claim's.  The verifier starts a Runner (`RunnerPromise`) once  *)
(* the call has a slot, the job is not active, and that lease holds.       *)
(* Either side may die, and the stream between them may break, at any      *)
(* moment; the lease may end and the job be claimed again while the old    *)
(* call is still being served.                                             *)
(***************************************************************************)
EXTENDS RunnerPromise, Naturals, FiniteSets

CONSTANTS
    Slots,        \* cap(s.slots), 4 in the code
    MaxFaults     \* bound: broken streams, late leases, deaths

ASSUME VerifierAssumption ==
    /\ Slots \in Nat \ {0} /\ MaxFaults \in Nat
    /\ IsFiniteSet(Sessions)

VARIABLES
    owner,        \* the try that holds the lease of each job
    live,         \* lease_until > now
    verdict,      \* how each job ended, and by which try
    report,       \* the try whose report each job keeps
    ref,          \* the claim whose LeaseOwner and Attempt each try calls with
    client,       \* each worker's call: not made, waiting, or what Client returned
    handler,      \* where Server.Run is for each call
    reply,        \* the status or message that ended the stream
    ended,        \* calls inside Server.Run whose stream context is over
    slots,        \* len(s.slots)
    active,       \* s.active
    faults

leaseVars == <<owner, live, verdict, ref>>
jobVars == <<leaseVars, report>>
serverVars == <<handler, slots, active>>
verifierVars == <<jobVars, runnerVars, client, serverVars, reply, ended, faults>>

-----------------------------------------------------------------------------
(* Values *)

NoVerdict == [kind |-> "none", by |-> None]
Replies == {"none", "completed", "FailedPrecondition", "Aborted", "other"}
\* "uncalled": the claim came to nothing before its worker made the call.
NotCalled == {"idle", "claimed", "uncalled"}
ClientStates == NotCalled \cup {"waiting", "crashed"} \cup Results

\* Places of Server.Run.  Those between "admitted" and "running" hold a slot,
\* those from "enlisted" on have the job in s.active.
HandlerStates == {"none", "admitted", "enlisted", "checked", "running", "over"}
Inside == {s \in Sessions : handler[s] \in {"admitted", "enlisted", "checked", "running"}}
Enlisted == {s \in Sessions : handler[s] \in {"enlisted", "checked", "running"}}

\* Claim o has the lease of the job that s tries.
Holds(s, o) == o # None /\ owner[JobOf[s]] = o /\ live[JobOf[s]]

\* The worker's own statements name its own claim (cfg.Owner), the call and the
\* statements of its Runner the lease that the worker read back.
Leased(s) == Holds(s, s)
LeasedRef(s) == Holds(s, ref[s])

VerifierInit ==
    /\ RunnerInit
    /\ owner = [j \in Jobs |-> None]
    /\ live = [j \in Jobs |-> FALSE]
    /\ verdict = [j \in Jobs |-> NoVerdict]
    /\ report = [j \in Jobs |-> None]
    /\ ref = [s \in Sessions |-> None]
    /\ client = [s \in Sessions |-> "idle"]
    /\ handler = [s \in Sessions |-> "none"]
    /\ reply = [s \in Sessions |-> "none"]
    /\ ended = {}
    /\ slots = 0
    /\ active = {}
    /\ faults = 0

Fault == faults < MaxFaults /\ faults' = faults + 1

-----------------------------------------------------------------------------
(* The worker *)

\* The UPDATE of Claim: of a job that waits, or whose lease has run out.
Claim(s) ==
    LET j == JobOf[s]
    IN  /\ client[s] = "idle"
        /\ ~live[j] /\ verdict[j] = NoVerdict
        /\ owner' = [owner EXCEPT ![j] = s]
        /\ live' = [live EXCEPT ![j] = TRUE]
        /\ client' = [client EXCEPT ![s] = "claimed"]
        /\ UNCHANGED <<verdict, ref, report, runnerVars, serverVars, reply, ended, faults>>

\* The SELECT that ends Claim, and the call with the LeaseOwner and the attempt
\* of the row as it is by then: of another claim, or of none.
ReadRow(s) ==
    /\ client[s] = "claimed"
    /\ ref' = [ref EXCEPT ![s] = owner[JobOf[s]]]
    /\ client' = [client EXCEPT ![s] = "waiting"]
    /\ UNCHANGED <<owner, live, verdict, report, runnerVars, serverVars, reply, ended, faults>>

\* The worker dies between the two statements, or the second one fails.
ClaimFails(s) ==
    /\ client[s] = "claimed"
    /\ Fault
    /\ client' = [client EXCEPT ![s] = "uncalled"]
    /\ UNCHANGED <<jobVars, runnerVars, serverVars, reply, ended>>

\* Mutant: a stream that just ends (io.EOF) counts as success.
Received_Truncated(s) ==
    CASE reply[s] \in {"completed", "other"} -> "ok"
      [] reply[s] = "FailedPrecondition" -> "rejected"
      [] reply[s] = "Aborted" -> "lost"

\* What Client makes of the end of the stream.
Received(s) ==
    CASE reply[s] = "completed" -> "ok"
      [] reply[s] = "FailedPrecondition" -> "rejected"
      [] reply[s] = "Aborted" -> "lost"
      [] reply[s] = "other" -> "failed"

Receive(s) ==
    /\ client[s] = "waiting"
    /\ reply[s] # "none"
    /\ client' = [client EXCEPT ![s] = Received(s)]
    /\ reply' = [reply EXCEPT ![s] = "none"]
    /\ UNCHANGED <<jobVars, runnerVars, serverVars, ended, faults>>

\* The client's context is over (2 minutes, or the renewal of the lease failed)
\* or its stream breaks: whatever the server still does, it is not heard.
GiveUp(s) ==
    /\ client[s] = "waiting"
    /\ IF Leased(s) THEN Fault ELSE UNCHANGED faults
    /\ \E o \in {"failed", "lost"} : client' = [client EXCEPT ![s] = o]
    /\ reply' = [reply EXCEPT ![s] = "none"]
    /\ UNCHANGED <<jobVars, runnerVars, serverVars, ended>>

WorkerCrash(s) ==
    /\ client[s] = "waiting"
    /\ Fault
    /\ client' = [client EXCEPT ![s] = "crashed"]
    /\ reply' = [reply EXCEPT ![s] = "none"]
    /\ UNCHANGED <<jobVars, runnerVars, serverVars, ended>>

\* Complete, Reject or Retry, WHERE the lease is still this claim's.  After
\* ErrLeaseLost the worker writes nothing.
Verdict(s) ==
    LET j == JobOf[s]
        close(kind) == /\ verdict' = [verdict EXCEPT ![j] = [kind |-> kind, by |-> s]]
                       /\ owner' = [owner EXCEPT ![j] = None]
    IN  /\ client[s] \in {"ok", "rejected", "failed"}
        /\ Leased(s)
        /\ \/ client[s] = "ok" /\ close("COMPLETED")
           \/ client[s] = "rejected" /\ close("REJECTED")
           \/ /\ client[s] = "failed"
              /\ owner' = [owner EXCEPT ![j] = None]
              /\ UNCHANGED verdict
        /\ live' = [live EXCEPT ![j] = FALSE]
        /\ UNCHANGED <<ref, report, runnerVars, client, serverVars, reply, ended, faults>>

\* The lease ends while its worker is late, or because nobody renews it.
LeaseEnds(j) ==
    /\ live[j]
    /\ IF client[owner[j]] \in {"uncalled", "crashed", "lost"} THEN UNCHANGED faults ELSE Fault
    /\ live' = [live EXCEPT ![j] = FALSE]
    /\ UNCHANGED <<owner, verdict, ref, report, runnerVars, client, serverVars, reply, ended>>

\* RecoverExpired takes the job from the claim whose lease has run out.
Recover(j) ==
    /\ owner[j] # None /\ ~live[j]
    /\ owner' = [owner EXCEPT ![j] = None]
    /\ UNCHANGED <<live, verdict, ref, report, runnerVars, client, serverVars, reply, ended,
                   faults>>

-----------------------------------------------------------------------------
(* The server *)

\* The end of the stream, if its client still listens.
Heard(s, status) == IF client[s] = "waiting" THEN status ELSE "none"

\* Server.Run returns: the deferred functions give the slot and the entry of
\* s.active back, and the stream ends with this reply.
Return(s, status) ==
    /\ handler' = [handler EXCEPT ![s] = "over"]
    /\ reply' = [reply EXCEPT ![s] = Heard(s, status)]
    /\ ended' = ended \ {s}
    /\ slots' = slots - 1
    /\ active' = IF s \in Enlisted THEN active \ {JobOf[s]} ELSE active

\* A request arrives; when its worker gave up before, it arrives all the same.
Admit(s) ==
    /\ client[s] \notin NotCalled /\ handler[s] = "none"
    /\ ref[s] # None
    /\ slots < Slots
    /\ slots' = slots + 1
    /\ handler' = [handler EXCEPT ![s] = "admitted"]
    /\ UNCHANGED <<jobVars, runnerVars, client, active, reply, ended, faults>>

\* reference_invalid, verifier_busy, or a request that never arrives.
Refuse(s) ==
    /\ client[s] \notin NotCalled /\ handler[s] = "none"
    /\ IF ref[s] # None /\ slots < Slots THEN Fault ELSE UNCHANGED faults
    /\ handler' = [handler EXCEPT ![s] = "over"]
    /\ reply' = [reply EXCEPT ![s] = Heard(s, "other")]
    /\ UNCHANGED <<jobVars, runnerVars, client, slots, active, ended>>

\* job_already_running, or the job becomes active.
Enlist(s) ==
    /\ handler[s] = "admitted"
    /\ IF JobOf[s] \in active
       THEN Return(s, "other")
       ELSE /\ active' = active \cup {JobOf[s]}
            /\ handler' = [handler EXCEPT ![s] = "enlisted"]
            /\ UNCHANGED <<slots, reply, ended>>
    /\ UNCHANGED <<jobVars, runnerVars, client, faults>>

\* s.Get: the job runs under the lease of the call.  A read that fails counts as
\* none.
CheckLease(s) ==
    /\ handler[s] = "enlisted"
    /\ \/ /\ LeasedRef(s)
          /\ handler' = [handler EXCEPT ![s] = "checked"]
          /\ UNCHANGED <<slots, active, reply, ended, faults>>
       \/ /\ IF LeasedRef(s) /\ s \notin ended THEN Fault ELSE UNCHANGED faults
          /\ Return(s, "Aborted")
    /\ UNCHANGED <<jobVars, runnerVars, client>>

\* "accepted" is sent, and the Runner starts; or the stream is broken by then.
Start(s) ==
    /\ handler[s] = "checked"
    /\ \/ /\ BeginRun(s)
          /\ handler' = [handler EXCEPT ![s] = "running"]
          /\ UNCHANGED <<slots, active, reply, ended>>
       \/ /\ client[s] # "waiting" \/ s \in ended
          /\ Return(s, "other")
          /\ UNCHANGED runnerVars
    /\ UNCHANGED <<jobVars, client, faults>>

\* The stream's context ends: its worker is gone, or 2 minutes are over.
Cancelled(s) ==
    /\ s \in Inside \ ended
    /\ IF client[s] = "waiting" THEN Fault ELSE UNCHANGED faults
    /\ ended' = ended \cup {s}
    /\ UNCHANGED <<jobVars, runnerVars, client, serverVars, reply>>

\* The reply to the outcome of the Runner.
Status(s) ==
    CASE run[s] = "ok" -> "completed"
      [] run[s] = "rejected" -> "FailedPrecondition"
      [] run[s] = "lost" -> "Aborted"
      [] run[s] = "failed" -> "other"

\* Mutant: a cancelled call does not wait for its Runner.
Reply_WithoutWaiting(s) ==
    /\ handler[s] = "running"
    /\ \/ s \in ended /\ Return(s, "other")
       \/ run[s] \in Results /\ Return(s, Status(s))
    /\ UNCHANGED <<jobVars, runnerVars, client, faults>>

\* Mutant: the last message is sent until it is received.
Reply_UntilHeard(s) ==
    /\ handler[s] = "running"
    /\ run[s] \in Results
    /\ client[s] = "waiting"
    /\ Return(s, Status(s)) \/ (s \in ended /\ Return(s, "other"))
    /\ UNCHANGED <<jobVars, runnerVars, client, faults>>

\* Server.Run always waits for its Runner.  When the context has ended, or the
\* last message cannot be sent, the outcome is not passed on.
Reply(s) ==
    /\ handler[s] = "running"
    /\ run[s] \in Results
    /\ \/ Return(s, Status(s))
       \/ (s \in ended \/ client[s] # "waiting") /\ Return(s, "other")
    /\ UNCHANGED <<jobVars, runnerVars, client, faults>>

\* The verifier dies, and its Runners with it; their streams break.
ServerCrash ==
    /\ Inside # {}
    /\ Fault
    /\ CrashRuns({s \in Sessions : run[s] = "running"})
    /\ handler' = [s \in Sessions |-> IF s \in Inside THEN "over" ELSE handler[s]]
    /\ reply' = [s \in Sessions |-> IF s \in Inside THEN Heard(s, "other") ELSE reply[s]]
    /\ ended' = {}
    /\ slots' = 0
    /\ active' = {}
    /\ UNCHANGED <<jobVars, client>>

-----------------------------------------------------------------------------
(* The Runner in the verifier *)

\* Mutant: the report is stored without a look at the lease.
Store_Unfenced(s) ==
    /\ StoreReport(s)
    /\ report' = [report EXCEPT ![JobOf[s]] = s]
    /\ UNCHANGED <<leaseVars, client, serverVars, reply, ended, faults>>

\* The report transaction, fenced by the lease of the call.
Store(s) ==
    /\ LeasedRef(s)
    /\ StoreReport(s)
    /\ report' = [report EXCEPT ![JobOf[s]] = s]
    /\ UNCHANGED <<leaseVars, client, serverVars, reply, ended, faults>>

RunnerReturns(s) ==
    /\ ReturnFrom(s)
    /\ UNCHANGED <<jobVars, client, serverVars, reply, ended, faults>>

-----------------------------------------------------------------------------
(* The specification *)

Serve(s) == Enlist(s) \/ CheckLease(s) \/ Start(s) \/ Reply(s)

VerifierNext ==
    \/ \E s \in Sessions :
          \/ Claim(s) \/ ReadRow(s) \/ ClaimFails(s)
          \/ Receive(s) \/ GiveUp(s) \/ WorkerCrash(s) \/ Verdict(s)
          \/ Admit(s) \/ Refuse(s) \/ Serve(s) \/ Cancelled(s)
          \/ Store(s) \/ RunnerReturns(s)
    \/ \E j \in Jobs : LeaseEnds(j) \/ Recover(j)
    \/ ServerCrash

VerifierSpec == VerifierInit /\ [][VerifierNext]_verifierVars

\* Handlers take their next step, and a Runner returns, at the latest with the
\* end of its context after 2 minutes.  Nothing is assumed of clients.
FairVerifierSpec ==
    /\ VerifierSpec
    /\ \A s \in Sessions : WF_verifierVars(Serve(s)) /\ WF_verifierVars(RunnerReturns(s))

-----------------------------------------------------------------------------
(* Properties *)

\* Every variable holds a value of its kind; a slot is taken for every call
\* that is inside Server.Run and for no other (service.go:40), and s.active
\* lists the jobs of the calls that enlisted (service.go:50).
VerifierTypeOK ==
    /\ owner \in [Jobs -> Sessions \cup {None}]
    /\ live \in [Jobs -> BOOLEAN]
    /\ verdict \in [Jobs -> [kind: {"none", "COMPLETED", "REJECTED"},
                             by: Sessions \cup {None}]]
    /\ report \in [Jobs -> Sessions \cup {None}]
    /\ ref \in [Sessions -> Sessions \cup {None}]
    /\ client \in [Sessions -> ClientStates]
    /\ handler \in [Sessions -> HandlerStates]
    /\ reply \in [Sessions -> Replies]
    /\ ended \subseteq Inside
    /\ slots \in 0..Slots /\ slots = Cardinality(Inside)
    /\ active = {JobOf[s] : s \in Enlisted}
    /\ run \in [Sessions -> {"idle", "running", "crashed"} \cup Results]
    /\ stored \subseteq Sessions
    /\ faults \in Nat

\* service.go:46, :95: a job has one Runner at a time in the verifier, and none
\* without its call, although the lease may end and be given to a worker that
\* calls again while the Runner of the first call still works or cleans up.
OneRunPerJob ==
    \A s, t \in Sessions :
       run[s] = "running" =>
          /\ handler[s] = "running"
          /\ run[t] = "running" /\ JobOf[s] = JobOf[t] => s = t

\* service.go:92, :126: a job is completed only by a claim whose own Runner
\* stored a report and succeeded.  The report it keeps was stored under the
\* lease of that claim: by this Runner, or by that of an earlier claimer who
\* was late to read the row and called with the same lease.
CompletedByItsRun ==
    \A j \in Jobs :
       verdict[j].kind = "COMPLETED" =>
          /\ run[verdict[j].by] = "ok" /\ verdict[j].by \in stored
          /\ report[j] \in stored /\ ref[report[j]] = verdict[j].by

-----------------------------------------------------------------------------
(* The inductive invariant *)

\* How far a call has come bounds what its client and its Runner can be.
Called ==
    \A s \in Sessions :
       /\ client[s] \in NotCalled => handler[s] = "none" /\ ref[s] = None
       /\ handler[s] \in {"none", "admitted", "enlisted", "checked"} => run[s] = "idle"
       /\ run[s] = "idle" => s \notin stored
       /\ run[s] = "running" => handler[s] = "running"

OneEnlisted ==
    \A s, t \in Enlisted : JobOf[s] = JobOf[t] => s = t

Told ==
    \A s \in Sessions :
       /\ run[s] = "ok" => s \in stored
       /\ reply[s] = "completed" => run[s] = "ok"
       /\ client[s] = "ok" => run[s] = "ok"

Owned ==
    \A j \in Jobs :
       /\ owner[j] # None => JobOf[owner[j]] = j /\ client[owner[j]] # "idle"
       /\ verdict[j] # NoVerdict => owner[j] = None /\ verdict[j].by \in Sessions
       /\ live[j] => owner[j] # None

\* A call names a claim that was made; a claim that still holds the lease found
\* itself in the row; and a report stored under a lease keeps its place, but for
\* others stored under the same one, as long as the lease holds.
Referred ==
    \A s \in Sessions :
       /\ ref[s] # None => client[ref[s]] # "idle" /\ JobOf[ref[s]] = JobOf[s]
       /\ client[s] \notin NotCalled /\ owner[JobOf[s]] = s => ref[s] = s
       /\ s \in stored /\ LeasedRef(s) =>
             /\ report[JobOf[s]] \in stored
             /\ ref[report[JobOf[s]]] = ref[s]

\* The inductive invariant (service.go:35-99): a call goes through its places in
\* order, enlisted calls have different jobs, success is only reported of a
\* stored report, and the report of a job is one stored under its lease once
\* there is one.
VInv ==
    /\ VerifierTypeOK /\ Called /\ OneEnlisted /\ Told
    /\ Owned /\ Referred /\ CompletedByItsRun

-----------------------------------------------------------------------------
(* Liveness, and the verifier as a Runner *)

\* service.go:41, :52: a call that took a slot gives it back, whatever becomes
\* of its client, its stream and its Runner.
SlotFreed == \A s \in Sessions : s \in Inside ~> s \notin Inside

\* kafka-worker/main.go:78: to a worker, the verifier is a Runner.  A report
\* may arrive after the call was given up, but only while the lease it named
\* holds; after that, what the call returned is final.
RemoteStage == [s \in Sessions |->
    IF client[s] \in NotCalled THEN "idle"
    ELSE IF client[s] = "waiting" \/ (client[s] # "ok" /\ LeasedRef(s)) THEN "running"
    ELSE client[s]]

RemoteRunner == INSTANCE RunnerPromise WITH run <- RemoteStage, stored <- stored

RemoteRunnerKept == RemoteRunner!RunnerSpec

=============================================================================

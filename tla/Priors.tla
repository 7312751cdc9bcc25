-------------------------------- MODULE Priors --------------------------------
(***************************************************************************)
(* Historical priors: the runner leaves a hint about a verified candidate  *)
(* in an outbox, in the transaction of its report; a relay of every API    *)
(* process copies the hints of completed jobs to Elasticsearch, where      *)
(* later verifications and /history/search look for them.                  *)
(*                                                                         *)
(* Relays keep each other out with a named lock of their MySQL connection: *)
(* when the connection is lost the lock is free at once, the relay learns  *)
(* it with its next statement.  A version is the attempt that reported.    *)
(***************************************************************************)
EXTENDS Naturals, Sequences, FiniteSets, SequencesExt

CONSTANTS
    PriorJobs,    \* jobs with a candidate
    Relays,       \* API processes
    Tables,
    TablesOf,     \* the tables of a job's statement
    Retention,    \* 14 days
    MaxAttempts,  \* 20
    MaxVersion,   \* bound: attempts of a job
    MaxTime,      \* bound
    MaxLosses     \* bound: lost connections and failed requests

ASSUME PriorsAssumption ==
    /\ IsFiniteSet(PriorJobs) /\ TablesOf \in [PriorJobs -> SUBSET Tables]
    /\ Retention \in Nat /\ MaxAttempts \in Nat \ {0}
    /\ MaxVersion \in Nat /\ MaxTime \in Nat /\ MaxLosses \in Nat

VARIABLES
    time,
    status,     \* of a job, and the version of its report
    outbox,     \* its row of sql_sentinel_prior_outbox: {} or one
    index,      \* its document in Elasticsearch: {} or one
    relay,      \* where a relay is, its items and what came of the first
    holder,     \* who holds the lock
    page,       \* what the last step answered to a search, and to whom
    losses

priorVars == <<time, status, outbox, index, relay, holder, page, losses>>

NoPage == [allowed |-> {}, documents |-> {}]
NoItems == [at |-> "idle", items |-> <<>>]

PriorsTypeOK ==
    /\ time \in 0..MaxTime /\ losses \in 0..MaxLosses
    /\ \A j \in PriorJobs :
          /\ status[j].version \in 0..MaxVersion /\ status[j].completed \in BOOLEAN
          /\ \A row \in outbox[j] : row.published => row.attempts < MaxAttempts
          /\ Cardinality(outbox[j]) <= 1 /\ Cardinality(index[j]) <= 1
    /\ Cardinality(holder) <= 1
    /\ \A r \in Relays :
          /\ relay[r].at \in {"idle", "read", "put", "sent", "unsent", "clean"}
          /\ r \in holder => relay[r].at # "idle"

PriorsInit ==
    /\ time = 0 /\ losses = 0
    /\ status = [j \in PriorJobs |-> [version |-> 0, completed |-> FALSE]]
    /\ outbox = [j \in PriorJobs |-> {}]
    /\ index = [j \in PriorJobs |-> {}]
    /\ relay = [r \in Relays |-> NoItems]
    /\ holder = {}
    /\ page = NoPage

Loss == losses < MaxLosses /\ losses' = losses + 1

-----------------------------------------------------------------------------
(* The runner *)

\* The transaction of the report replaces the hint of an earlier attempt, and
\* leaves its attempts alone.
WritePrior(j) ==
    /\ ~status[j].completed /\ status[j].version < MaxVersion
    /\ status' = [status EXCEPT ![j].version = @ + 1]
    /\ LET d == [version |-> status[j].version + 1, tables |-> TablesOf[j],
                 expires |-> time + Retention]
       IN  outbox' = [outbox EXCEPT ![j] =
               IF @ = {} THEN {[document |-> d, attempts |-> 0, available |-> time,
                                published |-> FALSE]}
               ELSE {[row EXCEPT !.document = d] : row \in @}]
    /\ UNCHANGED <<time, index, relay, holder, losses>>
    /\ page' = NoPage

\* The worker completes a job that has a report.
CompleteJob(j) ==
    /\ ~status[j].completed /\ status[j].version > 0
    /\ status' = [status EXCEPT ![j].completed = TRUE]
    /\ UNCHANGED <<time, outbox, index, relay, holder, losses>>
    /\ page' = NoPage

-----------------------------------------------------------------------------
(* Relay *)

\* Mutant: the job of a hint need not be completed.
Ready_AnyJob(j, row) ==
    ~row.published /\ row.available <= time /\ row.attempts < MaxAttempts

Ready(j, row) ==
    /\ status[j].completed
    /\ ~row.published /\ row.available <= time /\ row.attempts < MaxAttempts

TakePriorLock(r) ==
    /\ relay[r].at = "idle"
    /\ holder = {}
    /\ holder' = {r}
    /\ relay' = [relay EXCEPT ![r].at = "read"]
    /\ UNCHANGED <<time, status, outbox, index, losses>>
    /\ page' = NoPage

\* A statement of a relay whose connection lives.
Executes(r) == r \in holder

\* Relay returns; RELEASE_LOCK, or the connection is closed.
EndsRelay(r) ==
    /\ relay' = [relay EXCEPT ![r] = NoItems]
    /\ holder' = holder \ {r}

ReadOutbox(r) ==
    /\ relay[r].at = "read" /\ Executes(r)
    /\ LET ready == {j \in PriorJobs : \E row \in outbox[j] : Ready(j, row)}
       IN  \E order \in SetToSeqs(ready) :
               relay' = [relay EXCEPT ![r] =
                   [at |-> IF order = <<>> THEN "clean" ELSE "put",
                    items |-> [n \in DOMAIN order |->
                       [job |-> order[n],
                        document |-> CHOOSE d \in {row.document : row \in outbox[order[n]]} : TRUE]]]]
    /\ UNCHANGED <<time, status, outbox, index, holder, losses>>
    /\ page' = NoPage

\* Put needs no connection to MySQL.  A request that failed may have arrived.
PutDocument(r) ==
    LET i == Head(relay[r].items)
        Arrives == index' = [index EXCEPT ![i.job] = {i.document}]
        Result(at) == relay' = [relay EXCEPT ![r].at = at]
    IN  /\ relay[r].at = "put"
        /\ IF i.document.expires <= time
           THEN Result("unsent") /\ UNCHANGED <<index, losses>>
           ELSE \/ Result("sent") /\ Arrives /\ UNCHANGED losses
                \/ Result("unsent") /\ Loss /\ (Arrives \/ UNCHANGED index)
        /\ UNCHANGED <<time, status, outbox, holder>>
    /\ page' = NoPage

Marked(row, at) ==
    IF row.published THEN row
    ELSE IF at = "sent" THEN [row EXCEPT !.published = TRUE]
    ELSE [row EXCEPT !.attempts = @ + 1, !.available = time + 1]

MarkItem(r) ==
    LET rest == Tail(relay[r].items)
        j == Head(relay[r].items).job
    IN  /\ relay[r].at \in {"sent", "unsent"} /\ Executes(r)
        /\ outbox' = [outbox EXCEPT ![j] = {Marked(row, relay[r].at) : row \in @}]
        /\ relay' = [relay EXCEPT ![r] =
              [at |-> IF rest = <<>> THEN "clean" ELSE "put", items |-> rest]]
        /\ UNCHANGED <<time, status, index, holder, losses>>
    /\ page' = NoPage

\* DELETE of expired rows, DeleteExpired, whose result is not looked at, and
\* the end.
CleanPriors(r) ==
    /\ relay[r].at = "clean" /\ Executes(r)
    /\ outbox' = [j \in PriorJobs |-> {row \in outbox[j] : row.document.expires > time}]
    /\ \/ /\ index' = [j \in PriorJobs |-> {d \in index[j] : d.expires > time}]
          /\ UNCHANGED losses
       \/ Loss /\ UNCHANGED index
    /\ EndsRelay(r)
    /\ UNCHANGED <<time, status>>
    /\ page' = NoPage

\* The connection of a relay is lost, or its process ends.
LosesConnection(r) ==
    /\ r \in holder
    /\ Loss
    /\ holder' = holder \ {r}
    /\ UNCHANGED <<time, status, outbox, index, relay>>
    /\ page' = NoPage

\* The next statement on a lost connection fails; the fifteen seconds are over.
RelayFails(r) ==
    /\ relay[r].at # "idle"
    /\ IF Executes(r) THEN Loss ELSE UNCHANGED losses
    /\ EndsRelay(r)
    /\ UNCHANGED <<time, status, outbox, index>>
    /\ page' = NoPage

-----------------------------------------------------------------------------
(* Search *)

\* Elasticsearch returns what it has, expired documents too.
SearchPriors(allowed) ==
    /\ page = NoPage
    /\ page' = [allowed |-> allowed,
                documents |-> {d \in UNION {index[j] : j \in PriorJobs} :
                                 d.expires > time /\ d.tables \subseteq allowed}]
    /\ UNCHANGED <<time, status, outbox, index, relay, holder, losses>>

TimePasses ==
    /\ time < MaxTime
    /\ time' = time + 1
    /\ UNCHANGED <<status, outbox, index, relay, holder, losses>>
    /\ page' = NoPage

PriorsNext ==
    \/ TimePasses
    \/ \E j \in PriorJobs : WritePrior(j) \/ CompleteJob(j)
    \/ \E r \in Relays :
          \/ TakePriorLock(r) \/ ReadOutbox(r) \/ PutDocument(r) \/ MarkItem(r)
          \/ CleanPriors(r) \/ LosesConnection(r) \/ RelayFails(r)
    \/ \E allowed \in SUBSET Tables \ {{}} : SearchPriors(allowed)

PriorsSpec == PriorsInit /\ [][PriorsNext]_priorVars

-----------------------------------------------------------------------------
(* Correctness *)

\* Only what a completed job reported is ever in the index, in the version of
\* the report that stands; a row is marked published only when its document
\* arrived, and is tried at most MaxAttempts times however relays lose their
\* lock; a search returns no expired hint and none about a table that the
\* caller may not see (historicalprior/relay.go:31-62, client.go:168-181).
PriorsSound ==
    /\ \A j \in PriorJobs :
          /\ \A d \in index[j] : status[j].completed /\ d.version = status[j].version
          /\ \A row \in outbox[j] :
                /\ row.attempts <= MaxAttempts
                /\ row.published =>
                      index[j] = {row.document} \/ row.document.expires <= time
    /\ \A d \in page.documents : d.tables \subseteq page.allowed /\ d.expires > time

=============================================================================

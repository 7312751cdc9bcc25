--------------------------- MODULE CommentPublisher ---------------------------
(***************************************************************************)
(* The GitHub comment publisher of the API processes.  Every 15 seconds a  *)
(* process tries to take a MySQL named lock, reads a few finished jobs     *)
(* whose source has no comment state yet, and handles them one by one: it  *)
(* asks GitHub for the pull request's head, looks for a comment that bears *)
(* the job's marker, updates or posts it, and records the outcome.         *)
(*                                                                         *)
(* The lock belongs to one database connection; the statements run on      *)
(* others.  When the lock's connection dies the server gives the lock away *)
(* and the publisher does not notice.                                      *)
(*                                                                         *)
(* GitHub is external: a call takes effect, or not, before it returns or   *)
(* fails.                                                                  *)
(***************************************************************************)
EXTENDS Naturals, FiniteSets

CONSTANTS
    Jobs,        \* jobs that came from a webhook, so they have a source row
    Publishers,  \* API processes with comments enabled
    BatchSize,   \* LIMIT of the query
    MaxFaults,   \* bound: crashes and failed calls
    MaxDrops,    \* bound: lock connections lost under a working publisher
    MaxPushes,   \* bound: changes of pull request heads
    MaxRefusals  \* bound: repositories or pull requests that become inaccessible

ASSUME JobsAssumption == IsFiniteSet(Jobs)
ASSUME BatchSizeAssumption == BatchSize \in Nat \ {0}
ASSUME BoundsAssumption == /\ MaxFaults \in Nat /\ MaxDrops \in Nat
                           /\ MaxPushes \in Nat /\ MaxRefusals \in Nat

VARIABLES
    ended,       \* rank of a job's updated_at among the finished jobs, 0 before
    state,       \* sql_sentinel_sources.comment_state
    current,     \* whether the pull request's head is the one the job came from
    refused,     \* jobs whose repository is no longer allowed or does not answer
    comments,    \* number of comments with the job's marker on GitHub
    lock,        \* the holders of GET_LOCK, at most one
    pc,          \* where each publisher stands in PublishPending
    batch,       \* the items it has still to handle
    item,        \* the item in hand, as a set of at most one job
    verdict,     \* the state it is going to record
    faults, drops, pushes

dbVars == <<ended, state>>
hubVars == <<current, refused, comments>>
pubVars == <<pc, batch, item, verdict>>
budgetVars == <<faults, drops, pushes>>
vars == <<dbVars, hubVars, lock, pubVars, budgetVars>>

States == {"pending", "published", "superseded"}
Locations == {"idle", "select", "check", "find", "post", "patch", "mark", "release"}

Fault == faults < MaxFaults /\ faults' = faults + 1

\* The rows the query may return: finished, undecided, the oldest first.
Undecided == {j \in Jobs : ended[j] # 0 /\ state[j] = "pending"}

Oldest(S) ==
    {T \in SUBSET S :
        \/ T = S /\ Cardinality(T) <= BatchSize
        \/ /\ Cardinality(T) = BatchSize
           /\ \A j \in T, k \in S \ T : ended[j] <= ended[k]}

First(T) == {j \in T : \A k \in T : ended[j] <= ended[k]}

-----------------------------------------------------------------------------
(* What happens around the publishers *)

\* A worker finishes the job; a finished job is never updated again.
JobEnds(j) ==
    /\ ended[j] = 0
    /\ ended' = [ended EXCEPT ![j] = Cardinality({k \in Jobs : ended[k] # 0}) + 1]
    /\ UNCHANGED <<state, hubVars, lock, pubVars, budgetVars>>

\* Somebody pushes, and some jobs' heads are current afterwards, others not.
Push ==
    /\ pushes < MaxPushes /\ pushes' = pushes + 1
    /\ \E S \in SUBSET Jobs : current' = [j \in Jobs |-> j \in S]
    /\ UNCHANGED <<dbVars, refused, comments, lock, pubVars, faults, drops>>

\* A repository leaves the allowed set, or its pull request is gone for good.
Refuse(j) ==
    /\ Cardinality(refused) < MaxRefusals
    /\ refused' = refused \cup {j}
    /\ UNCHANGED <<dbVars, current, comments, lock, pubVars, budgetVars>>

-----------------------------------------------------------------------------
(* PublishPending *)

Goto(p, place) == pc' = [pc EXCEPT ![p] = place]

\* The locked call is over: with RELEASE_LOCK, or by discarding the connection.
Leave(p) ==
    /\ Goto(p, "release")
    /\ batch' = [batch EXCEPT ![p] = {}]
    /\ item' = [item EXCEPT ![p] = {}]
    /\ verdict' = [verdict EXCEPT ![p] = "pending"]

\* GET_LOCK answers 1; a publisher that gets 0 returns at once.
TryLock(p) ==
    /\ pc[p] = "idle" /\ lock = {}
    /\ lock' = {p}
    /\ Goto(p, "select")
    /\ UNCHANGED <<dbVars, hubVars, batch, item, verdict, budgetVars>>

\* The query for finished jobs without a comment.
Select(p) ==
    /\ pc[p] = "select"
    /\ \E T \in Oldest(Undecided) :
          IF T = {} THEN Leave(p)
          ELSE /\ batch' = [batch EXCEPT ![p] = T]
               /\ Goto(p, "check")
               /\ UNCHANGED <<item, verdict>>
    /\ UNCHANGED <<dbVars, hubVars, lock, budgetVars>>

\* Mutant: a moved head is an error.
CheckHead_MovedIsError(p) ==
    /\ pc[p] = "check"
    /\ \E j \in First(batch[p]) :
          IF j \in refused \/ ~current[j] THEN Leave(p)
          ELSE /\ item' = [item EXCEPT ![p] = {j}]
               /\ Goto(p, "find")
               /\ verdict' = [verdict EXCEPT ![p] = "published"]
               /\ UNCHANGED batch
    /\ UNCHANGED <<dbVars, hubVars, lock, budgetVars>>

\* The repository is allowed and GitHub tells the head; a moved head supersedes
\* the item, and a refused item ends the call with an error.
CheckHead(p) ==
    /\ pc[p] = "check"
    /\ \E j \in First(batch[p]) :
          IF j \in refused THEN Leave(p)
          ELSE /\ item' = [item EXCEPT ![p] = {j}]
               /\ IF current[j]
                  THEN Goto(p, "find") /\ verdict' = [verdict EXCEPT ![p] = "published"]
                  ELSE Goto(p, "mark") /\ verdict' = [verdict EXCEPT ![p] = "superseded"]
               /\ UNCHANGED batch
    /\ UNCHANGED <<dbVars, hubVars, lock, budgetVars>>

\* Mutant: the marker is not looked for.
FindMarker_Never(p) ==
    /\ pc[p] = "find"
    /\ Goto(p, "post")
    /\ UNCHANGED <<dbVars, hubVars, lock, batch, item, verdict, budgetVars>>

\* The pull request's comments are searched for the marker.
FindMarker(p) ==
    /\ pc[p] = "find"
    /\ \E j \in item[p] : Goto(p, IF comments[j] > 0 THEN "patch" ELSE "post")
    /\ UNCHANGED <<dbVars, hubVars, lock, batch, item, verdict, budgetVars>>

\* POST or PATCH succeeds.
Posted(p) == pc[p] = "post" /\ \E j \in item[p] : comments' = [comments EXCEPT ![j] = @ + 1]
Patched(p) == pc[p] = "patch" /\ UNCHANGED comments

Write(p) ==
    /\ Posted(p) \/ Patched(p)
    /\ Goto(p, "mark")
    /\ UNCHANGED <<dbVars, current, refused, lock, batch, item, verdict, budgetVars>>

\* POST or PATCH returns an error, with or without effect.
WriteFails(p) ==
    /\ pc[p] \in {"post", "patch"}
    /\ Fault
    /\ Posted(p) \/ UNCHANGED comments
    /\ Leave(p)
    /\ UNCHANGED <<dbVars, current, refused, lock, drops, pushes>>

\* Mutant: the UPDATE lacks "comment_published_at IS NULL".
Recorded_Always(p) == \E j \in item[p] : state' = [state EXCEPT ![j] = verdict[p]]

\* UPDATE ... WHERE comment_published_at IS NULL.
Recorded(p) ==
    \E j \in item[p] : state' = [state EXCEPT ![j] = IF @ = "pending" THEN verdict[p] ELSE @]

\* The outcome is recorded, and the next item of the batch follows.
Mark(p) ==
    /\ pc[p] = "mark"
    /\ Recorded(p)
    /\ IF batch[p] \ item[p] = {} THEN Leave(p)
       ELSE /\ Goto(p, "check")
            /\ batch' = [batch EXCEPT ![p] = @ \ item[p]]
            /\ item' = [item EXCEPT ![p] = {}]
            /\ verdict' = [verdict EXCEPT ![p] = "pending"]
    /\ UNCHANGED <<ended, hubVars, lock, budgetVars>>

\* A query or a GET fails, the UPDATE fails before or after it took effect, or
\* the 40 seconds of a call are over.
CallFails(p) ==
    /\ pc[p] \in {"select", "check", "find", "mark"}
    /\ Fault
    /\ \/ pc[p] = "mark" /\ Recorded(p)
       \/ UNCHANGED state
    /\ Leave(p)
    /\ UNCHANGED <<ended, hubVars, lock, drops, pushes>>

Release(p) ==
    /\ pc[p] = "release"
    /\ Goto(p, "idle")
    /\ lock' = lock \ {p}
    /\ UNCHANGED <<dbVars, hubVars, batch, item, verdict, budgetVars>>

\* The process dies; a new one starts with an empty memory.
Crash(p) ==
    /\ pc[p] # "idle"
    /\ Fault
    /\ Goto(p, "idle")
    /\ batch' = [batch EXCEPT ![p] = {}]
    /\ item' = [item EXCEPT ![p] = {}]
    /\ verdict' = [verdict EXCEPT ![p] = "pending"]
    /\ UNCHANGED <<dbVars, hubVars, lock, drops, pushes>>

\* The server ends the session that holds the lock: of a process that died, or
\* of one that is still working on its other connections.
SessionEnds(p) ==
    /\ p \in lock
    /\ lock' = lock \ {p}
    /\ IF pc[p] = "idle" THEN UNCHANGED drops ELSE drops < MaxDrops /\ drops' = drops + 1
    /\ UNCHANGED <<dbVars, hubVars, pubVars, faults, pushes>>

-----------------------------------------------------------------------------

Init ==
    /\ ended = [j \in Jobs |-> 0]
    /\ state = [j \in Jobs |-> "pending"]
    /\ current = [j \in Jobs |-> TRUE]
    /\ refused = {}
    /\ comments = [j \in Jobs |-> 0]
    /\ lock = {}
    /\ pc = [p \in Publishers |-> "idle"]
    /\ batch = [p \in Publishers |-> {}]
    /\ item = [p \in Publishers |-> {}]
    /\ verdict = [p \in Publishers |-> "pending"]
    /\ faults = 0 /\ drops = 0 /\ pushes = 0

PublishPending(p) ==
    \/ TryLock(p) \/ Select(p) \/ CheckHead(p) \/ FindMarker(p)
    \/ Write(p) \/ Mark(p) \/ Release(p)

Next ==
    \/ \E j \in Jobs : JobEnds(j) \/ Refuse(j)
    \/ Push
    \/ \E p \in Publishers : \/ PublishPending(p) \/ WriteFails(p) \/ CallFails(p)
                             \/ Crash(p) \/ SessionEnds(p)

Spec == Init /\ [][Next]_vars

\* RunComments calls PublishPending every 15 seconds, whatever it returned, and
\* the server notices a dead client.
Fairness ==
    \A p \in Publishers : /\ WF_vars(PublishPending(p))
                          /\ WF_vars(pc[p] = "idle" /\ SessionEnds(p))

FairSpec == Spec /\ Fairness

-----------------------------------------------------------------------------
(* Properties *)

\* Every variable holds a value of its kind, and a publisher that is about to
\* touch a comment or a source row has an item in hand.
TypeOK ==
    /\ ended \in [Jobs -> Nat]
    /\ state \in [Jobs -> States]
    /\ current \in [Jobs -> BOOLEAN]
    /\ refused \in SUBSET Jobs
    /\ comments \in [Jobs -> Nat]
    /\ lock \in SUBSET Publishers
    /\ pc \in [Publishers -> Locations]
    /\ batch \in [Publishers -> SUBSET Jobs]
    /\ item \in [Publishers -> SUBSET Jobs]
    /\ verdict \in [Publishers -> States]
    /\ \A p \in Publishers :
          IF pc[p] \in {"find", "post", "patch", "mark"}
          THEN \E j \in Jobs : item[p] = {j}
          ELSE item[p] = {}
    /\ faults \in Nat /\ drops \in Nat /\ pushes \in Nat

\* As long as no working publisher loses its lock connection, a job gets at most
\* one comment, however often processes die between the POST and the UPDATE.
OneComment == drops = 0 => \A j \in Jobs : comments[j] <= 1

\* A source recorded as published has its comment, even when two publishers work
\* at once.
PublishedHasComment == \A j \in Jobs : state[j] = "published" => comments[j] >= 1

\* What is posted and what is recorded agree (comments.go:101-130).
CommentsTrue == OneComment /\ PublishedHasComment

\* The first recorded outcome of a source stands: a publisher that lost its lock
\* does not turn "superseded" into "published" or the other way round.
DecisionStands ==
    [][\A j \in Jobs : state[j] # "pending" => state'[j] = state[j]]_vars

\* Every finished job gets its outcome, whatever failed in between, as long as
\* every repository and pull request answers.
EveryJobDecided ==
    [](refused = {}) => \A j \in Jobs : ended[j] # 0 ~> state[j] # "pending"

\* Finished jobs whose repository and pull request answer get their outcome,
\* whatever becomes of the others.
AnsweringJobsDecided ==
    \A j \in Jobs : [](j \notin refused) => (ended[j] # 0 ~> state[j] # "pending")

-----------------------------------------------------------------------------
(* The inductive invariant behind OneComment and PublishedHasComment *)

\* Who works holds the lock, until a connection is dropped.
Exclusive == drops = 0 => /\ \A p \in Publishers : pc[p] # "idle" => p \in lock
                          /\ \A p, q \in lock : p = q

\* What the search for the marker found is still so.
Searched ==
    \A p \in Publishers : \A j \in item[p] :
       /\ drops = 0 /\ pc[p] = "post" => comments[j] = 0
       /\ pc[p] = "patch" => comments[j] >= 1
       /\ pc[p] = "mark" /\ verdict[p] = "published" => comments[j] >= 1

IInv == TypeOK /\ Exclusive /\ Searched /\ OneComment /\ PublishedHasComment

=============================================================================

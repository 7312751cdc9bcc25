--------------------------- MODULE ShadowSession ---------------------------
(***************************************************************************)
(* Shadow sessions: what Runner.Run does with the baseline and candidate   *)
(* databases once a job is admitted.  A session tries an index (explain,   *)
(* Gate.Run) or a rewritten query (runRewrite), and measures it when the   *)
(* job is an approved benchmark (RunQueries, ProbeWrites).                 *)
(*                                                                         *)
(* One step is one statement, or the reading of one side.  The sessions,   *)
(* in one or in several processes, share the candidate database and fence  *)
(* it with a named lock, which MySQL gives to a connection and takes back  *)
(* when it ends the connection.  The data of a side is its version; an     *)
(* import by an operator gives it a version it never had.                  *)
(***************************************************************************)
EXTENDS Tries, Naturals, FiniteSets

CONSTANTS
    Rewrites,     \* jobs whose candidate is a rewritten query
    Benchmarks,   \* jobs with Options.Benchmark
    Conns,        \* connections to the candidate database
    MaxEdits,     \* bound: imports per side
    MaxFaults     \* bound: lost connections, failed statements, dead processes

ASSUME ShadowAssumption ==
    /\ Rewrites \subseteq Jobs
    /\ Benchmarks \subseteq Jobs
    /\ None \notin Conns
    /\ MaxEdits \in Nat /\ MaxFaults \in Nat

VARIABLES
    version,      \* the data of each side
    indexes,      \* the candidate indexes on the shadow, by the session that made them
    lock,         \* GET_LOCK('sentinel-shadow:...'): its connection and depth
    conns,        \* the connections of the candidate pool and what became of them
    late,         \* the CREATE INDEX a dropped connection may still execute
    probes,       \* connections that have the temporary table of ProbeWrites
    pc,           \* where each session is
    conn,         \* its candidate connection
    names,        \* the indexes it is about to drop
    evidence,     \* what it found
    outcome,      \* what Runner.Run returns
    saved,        \* sessions whose report was accepted
    faults

serverVars == <<version, indexes, lock, conns, late, probes>>
localVars == <<names, evidence>>
shadowVars == <<serverVars, pc, conn, localVars, outcome, saved, faults>>

-----------------------------------------------------------------------------
(* Values *)

Sides == {"baseline", "candidate"}
Versions == 0..MaxEdits

\* "gone": the client closed it, the server has not noticed; "dead": the
\* server ended it, the client has not noticed.
ConnStates == {"closed", "idle", "used", "gone", "dead"}

BaselineReads == {"snapshotB", "queriesB", "resultB", "sampleB", "recheckB", "afterB"}
CandidateReads == {"snapshotC", "explain", "queriesC", "resultC", "sampleC",
                   "recheckC", "afterC"}
\* The places whose next statement goes to the candidate connection.
CandidatePlaces == CandidateReads \cup
    {"lock", "list", "drop", "create", "probe", "probed", "relist", "redrop", "release"}
Places == BaselineReads \cup CandidatePlaces \cup {"idle", "save", "end", "crashed"}

ShadowOutcomes == {"none", "ok", "rejected", "failed", "lost"}

\* digest: the snapshot named by the report; base: the baseline as last read;
\* equal: the results were the same; level2: the performance claim was
\* admitted; seen: the data that results and times were taken from.
Evidence == [digest: Nat, base: Nat, equal: BOOLEAN, level2: BOOLEAN,
             seen: SUBSET Nat]
NoEvidence == [digest |-> 0, base |-> 0, equal |-> FALSE, level2 |-> FALSE,
               seen |-> {}]

IsRewrite(s) == JobOf[s] \in Rewrites
IsBenchmark(s) == JobOf[s] \in Benchmarks

\* Every variable holds a value of its kind; a session has a connection from
\* Connect until it gives it back, and no session returns with one
\* (runner.go:248, `defer conn.Close()`).
ShadowTypeOK ==
    /\ version \in [Sides -> Nat]
    /\ indexes \subseteq Sessions
    /\ lock \in [conn: Conns \cup {None}, depth: Nat]
    /\ conns \in [Conns -> ConnStates]
    /\ late \in [Conns -> Sessions \cup {None}]
    /\ probes \subseteq Conns
    /\ pc \in [Sessions -> Places]
    /\ conn \in [Sessions -> Conns \cup {None}]
    /\ \A s \in Sessions : conn[s] = None <=>
          pc[s] \in {"idle", "end", "crashed"} \cup (IF IsRewrite(s) THEN {} ELSE {"save"})
    /\ names \in [Sessions -> SUBSET Sessions]
    /\ evidence \in [Sessions -> Evidence]
    /\ outcome \in [Sessions -> ShadowOutcomes]
    /\ saved \subseteq Sessions
    /\ faults \in Nat

ShadowInit ==
    /\ version = [side \in Sides |-> 0]
    /\ indexes = {}
    /\ lock = [conn |-> None, depth |-> 0]
    /\ conns = [c \in Conns |-> "closed"]
    /\ late = [c \in Conns |-> None]
    /\ probes = {}
    /\ pc = [s \in Sessions |-> "idle"]
    /\ conn = [s \in Sessions |-> None]
    /\ names = [s \in Sessions |-> {}]
    /\ evidence = [s \in Sessions |-> NoEvidence]
    /\ outcome = [s \in Sessions |-> "none"]
    /\ saved = {}
    /\ faults = 0

-----------------------------------------------------------------------------
(* The database server and the operator *)

Fault == faults < MaxFaults /\ faults' = faults + 1

Unlocked(c) == IF lock.conn = c THEN [conn |-> None, depth |-> 0] ELSE lock

\* The server ends a connection: its lock and its temporary table go with it.
EndConnection(c, left) ==
    /\ conns' = [conns EXCEPT ![c] = left]
    /\ lock' = Unlocked(c)
    /\ probes' = probes \ {c}

\* The server notices that the client is gone, after the statement it was
\* executing for it took effect or was rolled back.
ServerNotices(c) ==
    /\ conns[c] = "gone"
    /\ EndConnection(c, "closed")
    /\ \E landed \in SUBSET ({late[c]} \ {None}) : indexes' = indexes \cup landed
    /\ late' = [late EXCEPT ![c] = None]
    /\ UNCHANGED <<version, pc, conn, localVars, outcome, saved, faults>>

\* The pool closes an idle connection: too many are idle, or it is 5 minutes old.
Retire(c) ==
    /\ conns[c] = "idle"
    /\ EndConnection(c, "closed")
    /\ UNCHANGED <<version, indexes, late, pc, conn, localVars, outcome, saved, faults>>

\* A connection in use is lost on the server's side first.
ConnDies(c) ==
    /\ conns[c] = "used"
    /\ Fault
    /\ EndConnection(c, "dead")
    /\ UNCHANGED <<version, indexes, late, pc, conn, localVars, outcome, saved>>

\* An operator imports other data into one side.
Edit(side) ==
    /\ \E v \in Versions : v > version[side] /\ version' = [version EXCEPT ![side] = v]
    /\ UNCHANGED <<indexes, lock, conns, late, probes, pc, conn, localVars,
                   outcome, saved, faults>>

-----------------------------------------------------------------------------
(* A session: connection, lock, cleaning *)

\* The session stands at a place and, if its next statement goes to the
\* candidate, over a living connection.
At(s, place) ==
    /\ pc[s] = place
    /\ place \in CandidatePlaces => conns[conn[s]] = "used"

Advance(s, place) == pc' = [pc EXCEPT ![s] = place]

\* Where a session is once it has no candidate connection any more: the
\* pipeline still writes its report, runRewrite has returned.
Disconnected(s) == IF IsRewrite(s) THEN "end" ELSE "save"

Fail(s) == outcome' = [outcome EXCEPT ![s] = "failed"]

\* An idle connection is used before a new one is opened.
Connect(s) ==
    /\ pc[s] = "idle"
    /\ \E c \in Conns :
          /\ IF \E k \in Conns : conns[k] = "idle" THEN conns[c] = "idle"
             ELSE conns[c] = "closed"
          /\ conns' = [conns EXCEPT ![c] = "used"]
          /\ conn' = [conn EXCEPT ![s] = c]
    /\ Advance(s, "lock")
    /\ UNCHANGED <<version, indexes, lock, late, probes, localVars, outcome, saved, faults>>

\* Mutant: the shadow is not cleaned at the start.
GetLock_WithoutCleaning(s) ==
    /\ At(s, "lock")
    /\ lock.conn \in {None, conn[s]}
    /\ lock' = [conn |-> conn[s], depth |-> lock.depth + 1]
    /\ Advance(s, "snapshotB")
    /\ UNCHANGED <<version, indexes, conns, late, probes, conn, localVars, outcome, saved, faults>>

\* The connection that holds the lock may take it again.
GetLock(s) ==
    /\ At(s, "lock")
    /\ lock.conn \in {None, conn[s]}
    /\ lock' = [conn |-> conn[s], depth |-> lock.depth + 1]
    /\ Advance(s, "list")
    /\ UNCHANGED <<version, indexes, conns, late, probes, conn, localVars, outcome, saved, faults>>

\* shadow_busy after 10 seconds; the connection goes back to the pool.
LockBusy(s) ==
    /\ At(s, "lock")
    /\ lock.conn \notin {None, conn[s]}
    /\ conns' = [conns EXCEPT ![conn[s]] = "idle"]
    /\ conn' = [conn EXCEPT ![s] = None]
    /\ Fail(s)
    /\ Advance(s, Disconnected(s))
    /\ UNCHANGED <<version, indexes, lock, late, probes, localVars, saved, faults>>

\* cleanIndexes runs after the lock is taken and again before it is given back.
Drops(place) == IF place = "list" THEN "drop" ELSE "redrop"
Cleaned(place) == IF place \in {"list", "drop"} THEN "snapshotB" ELSE "release"

List(s) ==
    /\ \E place \in {"list", "relist"} :
          /\ At(s, place)
          /\ Advance(s, IF indexes = {} THEN Cleaned(place) ELSE Drops(place))
    /\ names' = [names EXCEPT ![s] = indexes]
    /\ UNCHANGED <<serverVars, conn, evidence, outcome, saved, faults>>

DropIndex(s) ==
    /\ \E i \in names[s] :
          /\ indexes' = indexes \ {i}
          /\ names' = [names EXCEPT ![s] = @ \ {i}]
          /\ \E place \in {"drop", "redrop"} :
                /\ At(s, place)
                /\ Advance(s, IF names[s] = {i} THEN Cleaned(place) ELSE place)
    /\ UNCHANGED <<version, lock, conns, late, probes, conn, evidence, outcome, saved, faults>>

\* Mutant: a connection whose lock could not be released goes back to the pool.
Break_KeepsConnection(s) ==
    /\ pc[s] \in CandidatePlaces
    /\ IF conns[conn[s]] = "dead" THEN UNCHANGED faults ELSE Fault
    /\ conns' = [conns EXCEPT ![conn[s]] = IF @ = "dead" THEN "closed" ELSE "idle"]
    /\ conn' = [conn EXCEPT ![s] = None]
    /\ names' = [names EXCEPT ![s] = {}]
    /\ Fail(s)
    /\ Advance(s, Disconnected(s))
    /\ UNCHANGED <<version, indexes, lock, late, probes, evidence, saved>>

\* A statement on the candidate fails and the connection is given up with it:
\* it was lost, the context ended during the statement (a CREATE INDEX or
\* GET_LOCK may still have its effect), or the code marks it bad because the
\* write probe or RELEASE_LOCK failed.  The deferred cleaning then fails too.
Break(s) ==
    LET c == conn[s]
        alive == conns[c] = "used"
    IN  /\ pc[s] \in CandidatePlaces
        /\ IF alive THEN Fault ELSE UNCHANGED faults
        /\ conns' = [conns EXCEPT ![c] = IF alive THEN "gone" ELSE "closed"]
        /\ late' = IF alive /\ pc[s] = "create" THEN [late EXCEPT ![c] = s] ELSE late
        /\ \/ UNCHANGED lock
           \/ /\ alive /\ pc[s] = "lock" /\ lock.conn = None
              /\ lock' = [conn |-> c, depth |-> 1]
        /\ conn' = [conn EXCEPT ![s] = None]
        /\ names' = [names EXCEPT ![s] = {}]
        /\ IF pc[s] = "release" /\ ~IsRewrite(s) THEN UNCHANGED outcome ELSE Fail(s)
        /\ Advance(s, Disconnected(s))
        /\ UNCHANGED <<version, indexes, probes, evidence, saved>>

\* Mutant: an error of the deferred cleanup is not reported.
StepFails_CleanupIgnored(s) ==
    /\ \/ /\ pc[s] \in BaselineReads
          /\ Advance(s, "relist")
          /\ Fail(s)
       \/ /\ \E place \in CandidateReads \cup {"list", "drop", "create"} : At(s, place)
          /\ Advance(s, "relist")
          /\ Fail(s)
       \/ /\ \E place \in {"relist", "redrop"} : At(s, place)
          /\ Advance(s, "release")
          /\ UNCHANGED outcome
    /\ Fault
    /\ names' = [names EXCEPT ![s] = {}]
    /\ UNCHANGED <<serverVars, conn, evidence, saved>>

\* Any other failure of the session's work: the deferred cleanup follows.
\* When the cleanup itself fails, RELEASE_LOCK is still sent.
StepFails(s) ==
    /\ \/ /\ pc[s] \in BaselineReads
          /\ Advance(s, "relist")
       \/ /\ \E place \in CandidateReads \cup {"list", "drop", "create"} : At(s, place)
          /\ Advance(s, "relist")
       \/ /\ \E place \in {"relist", "redrop"} : At(s, place)
          /\ Advance(s, "release")
    /\ Fault
    /\ Fail(s)
    /\ names' = [names EXCEPT ![s] = {}]
    /\ UNCHANGED <<serverVars, conn, evidence, saved>>

\* Mutant: a failed session does not release the lock.
Release_AfterSuccess(s) ==
    /\ At(s, "release")
    /\ lock.conn = conn[s]
    /\ lock' = IF outcome[s] # "failed" THEN [conn |-> None, depth |-> 0] ELSE lock
    /\ conns' = [conns EXCEPT ![conn[s]] = "idle"]
    /\ conn' = [conn EXCEPT ![s] = None]
    /\ Advance(s, Disconnected(s))
    /\ UNCHANGED <<version, indexes, late, probes, localVars, outcome, saved, faults>>

\* RELEASE_LOCK, and the connection goes back to the pool.
Release(s) ==
    /\ At(s, "release")
    /\ lock.conn = conn[s]
    /\ lock' = IF lock.depth = 1 THEN [conn |-> None, depth |-> 0]
               ELSE [lock EXCEPT !.depth = @ - 1]
    /\ conns' = [conns EXCEPT ![conn[s]] = "idle"]
    /\ conn' = [conn EXCEPT ![s] = None]
    /\ Advance(s, Disconnected(s))
    /\ UNCHANGED <<version, indexes, late, probes, localVars, outcome, saved, faults>>

Running(s) == pc[s] \notin {"idle", "end", "crashed"}

\* A process dies, and all its sessions with it.  The server notices later.
Crash(S) ==
    LET open == {conn[s] : s \in S} \ {None}
        creating == {s \in S : pc[s] = "create" /\ conns[conn[s]] = "used"}
    IN  /\ S # {} /\ \A s \in S : Running(s)
        /\ Fault
        /\ conns' = [c \in Conns |->
                        IF c \notin open THEN conns[c]
                        ELSE IF conns[c] = "dead" THEN "closed" ELSE "gone"]
        /\ late' = [c \in Conns |->
                        IF \E s \in creating : conn[s] = c
                        THEN CHOOSE s \in creating : conn[s] = c ELSE late[c]]
        /\ pc' = [s \in Sessions |-> IF s \in S THEN "crashed" ELSE pc[s]]
        /\ conn' = [s \in Sessions |-> IF s \in S THEN None ELSE conn[s]]
        /\ names' = [s \in Sessions |-> IF s \in S THEN {} ELSE names[s]]
        /\ UNCHANGED <<version, indexes, lock, probes, evidence, outcome, saved>>

-----------------------------------------------------------------------------
(* A session: evidence *)

\* A read of one side: what the session knows after it, and where it goes.
Read(s, place, found, next) ==
    /\ At(s, place)
    /\ evidence' = [evidence EXCEPT ![s] = found]
    /\ Advance(s, next)
    /\ UNCHANGED <<serverVars, conn, names, outcome, saved, faults>>

\* The evidence of s after queries on one side.
Queried(s, side) ==
    [evidence[s] EXCEPT !.seen = @ \cup {version[side]},
                        !.base = IF side = "baseline" THEN version[side] ELSE @]

\* The baseline as compared with the candidate a step later.
Noted(s) == [evidence[s] EXCEPT !.base = version["baseline"]]

\* shadowdata.Compute on both sides, before anything is done to the candidate.
SnapshotBaseline(s) ==
    Read(s, "snapshotB", [evidence[s] EXCEPT !.digest = version["baseline"]], "snapshotC")

SnapshotCandidate(s) ==
    /\ At(s, "snapshotC")
    /\ IF version["candidate"] = evidence[s].digest
       THEN /\ Advance(s, IF IsRewrite(s) THEN "queriesB" ELSE "create")
            /\ UNCHANGED outcome
       ELSE Fail(s) /\ Advance(s, "relist")
    /\ UNCHANGED <<serverVars, conn, localVars, saved, faults>>

\* ensureCandidateIndex: an index of that name is used as it is.
CreateIndex(s) ==
    /\ At(s, "create")
    /\ IF \E i \in indexes : JobOf[i] = JobOf[s] THEN UNCHANGED indexes
       ELSE indexes' = indexes \cup {s}
    /\ Advance(s, "explain")
    /\ UNCHANGED <<version, lock, conns, late, probes, conn, localVars, outcome, saved, faults>>

\* ANALYZE TABLE and EXPLAIN on the candidate, EXPLAIN on the baseline.
Explain(s) ==
    Read(s, "explain", evidence[s], IF IsBenchmark(s) THEN "resultB" ELSE "relist")

\* runRewrite: both queries on both sides have the same results, or not.
QueriesBaseline(s) == Read(s, "queriesB", Queried(s, "baseline"), "queriesC")

QueriesCandidate(s) ==
    \E same \in BOOLEAN :
       Read(s, "queriesC", [Queried(s, "candidate") EXCEPT !.equal = same],
            IF same /\ IsBenchmark(s) THEN "resultB" ELSE "afterB")

\* RunQueries ends: the index goes on to the write probe, the rewrite to the
\* snapshots after its queries.
Measured(s) == IF IsRewrite(s) THEN "afterB" ELSE "probe"

\* RunQueries compares one result of each side before it takes any time.
ResultBaseline(s) == Read(s, "resultB", Queried(s, "baseline"), "resultC")

ResultCandidate(s) ==
    \E same \in BOOLEAN :
       /\ ~IsRewrite(s) /\ version["candidate"] = evidence[s].base => same
       /\ Read(s, "resultC", Queried(s, "candidate"), IF same THEN "sampleB" ELSE Measured(s))

\* The warm-up and the 25 rounds, of which one stands for all: a time is taken
\* from other data than the snapshot as soon as any round is.  The numbers admit
\* the performance claim (level 2), or do not.
SampleBaseline(s) == Read(s, "sampleB", Queried(s, "baseline"), "sampleC")

SampleCandidate(s) ==
    \E admitted \in BOOLEAN :
       Read(s, "sampleC", [Queried(s, "candidate") EXCEPT !.level2 = admitted], "recheckB")

\* Results and snapshots are taken again; a change takes the claim back.
RecheckBaseline(s) == Read(s, "recheckB", Noted(s), "recheckC")

Unchanged(s) == {evidence[s].base, version["candidate"]} = {evidence[s].digest}

\* Mutant: only the baseline is compared with the snapshot.
RecheckCandidate_BaselineOnly(s) ==
    Read(s, "recheckC",
         [evidence[s] EXCEPT !.level2 = @ /\ evidence[s].base = evidence[s].digest],
         Measured(s))

RecheckCandidate(s) ==
    Read(s, "recheckC", [evidence[s] EXCEPT !.level2 = @ /\ Unchanged(s)], Measured(s))

\* ProbeWrites works on a temporary table of each connection; when it fails
\* both connections are marked bad (Break).
CreateProbe(s) ==
    /\ At(s, "probe")
    /\ probes' = probes \cup {conn[s]}
    /\ Advance(s, "probed")
    /\ UNCHANGED <<version, indexes, lock, conns, late, conn, localVars, outcome, saved, faults>>

DropProbe(s) ==
    /\ At(s, "probed")
    /\ probes' = probes \ {conn[s]}
    /\ Advance(s, "relist")
    /\ UNCHANGED <<version, indexes, lock, conns, late, conn, localVars, outcome, saved, faults>>

\* runRewrite takes the snapshots again before it stores anything.
AfterBaseline(s) == Read(s, "afterB", Noted(s), "afterC")

AfterCandidate(s) ==
    /\ At(s, "afterC")
    /\ IF Unchanged(s) THEN Advance(s, "save") /\ UNCHANGED outcome
       ELSE Fail(s) /\ Advance(s, "relist")
    /\ UNCHANGED <<serverVars, conn, localVars, saved, faults>>

-----------------------------------------------------------------------------
(* The report *)

Saved(s) == IF IsRewrite(s) THEN "relist" ELSE "end"

\* What a stored report makes of the outcome.  The pipeline stores a report of
\* its failures too: some MySQL errors reject the job, and comparing the plans
\* or diagnosing them may fail yet.  A rewrite with other results is rejected.
Verdicts(s) ==
    IF IsRewrite(s) THEN IF evidence[s].equal THEN {"ok"} ELSE {"rejected"}
    ELSE IF outcome[s] = "none" THEN {"ok", "failed"} ELSE {"failed", "rejected"}

Save(s) ==
    /\ pc[s] = "save"
    /\ saved' = saved \cup {s}
    /\ \E o \in Verdicts(s) : outcome' = [outcome EXCEPT ![s] = o]
    /\ Advance(s, Saved(s))
    /\ UNCHANGED <<serverVars, conn, localVars, faults>>

\* Mutant: the number of affected rows is not looked at.
SaveRefused_Unnoticed(s) ==
    /\ pc[s] = "save"
    /\ \E o \in Verdicts(s) : outcome' = [outcome EXCEPT ![s] = o]
    /\ Advance(s, Saved(s))
    /\ UNCHANGED <<serverVars, conn, localVars, saved, faults>>

\* The lease is over, or the statement fails.
SaveRefused(s) ==
    /\ pc[s] = "save"
    /\ \E o \in {"lost", "failed"} : outcome' = [outcome EXCEPT ![s] = o]
    /\ Advance(s, Saved(s))
    /\ UNCHANGED <<serverVars, conn, localVars, saved, faults>>

-----------------------------------------------------------------------------
(* The specification *)

\* A session's statement on the shadow succeeds.
Work(s) ==
    \/ GetLock(s) \/ LockBusy(s) \/ List(s) \/ DropIndex(s)
    \/ SnapshotBaseline(s) \/ SnapshotCandidate(s) \/ CreateIndex(s) \/ Explain(s)
    \/ QueriesBaseline(s) \/ QueriesCandidate(s)
    \/ ResultBaseline(s) \/ ResultCandidate(s)
    \/ SampleBaseline(s) \/ SampleCandidate(s)
    \/ RecheckBaseline(s) \/ RecheckCandidate(s)
    \/ CreateProbe(s) \/ DropProbe(s) \/ AfterBaseline(s) \/ AfterCandidate(s)
    \/ Release(s)

Environment ==
    \/ \E c \in Conns : ServerNotices(c) \/ Retire(c) \/ ConnDies(c)
    \/ \E side \in Sides : Edit(side)

ShadowNext ==
    \/ \E s \in Sessions :
          \/ Connect(s) \/ Work(s) \/ Break(s) \/ StepFails(s)
          \/ Save(s) \/ SaveRefused(s)
    \/ \E S \in SUBSET Sessions : Crash(S)
    \/ Environment

ShadowSpec == ShadowInit /\ [][ShadowNext]_shadowVars

\* Statements return within the 2 minutes of the context, or with its end, and
\* the server notices connections that are gone.
FairShadowSpec ==
    /\ ShadowSpec
    /\ \A s \in Sessions :
          WF_shadowVars(Work(s) \/ Break(s) \/ Save(s) \/ SaveRefused(s))
    /\ \A c \in Conns : WF_shadowVars(ServerNotices(c))

-----------------------------------------------------------------------------
(* Properties *)

\* runner.go:253, :268: whoever is about to read the candidate for evidence
\* over a living connection finds its own index there and no other candidate
\* index; a rewrite finds none.  Sessions that died, lost their connection or
\* failed to clean up must not show in a later measurement.
OnlyOwnIndex ==
    \A s \in Sessions :
       /\ pc[s] \in CandidateReads \ {"snapshotC"}
       /\ conns[conn[s]] = "used"
       => indexes = IF IsRewrite(s) THEN {} ELSE {s}

\* runner.go:264, :288: a connection that a later job gets from the pool holds
\* neither the lock nor the table of the write probe.
PooledAreClean ==
    \A c \in Conns : conns[c] \in {"idle", "closed"} => lock.conn # c /\ c \notin probes

\* runner.go:257: a try that succeeded has left no index behind, nor will a
\* statement of it still make one.
SuccessLeavesNothing ==
    \A s \in Sessions :
       outcome[s] = "ok" => s \notin indexes /\ \A c \in Conns : late[c] # s

\* rewrite.go:125, benchmark.go:158: what a stored report claims was found on
\* the data it names, on both sides, although data may be imported at any
\* moment: that a rewrite is equivalent and, in a try that succeeded, that a
\* candidate performs.
EvidenceOnSnapshot ==
    \A s \in saved :
       \/ IsRewrite(s) /\ evidence[s].equal
       \/ outcome[s] = "ok" /\ evidence[s].level2
       => evidence[s].seen = {evidence[s].digest}

\* docs/backend-expansion.md:42 says that level 2 needs an unchanged snapshot,
\* of any report.  The code stores the report of a failed pipeline with the
\* measurement it had, and a recheck that failed has taken nothing back.
StoredClaimOnSnapshot ==
    \A s \in saved :
       evidence[s].level2 => evidence[s].seen = {evidence[s].digest}

\* runner.go:253-267: nobody keeps the lock.  A session gives it back or loses
\* its connection, whatever fails.
LockFreed == lock.conn # None ~> lock.conn = None

\* What a worker or the verifier relies on: a session is a Runner that stores
\* one report at most and succeeds only with a stored report.
Stage == [s \in Sessions |->
            IF pc[s] \in {"idle", "crashed"} THEN pc[s]
            ELSE IF pc[s] = "end" THEN outcome[s] ELSE "running"]

Promise == INSTANCE RunnerPromise WITH run <- Stage, stored <- saved

RunnerKept == Promise!RunnerSpec

=============================================================================

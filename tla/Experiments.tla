----------------------------- MODULE Experiments -----------------------------
(***************************************************************************)
(* The two experiments an operator runs beside the service: pg-compare     *)
(* copies a MySQL shadow into a throw-away PostgreSQL schema and measures  *)
(* one query on both (crossengine.Run); write-probe measures concurrent    *)
(* writes on two throw-away tables (writebench.Run).                       *)
(*                                                                         *)
(* A run is one process.  It takes the named lock of its kind on one       *)
(* connection, drops what dead runs left, creates its own schema or        *)
(* tables, measures, and drops them again.  MySQL frees the lock when the  *)
(* connection ends.  The two kinds share no lock and no database: the runs *)
(* are of one kind.  The clock counts minutes.                             *)
(***************************************************************************)
EXTENDS Naturals, FiniteSets

CONSTANTS
    Runs,
    Workers,      \* goroutines of a write round (4 in the code)
    Deadline,     \* context.WithTimeout of a run (2 minutes)
    OrphanAge,    \* age from which a leftover is dropped (5 minutes)
    MaxClock,     \* bound: minutes
    MaxEdits,     \* bound: imports into the MySQL shadow
    MaxFaults     \* bound: failed statements, lost connections, dead processes

ASSUME ExperimentsAssumption ==
    /\ Workers \in Nat \ {0}
    /\ Deadline \in Nat /\ OrphanAge \in Nat /\ Deadline <= OrphanAge
    /\ MaxClock \in Nat /\ MaxEdits \in Nat /\ MaxFaults \in Nat

VARIABLES
    clock,
    version,    \* the data of the MySQL shadow
    things,     \* the schemas and tables that exist, as <<run, part>>
    stamp,      \* the creation time in their comments, 0 when there is none
    linked,     \* runs whose lock connection is up
    lock,       \* runs whose connection holds the lock
    kind,       \* what the runs do
    pc, began, outcome,
    orphans,    \* what a run is about to drop for dead runs
    snapshot,   \* the data its MySQL transaction reads
    seen,       \* the data its results and times were taken from
    running,    \* write workers still running
    broken,     \* runs with the `failure` of runRound set
    claim,      \* runs whose report makes a claim
    met, edited, shortened, \* history: see Acquire, Edit and WorkerEnds
    faults

databaseVars == <<version, things, stamp>>
lockVars == <<linked, lock, met>>
measureVars == <<snapshot, seen, claim>>
workerVars == <<running, broken, shortened>>
experimentVars == <<clock, databaseVars, lockVars, kind, pc, began, outcome,
                    orphans, measureVars, workerVars, edited, faults>>

Kinds == {"comparison", "probe"}

\* A comparison makes one schema, a probe the tables ..._b and ..._c.
Own(r) == {r} \X (IF kind = "comparison" THEN {"schema"} ELSE {"b", "c"})

Working == {"lock", "list", "sweep", "begin", "create", "stamp", "copy", "query",
            "sample", "analyze", "after", "build", "round", "drop", "release"}

\* Places between the sweep and the last snapshot of a run.
Fenced == Working \ {"lock", "drop", "release"}

ExperimentsTypeOK ==
    /\ clock \in Nat /\ version \in Nat /\ faults \in Nat
    /\ things \subseteq Runs \X {"schema", "b", "c"}
    /\ stamp \in [Runs \X {"schema", "b", "c"} -> Nat]
    /\ lock \subseteq linked /\ linked \subseteq Runs
    /\ kind \in Kinds
    /\ pc \in [Runs -> Working \cup {"idle", "end", "crashed"}]
    /\ began \in [Runs -> Nat]
    /\ outcome \in [Runs -> {"none", "ok", "failed"}]
    /\ orphans \in [Runs -> SUBSET (Runs \X {"schema", "b", "c"})]
    /\ snapshot \in [Runs -> SUBSET Nat] /\ seen \in [Runs -> SUBSET Nat]
    /\ running \in [Runs -> 0..Workers]
    /\ broken \subseteq Runs /\ shortened \subseteq Runs
    /\ claim \subseteq Runs /\ edited \subseteq Runs
    /\ met \subseteq SUBSET Runs

ExperimentsInit ==
    /\ clock = 1 /\ version = 0 /\ faults = 0
    /\ things = {} /\ linked = {} /\ lock = {} /\ met = {}
    /\ stamp = [x \in Runs \X {"schema", "b", "c"} |-> 0]
    /\ kind \in Kinds
    /\ pc = [r \in Runs |-> "idle"]
    /\ began = [r \in Runs |-> 0]
    /\ outcome = [r \in Runs |-> "none"]
    /\ orphans = [r \in Runs |-> {}]
    /\ snapshot = [r \in Runs |-> {}] /\ seen = [r \in Runs |-> {}]
    /\ running = [r \in Runs |-> 0]
    /\ broken = {} /\ shortened = {} /\ claim = {} /\ edited = {}

-----------------------------------------------------------------------------
(* Time, the databases and the operator *)

Fault == faults < MaxFaults /\ faults' = faults + 1

Tick ==
    /\ clock < MaxClock
    /\ clock' = clock + 1
    /\ UNCHANGED <<databaseVars, lockVars, kind, pc, began, outcome, orphans,
                   measureVars, workerVars, edited, faults>>

\* The server ends a lock connection: at once for a fault, and some time after
\* the process is gone.
LinkEnds(r) ==
    /\ r \in linked
    /\ IF pc[r] \in {"end", "crashed"} THEN UNCHANGED faults ELSE Fault
    /\ linked' = linked \ {r}
    /\ lock' = lock \ {r}
    /\ UNCHANGED <<clock, databaseVars, met, kind, pc, began, outcome, orphans,
                   measureVars, workerVars, edited>>

\* An operator imports other data into the MySQL shadow.
Edit ==
    /\ version < MaxEdits
    /\ version' = version + 1
    /\ edited' = edited \cup
          {r \in Runs : pc[r] \in {"query", "sample", "analyze", "after"}}
    /\ UNCHANGED <<clock, things, stamp, lockVars, kind, pc, began, outcome, orphans,
                   measureVars, workerVars, faults>>

-----------------------------------------------------------------------------
(* Statements of a run *)

Expired(r) == clock > began[r] + Deadline

\* Mutant: a comparison reads MySQL on any connection of the pool.
UsesLink_ForLock(r) == pc[r] = "lock"

\* A comparison reads MySQL on the connection that holds its lock, a probe
\* works on other connections of its pool.
UsesLink(r) ==
    \/ pc[r] = "lock"
    \/ /\ kind = "comparison"
       /\ pc[r] \in {"begin", "copy", "query", "sample", "analyze", "after"}

UsesOwn(r) == pc[r] \in {"stamp", "copy", "query", "sample", "analyze", "build", "round"}

CanRun(r) ==
    /\ ~Expired(r)
    /\ UsesLink(r) => r \in linked
    /\ UsesOwn(r) => Own(r) \subseteq things

At(r, place) == pc[r] = place /\ CanRun(r)
Goto(r, place) == pc' = [pc EXCEPT ![r] = place]

\* The deferred DROP is registered after CREATE SCHEMA succeeded, but before
\* the first CREATE TABLE.
Armed(r) ==
    \/ pc[r] \in {"stamp", "copy", "query", "sample", "analyze", "after", "build", "round"}
    \/ kind = "probe" /\ pc[r] = "create"

\* Run returns: what it deferred is left to do.
Return(r, result) ==
    /\ outcome' = [outcome EXCEPT ![r] = result]
    /\ Goto(r, IF Armed(r) THEN "drop" ELSE IF pc[r] = "lock" THEN "end" ELSE "release")

\* The statement fails: the deadline has passed, its connection or table is
\* gone, or something else is wrong.
Fails(r) ==
    /\ pc[r] \in Working \ {"drop", "release"}
    /\ running[r] = 0
    /\ \/ ~CanRun(r) /\ UNCHANGED faults
       \/ Fault
    /\ Return(r, "failed")
    /\ UNCHANGED <<clock, databaseVars, lockVars, kind, began, orphans, measureVars,
                   workerVars, edited>>

\* A table, type or query that is unsupported, too large, or unequal once copied.
Refused(r) ==
    /\ pc[r] \in {"copy", "query", "analyze"}
    /\ Return(r, "failed")
    /\ UNCHANGED <<clock, databaseVars, lockVars, kind, began, orphans, measureVars,
                   workerVars, edited, faults>>

Crash(r) ==
    /\ pc[r] \in Working
    /\ Fault
    /\ Goto(r, "crashed")
    /\ running' = [running EXCEPT ![r] = 0]
    /\ UNCHANGED <<clock, databaseVars, lockVars, kind, began, outcome, orphans,
                   measureVars, broken, shortened, edited>>

-----------------------------------------------------------------------------
(* A run: lock and sweep *)

Start(r) ==
    /\ pc[r] = "idle"
    /\ Goto(r, "lock")
    /\ began' = [began EXCEPT ![r] = clock]
    /\ linked' = linked \cup {r}
    /\ UNCHANGED <<clock, databaseVars, lock, met, kind, outcome, orphans, measureVars,
                   workerVars, edited, faults>>

\* GET_LOCK(name, 0): a run that does not get it is "experiment_busy".
Acquire(r) ==
    /\ At(r, "lock")
    /\ IF lock = {}
       THEN /\ lock' = {r}
            /\ met' = met \cup {{q, r} : q \in {o \in Runs : pc[o] \in Fenced}}
            /\ Goto(r, "list")
            /\ UNCHANGED outcome
       ELSE Return(r, "failed") /\ UNCHANGED <<lock, met>>
    /\ UNCHANGED <<clock, databaseVars, linked, kind, began, orphans, measureVars,
                   workerVars, edited, faults>>

\* Mutant: the age of a leftover is not looked at.
Stale_AnyAge(x) == stamp[x] # 0

\* A leftover counts as one when its comment holds a time long past.
Stale(x) == stamp[x] # 0 /\ clock > stamp[x] + OrphanAge

ListOrphans(r) ==
    /\ At(r, "list")
    /\ orphans' = [orphans EXCEPT ![r] =
          {x \in things : Stale(x)}]
    /\ Goto(r, "sweep")
    /\ UNCHANGED <<clock, databaseVars, lockVars, kind, began, outcome, measureVars,
                   workerVars, edited, faults>>

\* DROP without IF EXISTS: a leftover that somebody else dropped is an error.
SweepOne(r) ==
    /\ At(r, "sweep")
    /\ \E x \in orphans[r] :
          IF x \in things
          THEN /\ things' = things \ {x}
               /\ orphans' = [orphans EXCEPT ![r] = @ \ {x}]
               /\ UNCHANGED <<pc, outcome>>
          ELSE Return(r, "failed") /\ UNCHANGED <<things, orphans>>
    /\ UNCHANGED <<clock, version, stamp, lockVars, kind, began, measureVars, workerVars,
                   edited, faults>>

SweepEnds(r) ==
    /\ At(r, "sweep")
    /\ orphans[r] = {}
    /\ Goto(r, IF kind = "comparison" THEN "begin" ELSE "create")
    /\ UNCHANGED <<clock, databaseVars, lockVars, kind, began, outcome, orphans,
                   measureVars, workerVars, edited, faults>>

-----------------------------------------------------------------------------
(* A comparison *)

\* The read-only REPEATABLE READ transaction; it has no snapshot yet.
Begin(r) ==
    /\ At(r, "begin")
    /\ Goto(r, "create")
    /\ UNCHANGED <<clock, databaseVars, lockVars, kind, began, outcome, orphans,
                   measureVars, workerVars, edited, faults>>

\* The answer may be lost; the schema is then nobody's.
CreateSchema(r) ==
    /\ kind = "comparison"
    /\ At(r, "create")
    /\ things' = things \cup Own(r)
    /\ \/ Goto(r, "stamp") /\ UNCHANGED <<outcome, faults>>
       \/ Fault /\ Return(r, "failed")
    /\ UNCHANGED <<clock, version, stamp, lockVars, kind, began, orphans, measureVars,
                   workerVars, edited>>

\* COMMENT ON SCHEMA, SET search_path.
Stamp(r) ==
    /\ At(r, "stamp")
    /\ stamp' = [x \in DOMAIN stamp |-> IF x \in Own(r) THEN clock ELSE stamp[x]]
    /\ Goto(r, "copy")
    /\ UNCHANGED <<clock, version, things, lockVars, kind, began, outcome, orphans,
                   measureVars, workerVars, edited, faults>>

\* The first read fixes the snapshot: the sizes, the digest and the copy are its.
Copy(r) ==
    /\ At(r, "copy")
    /\ snapshot' = [snapshot EXCEPT ![r] = {version}]
    /\ Goto(r, "query")
    /\ UNCHANGED <<clock, databaseVars, lockVars, kind, began, outcome, orphans, seen,
                   claim, workerVars, edited, faults>>

\* Mutant: the transaction reads what is committed.
TxData_Committed(r) == {version}

\* What the transaction reads after that.
TxData(r) == snapshot[r]

\* The query on both sides; unequal results are reported, without times.
Query(r) ==
    /\ At(r, "query")
    /\ seen' = [seen EXCEPT ![r] = TxData(r) \cup snapshot[r]]
    /\ \/ Goto(r, "sample") /\ UNCHANGED outcome
       \/ Return(r, "ok")
    /\ UNCHANGED <<clock, databaseVars, lockVars, kind, began, orphans, snapshot, claim,
                   workerVars, edited, faults>>

\* 27 rounds; Decide and Admit make a claim of them, or not.
Sample(r) ==
    /\ At(r, "sample")
    /\ seen' = [seen EXCEPT ![r] = @ \cup TxData(r) \cup snapshot[r]]
    /\ \/ UNCHANGED <<claim, pc>>
       \/ Goto(r, "analyze") /\ \E c \in SUBSET {r} : claim' = claim \cup c
    /\ UNCHANGED <<clock, databaseVars, lockVars, kind, began, outcome, orphans, snapshot,
                   workerVars, edited, faults>>

\* EXPLAIN ANALYZE on both sides and COMMIT.
Analyze(r) ==
    /\ At(r, "analyze")
    /\ Goto(r, "after")
    /\ UNCHANGED <<clock, databaseVars, lockVars, kind, began, outcome, orphans,
                   measureVars, workerVars, edited, faults>>

\* The snapshot once more, outside the transaction.
After(r) ==
    /\ At(r, "after")
    /\ Return(r, IF version \in snapshot[r] THEN "ok" ELSE "failed")
    /\ UNCHANGED <<clock, databaseVars, lockVars, kind, began, orphans, measureVars,
                   workerVars, edited, faults>>

-----------------------------------------------------------------------------
(* A write probe *)

\* CREATE TABLE with its time, and 256 rows; first _b, then _c.
CreateTable(r) ==
    /\ kind = "probe"
    /\ At(r, "create")
    /\ LET x == IF <<r, "b">> \in things THEN <<r, "c">> ELSE <<r, "b">>
       IN  /\ things' = things \cup {x}
           /\ stamp' = [stamp EXCEPT ![x] = clock]
           /\ \/ /\ Goto(r, IF x[2] = "b" THEN "create" ELSE "build")
                 /\ UNCHANGED <<outcome, faults>>
              \/ Fault /\ Return(r, "failed")
    /\ UNCHANGED <<clock, version, lockVars, kind, began, orphans, measureVars,
                   workerVars, edited>>

\* Mutant: the loop over the workers is one too long.
StartRound_OneMore(r) ==
    /\ running' = [running EXCEPT ![r] = Workers + 1]
    /\ broken' = broken \ {r}

StartRound(r) ==
    /\ running' = [running EXCEPT ![r] = Workers]
    /\ broken' = broken \ {r}

\* CREATE INDEX on _c, ANALYZE TABLE and sizes; then the first round.
Build(r) ==
    /\ At(r, "build")
    /\ Goto(r, "round")
    /\ StartRound(r)
    /\ UNCHANGED <<clock, databaseVars, lockVars, kind, began, outcome, orphans,
                   measureVars, shortened, edited, faults>>

\* A worker ends after 16 transactions, or with the first that fails.
WorkerEnds(r) ==
    /\ pc[r] = "round" /\ running[r] > 0
    /\ running' = [running EXCEPT ![r] = @ - 1]
    /\ \/ CanRun(r) /\ UNCHANGED <<broken, shortened, faults>>
       \/ /\ IF CanRun(r) THEN Fault ELSE UNCHANGED faults
          /\ broken' = broken \cup {r}
          /\ shortened' = shortened \cup {r}
    /\ UNCHANGED <<clock, databaseVars, lockVars, kind, pc, began, outcome, orphans,
                   measureVars, edited>>

\* After wg.Wait: an error, another round, or the report.
RoundEnds(r) ==
    /\ pc[r] = "round" /\ running[r] = 0
    /\ \/ /\ r \in broken
          /\ Return(r, "failed")
          /\ UNCHANGED <<running, broken, claim>>
       \/ /\ r \notin broken /\ CanRun(r)
          /\ \/ StartRound(r) /\ UNCHANGED <<pc, outcome, claim>>
             \/ /\ Return(r, "ok")
                /\ \E c \in SUBSET {r} : claim' = claim \cup c
                /\ UNCHANGED <<running, broken>>
    /\ UNCHANGED <<clock, databaseVars, lockVars, kind, began, orphans, snapshot, seen,
                   shortened, edited, faults>>

-----------------------------------------------------------------------------
(* What a run deferred *)

\* Mutant: the error of a deferred DROP is not returned.
Drop_Quiet(r) ==
    /\ pc[r] = "drop"
    /\ Fault
    /\ Goto(r, "release")
    /\ UNCHANGED <<clock, databaseVars, lockVars, kind, began, outcome, orphans,
                   measureVars, workerVars, edited>>

\* DROP SCHEMA ... CASCADE fails when the driver closed the connection at the
\* deadline, or when the schema is gone; DROP TABLE IF EXISTS does not.  A
\* failure replaces what Run was going to return.
Drop(r) ==
    /\ pc[r] = "drop"
    /\ \/ /\ things' = things \ Own(r)
          /\ outcome' = IF kind = "comparison" /\ ~(Own(r) \subseteq things)
                        THEN [outcome EXCEPT ![r] = "failed"] ELSE outcome
          /\ UNCHANGED faults
       \/ /\ IF kind = "comparison" /\ Expired(r) THEN UNCHANGED faults ELSE Fault
          /\ \E left \in SUBSET Own(r) : things' = things \ (Own(r) \ left)
          /\ outcome' = [outcome EXCEPT ![r] = "failed"]
    /\ Goto(r, "release")
    /\ UNCHANGED <<clock, version, stamp, lockVars, kind, began, orphans, measureVars,
                   workerVars, edited>>

\* RELEASE_LOCK, or the connection is discarded and the server ends it later.
Release(r) ==
    /\ pc[r] = "release"
    /\ \/ /\ r \in linked
          /\ linked' = linked \ {r}
          /\ lock' = lock \ {r}
          /\ UNCHANGED faults
       \/ /\ IF r \in linked THEN Fault ELSE UNCHANGED faults
          /\ UNCHANGED <<linked, lock>>
    /\ Goto(r, "end")
    /\ UNCHANGED <<clock, databaseVars, met, kind, began, outcome, orphans, measureVars,
                   workerVars, edited>>

RunStep(r) ==
    \/ Start(r) \/ Acquire(r) \/ ListOrphans(r) \/ SweepOne(r) \/ SweepEnds(r)
    \/ Begin(r) \/ CreateSchema(r) \/ Stamp(r) \/ Copy(r) \/ Query(r)
    \/ Sample(r) \/ Analyze(r) \/ After(r)
    \/ CreateTable(r) \/ Build(r) \/ WorkerEnds(r) \/ RoundEnds(r)
    \/ Drop(r) \/ Release(r)
    \/ Fails(r) \/ Refused(r) \/ Crash(r) \/ LinkEnds(r)

ExperimentsNext == Tick \/ Edit \/ \E r \in Runs : RunStep(r)

ExperimentsSpec == ExperimentsInit /\ [][ExperimentsNext]_experimentVars

-----------------------------------------------------------------------------
(* Correctness *)

\* A schema or table is dropped by its own run, or by the sweep of another when
\* the deadline of its own has passed: even a run that lost its lock keeps what
\* it measures on (cleanOrphans, compare.go:547 and probe.go:208).
NeverSweptAlive ==
    [][\A x \in things \ things' : pc'[x[1]] # pc[x[1]] \/ Expired(x[1])]_experimentVars

\* Two comparisons that were between sweep and last snapshot at the same time
\* do not both return a report: the one that lost its lock reads the last
\* snapshot on the lost connection (compare.go:132, 345).
OneReportPerOverlap ==
    kind = "comparison" => \A pair \in met : \E r \in pair : outcome[r] # "ok"

\* A run that returns a report left nothing behind: a failed DROP replaces the
\* result (compare.go:181, probe.go:107).
ReportLeavesNothing ==
    \A r \in Runs : outcome[r] = "ok" /\ pc[r] \in {"release", "end"}
                      => things \cap Own(r) = {}

\* A comparison's report, equal or not, is about the data of its snapshot only,
\* and a claim is not made when the shadow was imported while it measured; a
\* write report has no round in which a worker failed (compare.go:345, probe.go:315).
ReportSound ==
    \A r \in Runs : outcome[r] = "ok" =>
        IF kind = "comparison" THEN seen[r] \subseteq snapshot[r] /\ r \notin claim \cap edited
                               ELSE r \notin shortened

=============================================================================

-------------------------- MODULE ExperimentsProofs --------------------------
(***************************************************************************)
(* Proofs about the parts of MCTools.  Experiments, for any runs, workers, *)
(* deadlines and bounds: a sweep drops no live run's tables, runs that     *)
(* overlapped do not both report, and a report is about one snapshot and   *)
(* leaves nothing behind.  Measurement, for any seeds, times, rounds and   *)
(* reports: the statistics are right, a report is fair to both sides, and  *)
(* a series is admitted on quiet calibrations of the same data only.       *)
(***************************************************************************)
EXTENDS MCTools, FiniteSetTheorems, FunctionTheorems,
        SequenceTheorems, WellFoundedInduction, TLAPS

Parts == {"schema", "b", "c"}

\* What a step of run r is, unless it is one of the operator or the clock.
LEMMA Steps ==
    ASSUME [ExperimentsNext]_experimentVars
    PROVE  Tick \/ Edit \/ UNCHANGED experimentVars \/ \E r \in Runs : RunStep(r)
  BY DEF ExperimentsNext

\* The tables of a run are its own.
LEMMA OwnParts == \A r \in Runs : Own(r) \subseteq Runs \X Parts /\ \A x \in Own(r) : x[1] = r
  BY DEF Own, Parts

-----------------------------------------------------------------------------
(* Types *)

LEMMA TypeInit == ExperimentsInit => ExperimentsTypeOK
  BY ExperimentsAssumption DEF ExperimentsInit, ExperimentsTypeOK

LEMMA TypeStep == ExperimentsTypeOK /\ [ExperimentsNext]_experimentVars => ExperimentsTypeOK'
  <1>. SUFFICES ASSUME ExperimentsTypeOK, [ExperimentsNext]_experimentVars
                PROVE  ExperimentsTypeOK'
    OBVIOUS
  <1>. USE ExperimentsAssumption
  <1>. USE DEF databaseVars, lockVars, measureVars, workerVars, Working, Fault, Goto, At
  <1>1. CASE Tick \/ Edit \/ UNCHANGED experimentVars
    BY <1>1 DEF ExperimentsTypeOK, Tick, Edit, experimentVars
  <1>2. ASSUME NEW r \in Runs, RunStep(r)  PROVE ExperimentsTypeOK'
    <2>1. ASSUME NEW result \in {"ok", "failed"}, Return(r, result)
          PROVE  /\ pc' \in [Runs -> Working \cup {"idle", "end", "crashed"}]
                 /\ outcome' \in [Runs -> {"none", "ok", "failed"}]
      BY <2>1 DEF ExperimentsTypeOK, Return
    <2>2. CASE Start(r) \/ LinkEnds(r) \/ Crash(r) \/ Release(r)
      <3>1. CASE Start(r)
        BY <3>1 DEF ExperimentsTypeOK, Start
      <3>2. CASE LinkEnds(r)
        BY <3>2 DEF ExperimentsTypeOK, LinkEnds
      <3>3. CASE Crash(r)
        BY <3>3 DEF ExperimentsTypeOK, Crash
      <3>4. CASE Release(r)
        BY <3>4 DEF ExperimentsTypeOK, Release
      <3>. QED  BY <2>2, <3>1, <3>2, <3>3, <3>4
    <2>3. CASE Acquire(r)
      <3>1. met' \subseteq SUBSET Runs
        BY <2>3 DEF ExperimentsTypeOK, Acquire
      <3>2. CASE lock = {}
        BY <2>3, <3>1, <3>2 DEF ExperimentsTypeOK, Acquire, CanRun, UsesLink
      <3>3. CASE lock # {}
        BY <2>1, <2>3, <3>1, <3>3 DEF ExperimentsTypeOK, Acquire
      <3>. QED  BY <3>2, <3>3
    <2>4. CASE ListOrphans(r)
      BY <2>4 DEF ExperimentsTypeOK, ListOrphans
    <2>5. CASE SweepOne(r)
      BY <2>1, <2>5 DEF ExperimentsTypeOK, SweepOne
    <2>6. CASE SweepEnds(r) \/ Begin(r) \/ Copy(r) \/ Analyze(r)
      <3>1. CASE SweepEnds(r)
        BY <3>1 DEF ExperimentsTypeOK, SweepEnds
      <3>2. CASE Begin(r)
        BY <3>2 DEF ExperimentsTypeOK, Begin
      <3>3. CASE Copy(r)
        BY <3>3 DEF ExperimentsTypeOK, Copy
      <3>4. CASE Analyze(r)
        BY <3>4 DEF ExperimentsTypeOK, Analyze
      <3>. QED  BY <2>6, <3>1, <3>2, <3>3, <3>4
    <2>7. CASE CreateSchema(r)
      <3>1. things' \subseteq Runs \X Parts
        BY <2>7, OwnParts DEF ExperimentsTypeOK, CreateSchema, Parts
      <3>. QED  BY <2>1, <2>7, <3>1 DEF ExperimentsTypeOK, CreateSchema, Parts
    <2>8. CASE Stamp(r)
      BY <2>8 DEF ExperimentsTypeOK, Stamp
    <2>9. CASE Query(r)
      BY <2>1, <2>9 DEF ExperimentsTypeOK, Query, TxData
    <2>10. CASE Sample(r)
      BY <2>10 DEF ExperimentsTypeOK, Sample, TxData
    <2>11. CASE After(r) \/ Fails(r) \/ Refused(r)
      BY <2>1, <2>11 DEF ExperimentsTypeOK, After, Fails, Refused
    <2>12. CASE CreateTable(r)
      <3>. DEFINE x == IF <<r, "b">> \in things THEN <<r, "c">> ELSE <<r, "b">>
      <3>1. x \in Runs \X Parts /\ things' = things \cup {x}
            /\ stamp' = [stamp EXCEPT ![x] = clock]
        BY <2>12 DEF CreateTable, Parts
      <3>. HIDE DEF x
      <3>2. things' \subseteq Runs \X Parts /\ stamp' \in [Runs \X Parts -> Nat]
        BY <3>1 DEF ExperimentsTypeOK, Parts
      <3>3. \/ pc' \in [Runs -> Working \cup {"idle", "end", "crashed"}] /\ UNCHANGED <<outcome, faults>>
            \/ Fault /\ Return(r, "failed")
        BY <2>12 DEF CreateTable, ExperimentsTypeOK
      <3>. QED  BY <2>1, <2>12, <3>2, <3>3 DEF ExperimentsTypeOK, CreateTable, Parts
    <2>13. CASE Build(r)
      BY <2>13 DEF ExperimentsTypeOK, Build, StartRound
    <2>14. CASE WorkerEnds(r)
      BY <2>14 DEF ExperimentsTypeOK, WorkerEnds
    <2>15. CASE RoundEnds(r)
      BY <2>1, <2>15 DEF ExperimentsTypeOK, RoundEnds, StartRound
    <2>16. CASE Drop(r)
      BY <2>16 DEF ExperimentsTypeOK, Drop
    <2>. QED  BY <1>2, <2>2, <2>3, <2>4, <2>5, <2>6, <2>7, <2>8, <2>9, <2>10, <2>11, <2>12,
                <2>13, <2>14, <2>15, <2>16 DEF RunStep
  <1>. QED  BY <1>1, <1>2, Steps

\* Every variable of the experiments keeps its type, and only a connection that
\* is up holds the lock (compare.go:132, probe.go:82).
THEOREM ExperimentsTyped == ExperimentsSpec => []ExperimentsTypeOK
  BY TypeInit, TypeStep, PTL DEF ExperimentsSpec

-----------------------------------------------------------------------------
(* Whose tables a sweep drops *)

\* A time in a comment is not older than its run, and what a sweep is about to
\* drop belongs to a run whose deadline has passed.
Dated ==
    /\ \A r \in Runs : began[r] <= clock
    /\ \A x \in Runs \X Parts : stamp[x] # 0 => pc[x[1]] # "idle" /\ began[x[1]] <= stamp[x]
    /\ \A r \in Runs : \A x \in orphans[r] : pc[x[1]] # "idle" /\ Expired(x[1])

LEMMA DatedInit == ExperimentsInit => Dated
  BY DEF ExperimentsInit, Dated, Parts

\* A run in work is not set to "idle" again, and its time does not change.
LEMMA Goes ==
    ASSUME ExperimentsTypeOK, NEW r \in Runs, RunStep(r)
    PROVE  /\ \A q \in Runs : pc[q] # "idle" => pc'[q] # "idle" /\ began'[q] = began[q]
           /\ \A q \in Runs \ {r} : pc'[q] = pc[q] /\ began'[q] = began[q]
           /\ clock' = clock
  BY DEF ExperimentsTypeOK, Goto, Return, RunStep, Start, Acquire, ListOrphans, SweepOne,
         SweepEnds, Begin, CreateSchema, Stamp, Copy, Query, Sample, Analyze, After,
         CreateTable, Build, WorkerEnds, RoundEnds, Drop, Release, Fails, Refused, Crash,
         LinkEnds

LEMMA DatedStep ==
    ASSUME ExperimentsTypeOK, ExperimentsTypeOK', Dated, [ExperimentsNext]_experimentVars
    PROVE  Dated'
  <1>. USE ExperimentsAssumption
  <1>. USE DEF databaseVars, lockVars, measureVars, workerVars
  <1>1. CASE Tick \/ Edit \/ UNCHANGED experimentVars
    BY <1>1 DEF ExperimentsTypeOK, Dated, Expired, Parts, Tick, Edit, experimentVars
  <1>2. ASSUME NEW r \in Runs, RunStep(r)  PROVE Dated'
    <2>0. /\ \A q \in Runs : pc[q] # "idle" => pc'[q] # "idle" /\ began'[q] = began[q]
          /\ \A q \in Runs \ {r} : pc'[q] = pc[q] /\ began'[q] = began[q]
          /\ clock' = clock
      BY <1>2, Goes
    <2>1. \A q \in Runs : began'[q] <= clock'
      <3>1. CASE Start(r)
        BY <2>0, <3>1 DEF ExperimentsTypeOK, Dated, Start
      <3>2. CASE ~Start(r)
        BY <1>2, <2>0, <3>2 DEF ExperimentsTypeOK, Dated, RunStep, Acquire, ListOrphans,
           SweepOne, SweepEnds, Begin, CreateSchema, Stamp, Copy, Query, Sample, Analyze,
           After, CreateTable, Build, WorkerEnds, RoundEnds, Drop, Release, Fails, Refused,
           Crash, LinkEnds
      <3>. QED  BY <3>1, <3>2
    <2>2. \A x \in Runs \X Parts :
             \/ stamp'[x] = stamp[x]
             \/ x[1] = r /\ pc[r] # "idle" /\ stamp'[x] = clock
      <3>. SUFFICES ASSUME NEW x \in Runs \X Parts
                    PROVE  \/ stamp'[x] = stamp[x]
                           \/ x[1] = r /\ pc[r] # "idle" /\ stamp'[x] = clock
        OBVIOUS
      <3>1. CASE Stamp(r)
        <4>1. DOMAIN stamp = Runs \X Parts
          BY DEF ExperimentsTypeOK, Parts
        <4>2. stamp'[x] = IF x \in Own(r) THEN clock ELSE stamp[x]
          BY <3>1, <4>1 DEF Stamp
        <4>3. pc[r] # "idle"
          BY <3>1 DEF Stamp, At
        <4>. QED  BY <4>2, <4>3, OwnParts
      <3>2. CASE CreateTable(r)
        <4>1. PICK y \in {<<r, "b">>, <<r, "c">>} : stamp' = [stamp EXCEPT ![y] = clock]
          BY <3>2 DEF CreateTable
        <4>2. pc[r] # "idle"
          BY <3>2 DEF CreateTable, At
        <4>3. x \in DOMAIN stamp /\ y[1] = r
          BY <4>1 DEF ExperimentsTypeOK, Parts
        <4>4. stamp'[x] = IF x = y THEN clock ELSE stamp[x]
          BY <4>1, <4>3
        <4>. QED  BY <4>2, <4>3, <4>4
      <3>3. CASE Sample(r) \/ WorkerEnds(r) \/ RoundEnds(r) \/ Fails(r) \/ Drop(r) \/ Release(r)
        BY <3>3 DEF Sample, WorkerEnds, RoundEnds, Fails, Drop, Release
      <3>4. CASE ~Stamp(r) /\ ~CreateTable(r) /\ ~Sample(r) /\ ~WorkerEnds(r)
                 /\ ~RoundEnds(r) /\ ~Fails(r) /\ ~Drop(r) /\ ~Release(r)
        <4>1. CASE Start(r) \/ Acquire(r) \/ ListOrphans(r) \/ SweepOne(r) \/ SweepEnds(r)
                   \/ Begin(r) \/ CreateSchema(r)
          BY <4>1 DEF Start, Acquire, ListOrphans, SweepOne, SweepEnds, Begin, CreateSchema
        <4>2. CASE Copy(r) \/ Query(r) \/ Analyze(r) \/ After(r) \/ Build(r) \/ Refused(r)
                   \/ Crash(r) \/ LinkEnds(r)
          BY <4>2 DEF Copy, Query, Analyze, After, Build, Refused, Crash, LinkEnds
        <4>. QED  BY <1>2, <3>4, <4>1, <4>2 DEF RunStep
      <3>. QED  BY <3>1, <3>2, <3>3, <3>4
    <2>3. \A x \in Runs \X Parts :
             stamp'[x] # 0 => pc'[x[1]] # "idle" /\ began'[x[1]] <= stamp'[x]
      <3>. SUFFICES ASSUME NEW x \in Runs \X Parts, stamp'[x] # 0
                    PROVE  pc'[x[1]] # "idle" /\ began'[x[1]] <= stamp'[x]
        OBVIOUS
      <3>1. x[1] \in Runs
        OBVIOUS
      <3>2. pc[x[1]] # "idle" /\ began[x[1]] <= stamp'[x]
        BY <2>2, <3>1 DEF ExperimentsTypeOK, Dated
      <3>. QED  BY <2>0, <3>1, <3>2
    <2>4. \A q \in Runs : \A x \in orphans'[q] : pc[x[1]] # "idle" /\ Expired(x[1])
      <3>1. CASE ListOrphans(r)
        <4>. SUFFICES ASSUME NEW q \in Runs, NEW x \in orphans'[q]
                      PROVE  pc[x[1]] # "idle" /\ Expired(x[1])
          OBVIOUS
        <4>1. CASE q # r
          BY <3>1, <4>1 DEF ExperimentsTypeOK, Dated, ListOrphans
        <4>2. CASE q = r
          <5>1. x \in Runs \X Parts /\ Stale(x)
            BY <3>1, <4>2 DEF ExperimentsTypeOK, ListOrphans, Parts
          <5>2. x[1] \in Runs /\ stamp[x] \in Nat
            BY <5>1 DEF ExperimentsTypeOK, Parts
          <5>. QED  BY <5>1, <5>2 DEF ExperimentsTypeOK, Dated, Stale, Expired
        <4>. QED  BY <4>1, <4>2
      <3>2. CASE SweepOne(r)
        BY <3>2 DEF ExperimentsTypeOK, Dated, SweepOne
      <3>3. CASE ~ListOrphans(r) /\ ~SweepOne(r)
        BY <1>2, <3>3 DEF Dated, RunStep, Start, Acquire, SweepEnds, Begin, CreateSchema,
           Stamp, Copy, Query, Sample, Analyze, After, CreateTable, Build, WorkerEnds,
           RoundEnds, Drop, Release, Fails, Refused, Crash, LinkEnds
      <3>. QED  BY <3>1, <3>2, <3>3
    <2>5. \A q \in Runs : \A x \in orphans'[q] : pc'[x[1]] # "idle" /\ Expired(x[1])'
      <3>. SUFFICES ASSUME NEW q \in Runs, NEW x \in orphans'[q]
                    PROVE  pc'[x[1]] # "idle" /\ Expired(x[1])'
        OBVIOUS
      <3>1. x[1] \in Runs
        BY DEF ExperimentsTypeOK
      <3>. QED  BY <2>0, <2>4, <3>1 DEF Expired
    <2>. QED  BY <2>1, <2>3, <2>5 DEF Dated
  <1>. QED  BY <1>1, <1>2, Steps

\* What disappears in a step is dropped by its own run, or by a sweep.
LEMMA SweptStep ==
    ASSUME ExperimentsTypeOK, Dated, [ExperimentsNext]_experimentVars
    PROVE  \A x \in things \ things' : pc'[x[1]] # pc[x[1]] \/ Expired(x[1])
  <1>. USE DEF databaseVars, lockVars, measureVars, workerVars
  <1>1. CASE Tick \/ Edit \/ UNCHANGED experimentVars
    BY <1>1 DEF Tick, Edit, experimentVars
  <1>2. ASSUME NEW r \in Runs, RunStep(r), NEW x \in things \ things'
        PROVE  pc'[x[1]] # pc[x[1]] \/ Expired(x[1])
    <2>1. CASE SweepOne(r)
      BY <1>2, <2>1 DEF ExperimentsTypeOK, Dated, SweepOne
    <2>2. CASE Drop(r)
      <3>1. x \in Own(r)
        BY <1>2, <2>2 DEF Drop
      <3>. QED  BY <2>2, <3>1, OwnParts DEF ExperimentsTypeOK, Drop, Goto
    <2>3. CASE ~SweepOne(r) /\ ~Drop(r)
      BY <1>2, <2>3 DEF RunStep, Start, Acquire, ListOrphans, SweepEnds, Begin, CreateSchema,
         Stamp, Copy, Query, Sample, Analyze, After, CreateTable, Build, WorkerEnds,
         RoundEnds, Release, Fails, Refused, Crash, LinkEnds
    <2>. QED  BY <2>1, <2>2, <2>3
  <1>. QED  BY <1>1, <1>2, Steps

\* No sweep drops the schema or tables of a run within its deadline, whatever
\* became of its lock (cleanOrphans, compare.go:547 and probe.go:208).
THEOREM LiveTablesStay == ExperimentsSpec => NeverSweptAlive
  <1>1. ExperimentsInit => ExperimentsTypeOK /\ Dated
    BY TypeInit, DatedInit
  <1>2. ExperimentsTypeOK /\ Dated /\ [ExperimentsNext]_experimentVars
          => (ExperimentsTypeOK /\ Dated)'
    BY TypeStep, DatedStep
  <1>3. ExperimentsTypeOK /\ Dated /\ [ExperimentsNext]_experimentVars
          => [\A x \in things \ things' : pc'[x[1]] # pc[x[1]] \/ Expired(x[1])]_experimentVars
    BY SweptStep
  <1>. QED  BY <1>1, <1>2, <1>3, PTL DEF ExperimentsSpec, NeverSweptAlive

-----------------------------------------------------------------------------
(* Runs that overlap *)

\* The kinds of work stay apart, a run at work has not returned, and a run at
\* work whose lock connection is up holds the lock.
Ordered ==
    /\ kind = "comparison" => \A r \in Runs : pc[r] \notin {"build", "round"}
    /\ \A r \in Runs : pc[r] \in Fenced \cup {"idle", "lock"} => outcome[r] = "none"
    /\ \A r \in Runs : pc[r] \in Fenced /\ r \in linked => r \in lock

\* Of two runs that met, one has lost its connection for good before it returned.
Apart ==
    \A pair \in met : \E r \in pair :
        r \in Runs /\ pc[r] # "idle" /\ r \notin linked /\ outcome[r] # "ok"

LEMMA OrderedInit == ExperimentsInit => Ordered /\ Apart
  BY DEF ExperimentsInit, Ordered, Apart, Fenced, Working

LEMMA OrderedStep ==
    ASSUME ExperimentsTypeOK, Ordered, [ExperimentsNext]_experimentVars
    PROVE  Ordered'
  <1>. USE DEF databaseVars, lockVars, measureVars, workerVars, Working, Fenced, Goto, At
  <1>1. CASE Tick \/ Edit \/ UNCHANGED experimentVars
    BY <1>1 DEF Ordered, Tick, Edit, experimentVars
  <1>2. ASSUME NEW r \in Runs, RunStep(r)  PROVE Ordered'
    <2>. USE DEF ExperimentsTypeOK, Ordered
    <2>1. CASE Start(r) \/ LinkEnds(r) \/ Crash(r) \/ Release(r)
      BY <2>1 DEF Start, LinkEnds, Crash, Release
    <2>2. CASE Acquire(r)
      <3>1. CASE lock = {}
        BY <2>2, <3>1 DEF Acquire
      <3>2. CASE lock # {}
        BY <2>2, <3>2 DEF Acquire, Return, Armed
      <3>. QED  BY <3>1, <3>2
    <2>3. CASE ListOrphans(r) \/ SweepEnds(r) \/ Begin(r) \/ Stamp(r) \/ Copy(r)
               \/ Sample(r) \/ Analyze(r)
      BY <2>3 DEF ListOrphans, SweepEnds, Begin, Stamp, Copy, Sample, Analyze
    <2>4. CASE SweepOne(r) \/ CreateSchema(r) \/ Query(r)
      <3>1. CASE SweepOne(r)
        BY <3>1 DEF SweepOne, Return, Armed
      <3>2. CASE CreateSchema(r)
        BY <3>2 DEF CreateSchema, Return, Armed
      <3>3. CASE Query(r)
        <4>1. /\ pc[r] = "query" /\ kind' = kind /\ linked' = linked /\ lock' = lock
              /\ outcome' = outcome \/ \E o \in {"ok"} : outcome' = [outcome EXCEPT ![r] = o]
          BY <3>3 DEF Query, Return
        <4>2. PICK place \in {"sample", "drop"} :
                 /\ pc' = [pc EXCEPT ![r] = place]
                 /\ place = "sample" => outcome' = outcome
          BY <3>3 DEF Query, Return, Armed
        <4>. QED  BY <4>1, <4>2
      <3>. QED  BY <2>4, <3>1, <3>2, <3>3
    <2>5. CASE CreateTable(r)
      BY <2>5 DEF CreateTable, Return, Armed
    <2>6. CASE After(r) \/ Fails(r) \/ Refused(r)
      BY <2>6 DEF After, Fails, Refused, Return, Armed
    <2>7. CASE Build(r) \/ WorkerEnds(r) \/ RoundEnds(r)
      BY <2>7 DEF Build, WorkerEnds, RoundEnds, Return, Armed
    <2>8. CASE Drop(r)
      BY <2>8 DEF Drop
    <2>. QED  BY <1>2, <2>1, <2>2, <2>3, <2>4, <2>5, <2>6, <2>7, <2>8 DEF RunStep
  <1>. QED  BY <1>1, <1>2, Steps

\* A comparison returns a report only over a connection that is up, and a
\* connection that ended is not made again.
LEMMA Unlinked ==
    ASSUME ExperimentsTypeOK, Ordered, kind = "comparison", NEW r \in Runs, RunStep(r),
           NEW q \in Runs, pc[q] # "idle", q \notin linked, outcome[q] # "ok"
    PROVE  q \notin linked' /\ outcome'[q] # "ok"
  <1>. USE DEF databaseVars, lockVars, measureVars, workerVars, Goto, At, ExperimentsTypeOK
  <1>1. CASE Start(r) \/ LinkEnds(r) \/ Crash(r) \/ Release(r) \/ ListOrphans(r)
             \/ SweepEnds(r) \/ Begin(r) \/ Stamp(r) \/ Copy(r) \/ Sample(r) \/ Analyze(r)
    BY <1>1 DEF Start, LinkEnds, Crash, Release, ListOrphans, SweepEnds, Begin, Stamp, Copy,
                Sample, Analyze
  <1>2. CASE Query(r) \/ After(r)
    BY <1>2 DEF Query, After, Return, CanRun, UsesLink
  <1>3. CASE Acquire(r) \/ SweepOne(r) \/ CreateSchema(r) \/ CreateTable(r) \/ Fails(r)
             \/ Refused(r)
    BY <1>3 DEF Acquire, SweepOne, CreateSchema, CreateTable, Fails, Refused, Return
  <1>4. CASE Build(r) \/ WorkerEnds(r) \/ RoundEnds(r)
    BY <1>4 DEF Ordered, Build, WorkerEnds, RoundEnds
  <1>5. CASE Drop(r)
    BY <1>5 DEF Drop
  <1>. QED  BY <1>1, <1>2, <1>3, <1>4, <1>5 DEF RunStep

LEMMA ApartStep ==
    ASSUME ExperimentsTypeOK, Ordered, kind = "comparison", Apart,
           [ExperimentsNext]_experimentVars
    PROVE  Apart'
  <1>. USE DEF databaseVars, lockVars, measureVars, workerVars
  <1>1. CASE Tick \/ Edit \/ UNCHANGED experimentVars
    BY <1>1 DEF Apart, Tick, Edit, experimentVars
  <1>2. ASSUME NEW r \in Runs, RunStep(r)  PROVE Apart'
    <2>1. \A q \in Runs : pc[q] # "idle" /\ q \notin linked /\ outcome[q] # "ok"
             => pc'[q] # "idle" /\ q \notin linked' /\ outcome'[q] # "ok"
      BY <1>2, Goes, Unlinked
    <2>2. \A pair \in met' : \/ pair \in met
                             \/ \E q \in Runs : q \in pair /\ pc[q] \in Fenced /\ lock = {}
      <3>1. CASE Acquire(r)
        BY <3>1 DEF Acquire
      <3>2. CASE ~Acquire(r)
        <4>1. CASE Start(r) \/ ListOrphans(r) \/ SweepOne(r) \/ SweepEnds(r) \/ Begin(r)
                   \/ CreateSchema(r) \/ Stamp(r) \/ Copy(r) \/ Query(r) \/ Sample(r)
          BY <4>1 DEF Start, ListOrphans, SweepOne, SweepEnds, Begin, CreateSchema, Stamp,
                      Copy, Query, Sample
        <4>2. CASE Analyze(r) \/ After(r) \/ CreateTable(r) \/ Build(r) \/ WorkerEnds(r)
                   \/ RoundEnds(r)
          BY <4>2 DEF Analyze, After, CreateTable, Build, WorkerEnds, RoundEnds
        <4>3. CASE Drop(r) \/ Release(r) \/ Fails(r) \/ Refused(r) \/ Crash(r) \/ LinkEnds(r)
          BY <4>3 DEF Drop, Release, Fails, Refused, Crash, LinkEnds
        <4>. QED  BY <1>2, <3>2, <4>1, <4>2, <4>3 DEF RunStep
      <3>. QED  BY <3>1, <3>2
    <2>3. \A q \in Runs : pc[q] \in Fenced /\ lock = {}
             => pc[q] # "idle" /\ q \notin linked /\ outcome[q] # "ok"
      BY DEF Ordered, Fenced, Working
    <2>. QED  BY <2>1, <2>2, <2>3 DEF Apart
  <1>. QED  BY <1>1, <1>2, Steps

\* What the runs do does not change.
LEMMA SameKind == [ExperimentsNext]_experimentVars => kind' = kind
  <1>. USE DEF databaseVars, lockVars, measureVars, workerVars
  <1>1. ASSUME NEW r \in Runs, RunStep(r)  PROVE kind' = kind
    BY <1>1 DEF RunStep, Start, Acquire, ListOrphans, SweepOne, SweepEnds, Begin, CreateSchema,
       Stamp, Copy, Query, Sample, Analyze, After, CreateTable, Build, WorkerEnds, RoundEnds,
       Drop, Release, Fails, Refused, Crash, LinkEnds
  <1>. QED  BY <1>1, Steps DEF Tick, Edit, experimentVars

\* Two comparisons that were at work at the same time do not both return a
\* report (compare.go:132, 345).
THEOREM OverlapsReportOnce == ExperimentsSpec => []OneReportPerOverlap
  <1>. DEFINE Inv == ExperimentsTypeOK /\ Ordered /\ (kind = "comparison" => Apart)
  <1>1. ExperimentsInit => Inv
    BY TypeInit, OrderedInit
  <1>2. Inv /\ [ExperimentsNext]_experimentVars => Inv'
    BY TypeStep, OrderedStep, ApartStep, SameKind
  <1>3. Inv => OneReportPerOverlap
    BY DEF Apart, OneReportPerOverlap
  <1>. QED  BY <1>1, <1>2, <1>3, PTL DEF ExperimentsSpec

-----------------------------------------------------------------------------
(* What a report leaves behind, and what it is about *)

\* A step of a run makes and drops nothing of a run that has ended its work.
LEMMA CleanupStep ==
    ASSUME ExperimentsTypeOK, ReportLeavesNothing, [ExperimentsNext]_experimentVars
    PROVE  ReportLeavesNothing'
  <1>. USE DEF databaseVars, lockVars, measureVars, workerVars, Working, Goto, At, Own
  <1>1. CASE Tick \/ Edit \/ UNCHANGED experimentVars
    BY <1>1 DEF ReportLeavesNothing, Tick, Edit, experimentVars
  <1>2. ASSUME NEW r \in Runs, RunStep(r)  PROVE ReportLeavesNothing'
    <2>. USE DEF ExperimentsTypeOK, ReportLeavesNothing
    <2>1. CASE Start(r) \/ LinkEnds(r) \/ Crash(r) \/ Release(r)
      BY <2>1 DEF Start, LinkEnds, Crash, Release
    <2>2. CASE Acquire(r)
      BY <2>2 DEF Acquire, Return, Armed
    <2>3. CASE ListOrphans(r) \/ SweepEnds(r) \/ Begin(r) \/ Stamp(r) \/ Copy(r)
               \/ Sample(r) \/ Analyze(r)
      BY <2>3 DEF ListOrphans, SweepEnds, Begin, Stamp, Copy, Sample, Analyze
    <2>4. CASE SweepOne(r)
      BY <2>4 DEF SweepOne, Return, Armed
    <2>5. CASE CreateSchema(r)
      BY <2>5 DEF CreateSchema, Return, Armed
    <2>6. CASE CreateTable(r)
      <3>1. PICK x \in {<<r, "b">>, <<r, "c">>} : things' = things \cup {x}
        BY <2>6 DEF CreateTable
      <3>2. /\ pc[r] = "create" /\ kind' = kind
            /\ \/ pc'[r] \in {"create", "build", "drop"} /\ \A q \in Runs \ {r} : pc'[q] = pc[q]
            /\ \A q \in Runs \ {r} : outcome'[q] = outcome[q]
        BY <2>6 DEF CreateTable, Return, Armed
      <3>. QED  BY <3>1, <3>2
    <2>7. CASE Query(r) \/ After(r) \/ Fails(r) \/ Refused(r)
      BY <2>7 DEF Query, After, Fails, Refused, Return, Armed
    <2>8. CASE Build(r) \/ WorkerEnds(r) \/ RoundEnds(r)
      BY <2>8 DEF Build, WorkerEnds, RoundEnds, Return, Armed
    <2>9. CASE Drop(r)
      <3>1. things' \subseteq things
        BY <2>9 DEF Drop
      <3>2. \/ things' = things \ Own(r) /\ UNCHANGED kind
            \/ outcome'[r] = "failed"
        BY <2>9 DEF Drop
      <3>3. \A q \in Runs \ {r} : outcome'[q] = outcome[q] /\ pc'[q] = pc[q]
        BY <2>9 DEF Drop
      <3>4. kind' = kind
        BY <2>9 DEF Drop
      <3>. QED  BY <3>1, <3>2, <3>3, <3>4
    <2>. QED  BY <1>2, <2>1, <2>2, <2>3, <2>4, <2>5, <2>6, <2>7, <2>8, <2>9 DEF RunStep
  <1>. QED  BY <1>1, <1>2, Steps

\* A run that returns a report has dropped its schema or tables: a failed DROP
\* replaces the report (compare.go:181, probe.go:107).
THEOREM ReportsLeaveNothing == ExperimentsSpec => []ReportLeavesNothing
  <1>1. ExperimentsInit => ReportLeavesNothing
    BY DEF ExperimentsInit, ReportLeavesNothing
  <1>. QED  BY <1>1, TypeInit, TypeStep, CleanupStep, PTL DEF ExperimentsSpec

\* Places of a run that has read no data yet, and of one that has measured.
Early == {"idle", "lock", "list", "sweep", "begin", "create", "stamp", "copy"}
Late == {"drop", "release", "end", "crashed"}

\* What a run has read is its snapshot's, an import since then shows in the
\* version, and a worker that failed has left its mark.
Measured ==
    /\ \A r \in Runs : outcome[r] = "ok" => pc[r] \in Late
    /\ kind = "comparison" => \A r \in Runs :
          /\ pc[r] \notin {"build", "round"}
          /\ seen[r] \subseteq snapshot[r]
          /\ pc[r] \in Early => seen[r] = {} /\ r \notin edited
          /\ pc[r] \in Early \cup {"query"} => r \notin claim
          /\ r \in edited => \A v \in snapshot[r] : v < version
          /\ \A v \in snapshot[r] : v <= version
    /\ kind = "probe" => \A r \in Runs :
          /\ pc[r] \in Early \cup {"build"} => r \notin shortened
          /\ pc[r] = "round" /\ r \in shortened => r \in broken
          /\ pc[r] \notin {"stamp", "copy", "query", "sample", "analyze", "after"}

\* A run that returns has only cleaning up left.
LEMMA Returned ==
    ASSUME NEW r \in Runs, NEW result, Return(r, result)
    PROVE  /\ outcome' = [outcome EXCEPT ![r] = result]
           /\ \E place \in {"drop", "release", "end"} : pc' = [pc EXCEPT ![r] = place]
  BY DEF Return, Goto

\* To return a failure disturbs nothing.
LEMMA MeasuredReturn ==
    ASSUME ExperimentsTypeOK, Measured, ReportSound, NEW r \in Runs, Return(r, "failed"),
           UNCHANGED <<kind, version, measureVars, workerVars, edited>>
    PROVE  Measured' /\ ReportSound'
  <1>1. outcome' = [outcome EXCEPT ![r] = "failed"]
    BY Returned
  <1>2. PICK place \in {"drop", "release", "end"} : pc' = [pc EXCEPT ![r] = place]
    BY Returned
  <1>. USE DEF measureVars, workerVars, Working, Early, Late, ExperimentsTypeOK
  <1>3. Measured'
    BY <1>1, <1>2 DEF Measured
  <1>4. ReportSound'
    BY <1>1, <1>2 DEF ReportSound
  <1>. QED  BY <1>3, <1>4

LEMMA MeasuredInit == ExperimentsInit => Measured /\ ReportSound
  BY DEF ExperimentsInit, Measured, ReportSound, Early, Late

LEMMA MeasuredStep ==
    ASSUME ExperimentsTypeOK, Measured, ReportSound, [ExperimentsNext]_experimentVars
    PROVE  Measured' /\ ReportSound'
  <1>. USE DEF databaseVars, lockVars, measureVars, workerVars, Working, Goto, At, Early, Late
  <1>1. CASE Tick \/ UNCHANGED experimentVars
    BY <1>1 DEF Measured, ReportSound, Tick, experimentVars
  <1>2. CASE Edit
    BY <1>2 DEF ExperimentsTypeOK, Measured, ReportSound, Edit
  <1>3. ASSUME NEW r \in Runs, RunStep(r)  PROVE Measured' /\ ReportSound'
    <2>. USE DEF ExperimentsTypeOK, Measured, ReportSound
    <2>1. CASE Start(r) \/ LinkEnds(r) \/ Crash(r) \/ Release(r)
      BY <2>1 DEF Start, LinkEnds, Crash, Release
    <2>2. CASE Acquire(r)
      BY <2>2, MeasuredReturn DEF Acquire
    <2>3. CASE ListOrphans(r) \/ SweepEnds(r) \/ Begin(r) \/ Stamp(r) \/ Analyze(r)
      BY <2>3 DEF ListOrphans, SweepEnds, Begin, Stamp, Analyze
    <2>4. CASE Copy(r)
      BY <2>4 DEF Copy
    <2>5. CASE SweepOne(r) \/ CreateSchema(r)
      <3>1. CASE Return(r, "failed")
        BY <2>5, <3>1, MeasuredReturn DEF SweepOne, CreateSchema
      <3>2. CASE ~Return(r, "failed")
        <4>1. CASE SweepOne(r)
          BY <3>2, <4>1 DEF SweepOne
        <4>2. CASE CreateSchema(r)
          BY <3>2, <4>2 DEF CreateSchema
        <4>. QED  BY <2>5, <4>1, <4>2
      <3>. QED  BY <3>1, <3>2
    <2>6. CASE CreateTable(r)
      <3>1. CASE Return(r, "failed")
        BY <2>6, <3>1, MeasuredReturn DEF CreateTable
      <3>2. CASE ~Return(r, "failed")
        <4>1. PICK place \in {"create", "build"} : pc' = [pc EXCEPT ![r] = place]
          BY <2>6, <3>2 DEF CreateTable
        <4>2. /\ pc[r] = "create" /\ outcome' = outcome /\ kind' = kind
              /\ version' = version /\ snapshot' = snapshot /\ seen' = seen
              /\ claim' = claim /\ edited' = edited
              /\ broken' = broken /\ shortened' = shortened
          <5>. HIDE DEF ExperimentsTypeOK, Measured, ReportSound, Early, Late
          <5>1. pc[r] = "create" /\ outcome' = outcome
            BY <2>6, <3>2 DEF CreateTable
          <5>2. /\ kind' = kind /\ version' = version /\ edited' = edited
                /\ snapshot' = snapshot /\ seen' = seen /\ claim' = claim
                /\ broken' = broken /\ shortened' = shortened
            BY <2>6 DEF CreateTable
          <5>. QED  BY <5>1, <5>2
        <4>3. Measured'
          <5>1. /\ \A q \in Runs : pc'[q] = IF q = r THEN place ELSE pc[q]
                /\ place \notin Late /\ place # "round"
                /\ place \in Early \cup {"build"} /\ pc[r] \in Early /\ pc[r] \notin Late
            BY <4>1, <4>2
          <5>2. kind = "probe"
            BY <2>6 DEF CreateTable, Kinds, Own
          <5>. HIDE DEF ExperimentsTypeOK, ReportSound, Working, Early, Late
          <5>3. \A q \in Runs : outcome'[q] = "ok" => pc'[q] \in Late
            BY <4>2, <5>1
          <5>4. \A q \in Runs :
                   /\ pc'[q] \in Early \cup {"build"} => q \notin shortened'
                   /\ pc'[q] = "round" /\ q \in shortened' => q \in broken'
                   /\ pc'[q] \notin {"stamp", "copy", "query", "sample", "analyze", "after"}
            BY <4>1, <4>2, <5>1, <5>2
          <5>. QED  BY <4>2, <5>2, <5>3, <5>4
        <4>4. ReportSound'
          <5>. HIDE DEF ExperimentsTypeOK, Measured, Early, Late, Working
          <5>. QED  BY <4>2
        <4>. QED  BY <4>3, <4>4
      <3>. QED  BY <3>1, <3>2
    <2>7. CASE Query(r)
      <3>1. kind = "comparison" /\ seen'[r] \subseteq snapshot[r] /\ r \notin claim
            /\ pc[r] = "query" /\ \A q \in Runs \ {r} : seen'[q] = seen[q]
        BY <2>7 DEF Query, TxData, Kinds
      <3>2. CASE Return(r, "ok")
        <4>1. outcome' = [outcome EXCEPT ![r] = "ok"]
          BY <3>2, Returned
        <4>2. PICK place \in {"drop", "release", "end"} : pc' = [pc EXCEPT ![r] = place]
          BY <3>2, Returned
        <4>3. Measured'
          BY <2>7, <3>1, <4>1, <4>2 DEF Query
        <4>4. ReportSound'
          BY <2>7, <3>1, <4>1 DEF Query
        <4>. QED  BY <4>3, <4>4
      <3>3. CASE ~Return(r, "ok")
        BY <2>7, <3>1, <3>3 DEF Query
      <3>. QED  BY <3>2, <3>3
    <2>8. CASE Sample(r)
      <3>. HIDE DEF ExperimentsTypeOK, Measured, ReportSound, Early, Late
      <3>1. /\ seen' = [seen EXCEPT ![r] = @ \cup snapshot[r] \cup snapshot[r]]
            /\ pc[r] = "sample" /\ (pc' = pc \/ pc' = [pc EXCEPT ![r] = "analyze"])
            /\ outcome' = outcome /\ kind' = kind /\ version' = version
            /\ snapshot' = snapshot /\ edited' = edited
            /\ broken' = broken /\ shortened' = shortened
        BY <2>8 DEF Sample, TxData
      <3>4. claim \subseteq claim' /\ claim' \subseteq claim \cup {r}
        BY <2>8 DEF Sample
      <3>. USE DEF ExperimentsTypeOK, Measured, ReportSound, Early, Late
      <3>2. Measured'
        BY <3>1, <3>4
      <3>3. ReportSound'
        BY <3>1, <3>4
      <3>. QED  BY <3>2, <3>3
    <2>9. CASE After(r)
      <3>1. CASE version \in snapshot[r]
        <4>1. kind = "comparison" /\ r \notin edited
          BY <2>9, <3>1 DEF After, Kinds
        <4>2. outcome' = [outcome EXCEPT ![r] = "ok"]
          BY <2>9, <3>1, Returned DEF After
        <4>3. PICK place \in {"drop", "release", "end"} : pc' = [pc EXCEPT ![r] = place]
          BY <2>9, Returned DEF After
        <4>4. Measured'
          BY <2>9, <4>1, <4>2, <4>3 DEF After
        <4>5. ReportSound'
          BY <2>9, <4>1, <4>2 DEF After
        <4>. QED  BY <4>4, <4>5
      <3>2. CASE version \notin snapshot[r]
        BY <2>9, <3>2, MeasuredReturn DEF After
      <3>. QED  BY <3>1, <3>2
    <2>10. CASE Fails(r) \/ Refused(r)
      BY <2>10, MeasuredReturn DEF Fails, Refused
    <2>11. CASE Build(r)
      BY <2>11 DEF Build, StartRound
    <2>12. CASE WorkerEnds(r)
      BY <2>12 DEF WorkerEnds
    <2>13. CASE RoundEnds(r)
      <3>1. kind = "probe" /\ pc[r] = "round"
        BY <2>13 DEF RoundEnds, Kinds
      <3>2. CASE Return(r, "ok") /\ r \notin broken
        <4>1. outcome' = [outcome EXCEPT ![r] = "ok"]
          BY <3>2, Returned
        <4>2. PICK place \in {"drop", "release", "end"} : pc' = [pc EXCEPT ![r] = place]
          BY <3>2, Returned
        <4>3. kind' = "probe" /\ UNCHANGED shortened /\ broken \ {r} \subseteq broken'
          BY <2>13, <3>1 DEF RoundEnds, StartRound
        <4>4. r \notin shortened
          BY <3>1, <3>2
        <4>5. Measured'
          BY <3>1, <4>1, <4>2, <4>3, <4>4
        <4>6. ReportSound'
          BY <3>1, <4>1, <4>3, <4>4
        <4>. QED  BY <4>5, <4>6
      <3>3. CASE StartRound(r) /\ r \notin broken /\ UNCHANGED <<pc, outcome, claim>>
        BY <2>13, <3>1, <3>3 DEF RoundEnds, StartRound
      <3>4. CASE r \in broken
        BY <2>13, <3>4, MeasuredReturn DEF RoundEnds
      <3>. QED  BY <2>13, <3>2, <3>3, <3>4 DEF RoundEnds
    <2>14. CASE Drop(r)
      BY <2>14 DEF Drop
    <2>. QED  BY <1>3, <2>1, <2>2, <2>3, <2>4, <2>5, <2>6, <2>7, <2>8, <2>9, <2>10, <2>11,
                <2>12, <2>13, <2>14 DEF RunStep
  <1>. QED  BY <1>1, <1>2, <1>3, Steps

\* A comparison's report is about the data of its snapshot, a claim was not made
\* over an import, and a write report holds no round in which a worker failed
\* (compare.go:345, probe.go:315).
THEOREM ReportsAreSound == ExperimentsSpec => []ReportSound
  BY MeasuredInit, TypeInit, TypeStep, MeasuredStep, PTL DEF ExperimentsSpec

-----------------------------------------------------------------------------
(* Least and greatest numbers *)

LessThan == {pair \in Nat \X Nat : pair[1] < pair[2]}

LEMMA LessWellFounded == IsWellFoundedOn(LessThan, Nat)
  <1>1. LessThan = OpToRel(<, Nat)
    BY DEF LessThan, OpToRel
  <1>. QED BY <1>1, NatLessThanWellFounded

\* A set of numbers has a least one: induction, without a predicate parameter.
LEMMA LeastNumber ==
    ASSUME NEW S \in SUBSET Nat, S # {}
    PROVE  \E m \in S : \A n \in S : m <= n
  <1>1. PICK m \in S : \A n \in S : ~(<<n, m>> \in LessThan)
    BY LessWellFounded, WFMin
  <1>2. \A n \in Nat, k \in Nat : n < k => <<n, k>> \in LessThan
    <2>1. \A n \in Nat, k \in Nat :
             <<n, k>> \in Nat \X Nat /\ <<n, k>>[1] = n /\ <<n, k>>[2] = k
      OBVIOUS
    <2>. QED BY <2>1 DEF LessThan
  <1>3. S \subseteq Nat
    OBVIOUS
  <1>4. \A n \in S : ~(n < m)
    BY <1>1, <1>2, <1>3
  <1>5. \A n \in S : m <= n
    BY <1>1, <1>3, <1>4
  <1>. QED BY <1>1, <1>5

-----------------------------------------------------------------------------
(* Sorting: the sorted samples exist, for any number of samples *)

LEMMA HasGreatest ==
    ASSUME NEW k \in Nat, k >= 1, NEW xs \in [1..k -> Int]
    PROVE  \E g \in 1..k : \A n \in 1..k : xs[n] <= xs[g]
  <1>. DEFINE Found(j) == \E g \in 1..j : \A n \in 1..j : xs[n] <= xs[g]
              Missing == {j \in Nat : 1 <= j /\ j <= k /\ ~Found(j)}
  <1>1. ASSUME Missing # {} PROVE FALSE
    <2>1. PICK j \in Missing : \A i \in Missing : j <= i
      <3>1. Missing \in SUBSET Nat
        OBVIOUS
      <3>. HIDE DEF Missing
      <3>. QED BY <1>1, <3>1, LeastNumber
    <2>2. j \in Nat /\ 1 <= j /\ j <= k /\ ~Found(j)
      BY <2>1
    <2>3. CASE j = 1
      <3>1. 1 \in 1..1 /\ xs[1] \in Int /\ \A n \in 1..1 : n = 1
        OBVIOUS
      <3>2. \A n \in 1..1 : xs[n] <= xs[1]
        BY <3>1
      <3>. QED BY <2>2, <2>3, <3>1, <3>2
    <2>4. CASE j > 1
      <3>1. j - 1 \in Nat /\ 1 <= j - 1 /\ j - 1 <= k /\ ~(j <= j - 1)
        BY <2>2, <2>4
      <3>2. Found(j - 1)
        <4>. HIDE DEF Found
        <4>. QED BY <2>1, <3>1
      <3>3. PICK g \in 1..(j - 1) : \A n \in 1..(j - 1) : xs[n] <= xs[g]
        BY <3>2
      <3>4. /\ g \in 1..j /\ j \in 1..j /\ g \in 1..k /\ j \in 1..k
            /\ xs[g] \in Int /\ xs[j] \in Int
            /\ \A n \in 1..j : (n \in 1..(j - 1) \/ n = j) /\ n \in 1..k /\ xs[n] \in Int
        BY <2>2, <2>4, <3>3
      <3>5. CASE xs[j] <= xs[g]
        <4>1. \A n \in 1..j : xs[n] <= xs[g]
          BY <3>3, <3>4, <3>5
        <4>. QED BY <2>2, <3>4, <4>1
      <3>6. CASE xs[j] > xs[g]
        <4>1. \A n \in 1..j : xs[n] <= xs[j]
          BY <3>3, <3>4, <3>6
        <4>. QED BY <2>2, <3>4, <4>1
      <3>. QED BY <3>4, <3>5, <3>6
    <2>. QED BY <2>2, <2>3, <2>4
  <1>2. k \notin Missing
    BY <1>1
  <1>3. Found(k)
    <2>. HIDE DEF Found
    <2>. QED BY <1>2
  <1>. QED BY <1>3

Sorting(k, xs, p) ==
    p \in Bijection(1..k, 1..k) /\ \A m, n \in 1..k : m < n => xs[p[m]] <= xs[p[n]]

LEMMA Sortable ==
    ASSUME NEW k \in Nat, NEW xs \in [1..k -> Int]
    PROVE  \E p : Sorting(k, xs, p)
  <1>. DEFINE Missing == {j \in Nat : \E ys \in [1..j -> Int] : ~\E p : Sorting(j, ys, p)}
  <1>1. ASSUME Missing # {} PROVE FALSE
    <2>1. PICK j \in Missing : \A i \in Missing : j <= i
      <3>1. Missing \in SUBSET Nat
        OBVIOUS
      <3>. HIDE DEF Missing
      <3>. QED BY <1>1, <3>1, LeastNumber
    <2>2. PICK ys \in [1..j -> Int] : ~\E p : Sorting(j, ys, p)
      BY <2>1
    <2>. HIDE DEF Missing
    <2>3. j \in Nat
      BY <2>1 DEF Missing
    <2>4. CASE j = 0
      <3>1. 1..j = {}
        BY <2>4
      <3>2. Sorting(j, ys, [n \in {} |-> n])
        BY <3>1 DEF Sorting, Bijection, Injection, Surjection, IsInjective
      <3>. QED BY <2>2, <3>2
    <2>5. CASE j # 0
      <3>. DEFINE i == j - 1
      <3>1. i \in Nat /\ i < j /\ j >= 1 /\ 1..i \subseteq 1..j /\ j \in 1..j /\ j \notin 1..i
            /\ \A n \in 1..j : n # j => n \in 1..i
        BY <2>3, <2>5
      <3>2. i \notin Missing
        BY <2>1, <2>3, <3>1
      <3>3. PICK g \in 1..j : \A n \in 1..j : ys[n] <= ys[g]
        BY <2>3, <3>1, HasGreatest
      <3>. HIDE DEF i
      \* The greatest sample is last; the last one takes its place.
      <3>. DEFINE Swap(n) == IF n = g THEN j ELSE n
                  zs == [n \in 1..i |-> ys[Swap(n)]]
      <3>4. zs \in [1..i -> Int]
        BY <3>1, <3>3
      <3>5. PICK q : Sorting(i, zs, q)
        <4>. HIDE DEF zs
        <4>. QED BY <3>1, <3>2, <3>4 DEF Missing
      <3>6. q \in [1..i -> 1..i] /\ (\A m, n \in 1..i : q[m] = q[n] => m = n)
            /\ (\A n \in 1..i : \E m \in 1..i : q[m] = n)
            /\ \A m, n \in 1..i : m < n => zs[q[m]] <= zs[q[n]]
        <4>. HIDE DEF zs
        <4>. QED BY <3>5 DEF Sorting, Bijection, Injection, Surjection, IsInjective
      <3>. DEFINE p == [n \in 1..j |-> IF n = j THEN g ELSE Swap(q[n])]
      <3>7. p \in [1..j -> 1..j]
        BY <3>1, <3>3, <3>6
      <3>8. \A n \in 1..i : zs[q[n]] = ys[p[n]] /\ p[n] = Swap(q[n]) /\ p[n] # g
        <4>1. \A n \in 1..i : q[n] \in 1..i /\ n \in 1..j /\ n # j /\ q[n] # j
          BY <3>1, <3>6
        <4>. QED BY <4>1
      <3>9. p[j] = g
        BY <3>1
      <3>. HIDE DEF zs, p
      <3>10. \A m, n \in 1..j : p[m] = p[n] => m = n
        <4>. SUFFICES ASSUME NEW m \in 1..j, NEW n \in 1..j, p[m] = p[n] PROVE m = n
          OBVIOUS
        <4>1. CASE m = j \/ n = j
          BY <3>1, <3>8, <3>9, <4>1
        <4>2. CASE m # j /\ n # j
          <5>1. m \in 1..i /\ n \in 1..i /\ q[m] \in 1..i /\ q[n] \in 1..i
            BY <3>1, <3>6, <4>2
          <5>2. q[m] = q[n]
            BY <3>1, <3>8, <5>1
          <5>. QED BY <3>6, <5>1, <5>2
        <4>. QED BY <4>1, <4>2
      <3>11. \A n \in 1..j : \E m \in 1..j : p[m] = n
        <4>. SUFFICES ASSUME NEW n \in 1..j PROVE \E m \in 1..j : p[m] = n
          OBVIOUS
        <4>1. CASE n = g
          BY <3>1, <3>9, <4>1
        <4>2. CASE n # g /\ n # j
          <5>1. n \in 1..i
            BY <3>1, <4>2
          <5>2. PICK m \in 1..i : q[m] = n
            BY <3>6, <5>1
          <5>. QED BY <3>1, <3>8, <4>2, <5>2
        <4>3. CASE n # g /\ n = j
          <5>1. g \in 1..i
            BY <3>1, <4>3
          <5>2. PICK m \in 1..i : q[m] = g
            BY <3>6, <5>1
          <5>. QED BY <3>1, <3>8, <4>3, <5>2
        <4>. QED BY <4>1, <4>2, <4>3
      <3>12. \A m, n \in 1..j : m < n => ys[p[m]] <= ys[p[n]]
        <4>. SUFFICES ASSUME NEW m \in 1..j, NEW n \in 1..j, m < n PROVE ys[p[m]] <= ys[p[n]]
          OBVIOUS
        <4>1. m # j
          BY <2>3
        <4>2. m \in 1..i
          BY <3>1, <4>1
        <4>3. CASE n = j
          BY <3>3, <3>7, <3>9, <4>3
        <4>4. CASE n # j
          <5>1. n \in 1..i
            BY <3>1, <4>4
          <5>. QED BY <3>6, <3>8, <4>2, <5>1
        <4>. QED BY <4>3, <4>4
      <3>13. Sorting(j, ys, p)
        BY <3>7, <3>10, <3>11, <3>12 DEF Sorting, Bijection, Injection, Surjection, IsInjective
      <3>. QED BY <2>2, <3>13
    <2>. QED BY <2>4, <2>5
  <1>2. k \notin Missing
    BY <1>1
  <1>. QED BY <1>2

-----------------------------------------------------------------------------
(* The n-th of some samples, counted instead of sorted *)

Under(k, xs, v) == {n \in 1..k : xs[n] < v}
UpTo(k, xs, v) == {n \in 1..k : xs[n] <= v}

IsNth(k, xs, i, v) ==
    v \in Int /\ Cardinality(Under(k, xs, v)) < i /\ Cardinality(UpTo(k, xs, v)) >= i

LEMMA Counted ==
    ASSUME NEW k \in Nat, NEW S \in SUBSET (1..k)
    PROVE  /\ IsFiniteSet(S) /\ Cardinality(S) \in Nat
           /\ Cardinality((1..k) \ S) = k - Cardinality(S)
           /\ \A T \in SUBSET S : Cardinality(T) <= Cardinality(S)
  <1>1. IsFiniteSet(1..k) /\ Cardinality(1..k) = k
    <2>1. 0 \in Int /\ 1 \in Int /\ k \in Int /\ (1 > k <=> k = 0)
      OBVIOUS
    <2>. QED BY <2>1, FS_Interval
  <1>2. IsFiniteSet(S)
    BY <1>1, FS_Subset
  <1>3. Cardinality(S) \in Nat
    BY <1>2, FS_CardinalityType
  <1>4. (1..k) \cap S = S
    OBVIOUS
  <1>5. Cardinality((1..k) \ S) = k - Cardinality(S)
    <2>1. Cardinality((1..k) \ S) = Cardinality(1..k) - Cardinality((1..k) \cap S)
      BY <1>1, FS_Difference
    <2>. QED BY <1>1, <1>4, <2>1
  <1>6. \A T \in SUBSET S : Cardinality(T) <= Cardinality(S)
    BY <1>2, FS_Subset
  <1>. QED BY <1>2, <1>3, <1>5, <1>6

\* As many numbers as their images under an injection.
LEMMA Renamed ==
    ASSUME NEW k \in Nat, NEW i \in 0..k, NEW p \in Injection(1..k, 1..k)
    PROVE  Cardinality({p[n] : n \in 1..i}) = i
  <1>. DEFINE T == {p[n] : n \in 1..i}
              f == [n \in 1..i |-> p[n]]
  <1>1. \A n \in 1..i : n \in 1..k
    OBVIOUS
  <1>2. p \in [1..k -> 1..k] /\ \A m, n \in 1..k : p[m] = p[n] => m = n
    BY DEF Injection, IsInjective
  <1>3. f \in [1..i -> T] /\ (\A m, n \in 1..i : f[m] = f[n] => m = n)
        /\ \A t \in T : \E n \in 1..i : f[n] = t
    BY <1>1, <1>2
  <1>4. ExistsBijection(1..i, T)
    <2>. HIDE DEF f, T
    <2>. QED BY <1>3 DEF ExistsBijection, Bijection, Injection, Surjection, IsInjective
  <1>5. IsFiniteSet(1..i) /\ Cardinality(1..i) = i
    <2>1. 1 \in Int /\ i \in Int /\ i - 1 + 1 = i /\ (1 > i <=> i = 0)
      OBVIOUS
    <2>. QED BY <2>1, FS_Interval
  <1>. HIDE DEF f, T
  <1>6. Cardinality(T) = i
    BY <1>4, <1>5, FS_Bijection
  <1>. QED BY <1>6 DEF T

\* Sorting puts the n-th sample in the n-th place.
LEMMA SortedSamples ==
    ASSUME NEW k \in Nat, NEW xs \in [1..k -> Int]
    PROVE  /\ Sorted(xs) \in [1..k -> Int]
           /\ \A m, n \in 1..k : m < n => Sorted(xs)[m] <= Sorted(xs)[n]
           /\ \A i \in 1..k : IsNth(k, xs, i, Sorted(xs)[i])
  <1>1. PICK p : Sorting(k, xs, p)
    BY Sortable
  <1>. DEFINE All == {[n \in 1..k |-> xs[q[n]]] : q \in Bijection(1..k, 1..k)}
              InOrder(s) == \A m, n \in 1..k : m < n => s[m] <= s[n]
  <1>2. DOMAIN xs = 1..k
    OBVIOUS
  <1>3. Sorted(xs) = CHOOSE s \in All : InOrder(s)
    BY <1>2 DEF Sorted
  <1>4. [n \in 1..k |-> xs[p[n]]] \in All /\ InOrder([n \in 1..k |-> xs[p[n]]])
    BY <1>1 DEF Sorting
  <1>5. Sorted(xs) \in All /\ InOrder(Sorted(xs))
    <2>. HIDE DEF All, InOrder
    <2>. QED BY <1>3, <1>4
  <1>6. PICK q \in Bijection(1..k, 1..k) : Sorted(xs) = [n \in 1..k |-> xs[q[n]]]
    BY <1>5
  <1>. DEFINE s == Sorted(xs)
  <1>7. /\ q \in [1..k -> 1..k] /\ q \in Injection(1..k, 1..k)
        /\ \A n \in 1..k : \E m \in 1..k : q[m] = n
    BY <1>6 DEF Bijection, Injection, Surjection
  <1>8. s \in [1..k -> Int] /\ \A n \in 1..k : s[n] = xs[q[n]] /\ s[n] \in Int /\ q[n] \in 1..k
    BY <1>6, <1>7
  <1>9. \A m, n \in 1..k : m <= n => s[m] <= s[n]
    <2>1. \A m, n \in 1..k : m <= n => m < n \/ m = n
      OBVIOUS
    <2>. QED BY <1>5, <1>8, <2>1
  <1>. HIDE DEF s, All
  <1>10. ASSUME NEW i \in 1..k PROVE IsNth(k, xs, i, s[i])
    <2>. DEFINE First(j) == {q[n] : n \in 1..j}
    <2>1. Under(k, xs, s[i]) \subseteq First(i - 1)
      <3>. SUFFICES ASSUME NEW n \in 1..k, xs[n] < s[i] PROVE n \in First(i - 1)
        BY DEF Under
      <3>1. PICK m \in 1..k : q[m] = n
        BY <1>7
      <3>2. ~(i <= m)
        BY <1>8, <1>9, <3>1
      <3>3. m \in 1..(i - 1)
        BY <3>2
      <3>. QED BY <3>1, <3>3
    <2>2. First(i) \subseteq UpTo(k, xs, s[i])
      <3>. SUFFICES ASSUME NEW n \in 1..i PROVE q[n] \in UpTo(k, xs, s[i])
        OBVIOUS
      <3>1. n \in 1..k /\ n <= i
        OBVIOUS
      <3>2. s[n] <= s[i]
        BY <1>9, <3>1
      <3>. QED BY <1>8, <3>1, <3>2 DEF UpTo
    <2>3. Cardinality(First(i - 1)) = i - 1 /\ Cardinality(First(i)) = i
      <3>1. i \in 0..k /\ i - 1 \in 0..k
        OBVIOUS
      <3>. QED BY <1>7, <3>1, Renamed
    <2>4. \A n \in 1..i : q[n] \in 1..k
      BY <1>7
    <2>5. \A n \in 1..(i - 1) : n \in 1..i
      OBVIOUS
    <2>6. First(i) \in SUBSET (1..k) /\ First(i - 1) \in SUBSET (1..k)
      BY <2>4, <2>5
    <2>7. UpTo(k, xs, s[i]) \in SUBSET (1..k) /\ Under(k, xs, s[i]) \in SUBSET (1..k)
      BY DEF UpTo, Under
    <2>. HIDE DEF First
    <2>8. Cardinality(Under(k, xs, s[i])) <= i - 1 /\ Cardinality(UpTo(k, xs, s[i])) >= i
      BY <2>1, <2>2, <2>3, <2>6, <2>7, Counted
    <2>9. Cardinality(Under(k, xs, s[i])) \in Nat
      BY <2>7, Counted
    <2>. QED BY <1>8, <2>8, <2>9 DEF IsNth
  <1>. QED BY <1>5, <1>8, <1>10 DEF s

\* There is one n-th sample.
LEMMA NthIsOne ==
    ASSUME NEW k \in Nat, NEW xs \in [1..k -> Int], NEW i \in 1..k,
           NEW v, NEW w, IsNth(k, xs, i, v), IsNth(k, xs, i, w)
    PROVE  v = w
  <1>1. ASSUME NEW a, NEW b, IsNth(k, xs, i, a), IsNth(k, xs, i, b), a < b PROVE FALSE
    <2>1. a \in Int /\ b \in Int
      BY <1>1 DEF IsNth
    <2>2. UpTo(k, xs, a) \subseteq Under(k, xs, b)
      BY <1>1, <2>1 DEF UpTo, Under
    <2>3. Under(k, xs, b) \in SUBSET (1..k) /\ UpTo(k, xs, a) \in SUBSET (1..k)
      BY DEF Under, UpTo
    <2>4. /\ Cardinality(UpTo(k, xs, a)) \in Nat /\ Cardinality(Under(k, xs, b)) \in Nat
          /\ Cardinality(UpTo(k, xs, a)) <= Cardinality(Under(k, xs, b))
      BY <2>2, <2>3, Counted
    <2>. QED BY <1>1, <2>4 DEF IsNth
  <1>2. v \in Int /\ w \in Int
    BY DEF IsNth
  <1>3. ~(v < w) /\ ~(w < v)
    BY <1>1
  <1>. QED BY <1>2, <1>3

\* Mirrored samples have the mirrored n-th sample, from the other end.
LEMMA NthMirrored ==
    ASSUME NEW k \in Nat, NEW xs \in [1..k -> Int], NEW i \in 1..k, NEW high \in Int,
           NEW v, IsNth(k, xs, i, v)
    PROVE  IsNth(k, [n \in 1..k |-> high - xs[n]], (k + 1) - i, high - v)
  <1>. DEFINE ys == [n \in 1..k |-> high - xs[n]]
  <1>1. v \in Int /\ \A n \in 1..k : xs[n] \in Int /\ ys[n] = high - xs[n]
    BY DEF IsNth
  <1>. HIDE DEF ys
  <1>2. Under(k, ys, high - v) = (1..k) \ UpTo(k, xs, v)
    BY <1>1 DEF Under, UpTo
  <1>3. UpTo(k, ys, high - v) = (1..k) \ Under(k, xs, v)
    BY <1>1 DEF Under, UpTo
  <1>4. UpTo(k, xs, v) \in SUBSET (1..k) /\ Under(k, xs, v) \in SUBSET (1..k)
    BY DEF UpTo, Under
  <1>5. /\ Cardinality(Under(k, ys, high - v)) = k - Cardinality(UpTo(k, xs, v))
        /\ Cardinality(UpTo(k, ys, high - v)) = k - Cardinality(Under(k, xs, v))
        /\ Cardinality(UpTo(k, xs, v)) \in Nat /\ Cardinality(Under(k, xs, v)) \in Nat
    BY <1>2, <1>3, <1>4, Counted
  <1>6. IsNth(k, ys, (k + 1) - i, high - v)
    BY <1>1, <1>5 DEF IsNth
  <1>. QED BY <1>6 DEF ys

-----------------------------------------------------------------------------
(* Medians and deviations *)

\* The samples a median is between.
LEMMA MedianBetween ==
    ASSUME NEW k \in Nat, k >= 1, NEW xs \in [1..k -> Int]
    PROVE  LET lower == IF k % 2 = 1 THEN (k \div 2) + 1 ELSE k \div 2
               upper == (k \div 2) + 1
           IN  /\ lower \in 1..k /\ upper \in 1..k /\ lower + upper = k + 1
               /\ \E a, b \in Int :
                     /\ IsNth(k, xs, lower, a) /\ IsNth(k, xs, upper, b)
                     /\ a <= b /\ Median(xs) = (a + b) \div 2
  <1>. DEFINE lower == IF k % 2 = 1 THEN (k \div 2) + 1 ELSE k \div 2
              upper == (k \div 2) + 1
              s == Sorted(xs)
              h == k \div 2
  <1>1. h \in Nat /\ (k = 2 * h \/ k = 2 * h + 1) /\ (k % 2 = 1 <=> k = 2 * h + 1)
    OBVIOUS
  <1>2. lower \in 1..k /\ upper \in 1..k /\ lower + upper = k + 1 /\ lower <= upper
        /\ (k % 2 = 1 => lower = upper) /\ (k % 2 # 1 => lower = h /\ upper = h + 1)
    <2>. HIDE DEF h
    <2>1. CASE k % 2 = 1
      BY <1>1, <2>1
    <2>2. CASE k % 2 # 1
      BY <1>1, <2>2
    <2>. QED BY <2>1, <2>2
  <1>3. /\ s \in [1..k -> Int] /\ \A m, n \in 1..k : m < n => s[m] <= s[n]
        /\ \A i \in 1..k : IsNth(k, xs, i, s[i])
    BY SortedSamples
  <1>4. Len(s) = k
    <2>1. s \in Seq(Int) /\ DOMAIN s = 1..k
      BY <1>3
    <2>. QED BY <2>1
  <1>5. Median(xs) = IF k % 2 = 1 THEN s[h + 1] ELSE (s[h] + s[h + 1]) \div 2
    BY <1>4 DEF Median
  <1>. HIDE DEF s, lower, h
  <1>6. s[lower] \in Int /\ s[upper] \in Int /\ s[lower] <= s[upper]
    <2>1. lower < upper \/ lower = upper
      BY <1>2
    <2>. QED BY <1>2, <1>3, <2>1
  <1>7. Median(xs) = (s[lower] + s[upper]) \div 2
    <2>1. CASE k % 2 = 1
      <3>1. s[lower] = s[upper] /\ Median(xs) = s[upper]
        BY <1>2, <1>5, <2>1 DEF h
      <3>2. \A x \in Int : (x + x) \div 2 = x
        OBVIOUS
      <3>. QED BY <1>6, <3>1, <3>2
    <2>2. CASE k % 2 # 1
      BY <1>2, <1>5, <2>2
    <2>. QED BY <2>1, <2>2
  <1>8. IsNth(k, xs, lower, s[lower]) /\ IsNth(k, xs, upper, s[upper])
    BY <1>2, <1>3
  <1>9. \E a, b \in Int : /\ IsNth(k, xs, lower, a) /\ IsNth(k, xs, upper, b)
                          /\ a <= b /\ Median(xs) = (a + b) \div 2
    BY <1>6, <1>7, <1>8
  <1>. QED BY <1>2, <1>9 DEF lower

\* A median is a number, and not negative when no sample is.
LEMMA MedianTyped ==
    ASSUME NEW k \in Nat, k >= 1, NEW xs \in [1..k -> Int]
    PROVE  /\ Median(xs) \in Int
           /\ (\A n \in 1..k : xs[n] >= 0) => Median(xs) >= 0
  <1>. DEFINE lower == IF k % 2 = 1 THEN (k \div 2) + 1 ELSE k \div 2
  <1>1. PICK a, b \in Int : /\ IsNth(k, xs, lower, a) /\ lower \in 1..k
                            /\ a <= b /\ Median(xs) = (a + b) \div 2
    BY MedianBetween
  <1>. HIDE DEF lower
  <1>2. Median(xs) \in Int /\ (a >= 0 => Median(xs) >= 0)
    <2>1. \A x \in Int : x \div 2 \in Int /\ (x >= 0 => x \div 2 >= 0)
      OBVIOUS
    <2>2. a + b \in Int /\ (a >= 0 => a + b >= 0)
      BY <1>1
    <2>. QED BY <1>1, <2>1, <2>2
  <1>3. ASSUME \A n \in 1..k : xs[n] >= 0 PROVE a >= 0
    <2>1. UpTo(k, xs, a) # {}
      <3>1. lower >= 1 /\ Cardinality(UpTo(k, xs, a)) >= lower
        BY <1>1 DEF IsNth
      <3>2. lower \in Nat /\ ~(0 >= lower)
        BY <1>1
      <3>3. UpTo(k, xs, a) = {} => Cardinality(UpTo(k, xs, a)) = 0
        BY FS_EmptySet
      <3>. QED BY <3>1, <3>2, <3>3
    <2>2. PICK n \in 1..k : xs[n] <= a
      BY <2>1 DEF UpTo
    <2>3. xs[n] \in Int /\ xs[n] >= 0
      BY <1>3
    <2>. QED BY <1>1, <2>2, <2>3
  <1>. QED BY <1>2, <1>3

\* At least half of the samples are on either side of a median.
LEMMA MedianInMiddle ==
    ASSUME NEW k \in Nat, k >= 1, NEW xs \in [1..k -> Int]
    PROVE  MiddleOf(Median(xs), xs)
  <1>. DEFINE lower == IF k % 2 = 1 THEN (k \div 2) + 1 ELSE k \div 2
              upper == (k \div 2) + 1
              m == Median(xs)
  <1>1. PICK a, b \in Int :
           /\ IsNth(k, xs, lower, a) /\ IsNth(k, xs, upper, b)
           /\ lower \in 1..k /\ upper \in 1..k /\ lower + upper = k + 1
           /\ a <= b /\ m = (a + b) \div 2
    BY MedianBetween
  <1>2. 2 * lower >= k /\ 2 * upper <= k + 2
    OBVIOUS
  <1>. HIDE DEF lower, upper, m
  <1>3. m \in Int /\ a <= m /\ m <= b
    <2>1. \A x, y \in Int : x <= y => x <= (x + y) \div 2 /\ (x + y) \div 2 <= y
      OBVIOUS
    <2>2. m \in Int
      BY MedianTyped DEF m
    <2>. QED BY <1>1, <2>1, <2>2
  <1>4. DOMAIN xs = 1..k /\ Len(xs) = k /\ \A n \in 1..k : xs[n] \in Int
    <2>1. xs \in Seq(Int) /\ DOMAIN xs = 1..k
      OBVIOUS
    <2>. QED BY <2>1
  <1>. DEFINE Low == {n \in 1..k : xs[n] <= m}
              High == {n \in 1..k : xs[n] >= m}
  <1>5. Low \in SUBSET (1..k) /\ High \in SUBSET (1..k)
    OBVIOUS
  <1>6. UpTo(k, xs, a) \subseteq Low
    BY <1>3, <1>4 DEF UpTo
  <1>7. (1..k) \ Under(k, xs, b) \subseteq High
    BY <1>3, <1>4 DEF Under
  <1>8. UpTo(k, xs, a) \in SUBSET (1..k) /\ Under(k, xs, b) \in SUBSET (1..k)
    BY DEF UpTo, Under
  <1>. HIDE DEF Low, High
  <1>9. /\ Cardinality(Low) >= Cardinality(UpTo(k, xs, a))
        /\ Cardinality(Low) \in Nat /\ Cardinality(UpTo(k, xs, a)) \in Nat
    BY <1>5, <1>6, <1>8, Counted
  <1>10. /\ Cardinality(High) >= Cardinality((1..k) \ Under(k, xs, b))
         /\ Cardinality((1..k) \ Under(k, xs, b)) = k - Cardinality(Under(k, xs, b))
         /\ Cardinality(High) \in Nat /\ Cardinality(Under(k, xs, b)) \in Nat
    <2>1. (1..k) \ Under(k, xs, b) \in SUBSET (1..k)
      OBVIOUS
    <2>. QED BY <1>5, <1>7, <1>8, <2>1, Counted
  <1>11. 2 * Cardinality(Low) >= k
    <2>1. Cardinality(UpTo(k, xs, a)) >= lower /\ lower \in Nat
      BY <1>1 DEF IsNth
    <2>. QED BY <1>2, <1>9, <2>1
  <1>12. 2 * Cardinality(High) >= k
    <2>1. Cardinality(Under(k, xs, b)) < upper /\ upper \in Nat
      BY <1>1 DEF IsNth
    <2>. QED BY <1>2, <1>10, <2>1
  <1>. QED BY <1>4, <1>11, <1>12 DEF MiddleOf, Low, High, m

\* Mirrored samples have the mirrored median, but for the rounding.
LEMMA MedianMirrored ==
    ASSUME NEW k \in Nat, k >= 1, NEW xs \in [1..k -> Int], NEW high \in Int
    PROVE  Distance(Median([n \in 1..k |-> high - xs[n]]), high - Median(xs)) <= 1
  <1>. DEFINE lower == IF k % 2 = 1 THEN (k \div 2) + 1 ELSE k \div 2
              upper == (k \div 2) + 1
              ys == [n \in 1..k |-> high - xs[n]]
  <1>1. ys \in [1..k -> Int]
    OBVIOUS
  <1>2. PICK a, b \in Int :
           /\ IsNth(k, xs, lower, a) /\ IsNth(k, xs, upper, b)
           /\ lower \in 1..k /\ upper \in 1..k /\ lower + upper = k + 1
           /\ Median(xs) = (a + b) \div 2
    BY MedianBetween
  <1>3. PICK c, d \in Int :
           /\ IsNth(k, ys, lower, c) /\ IsNth(k, ys, upper, d)
           /\ Median(ys) = (c + d) \div 2
    <2>. HIDE DEF ys
    <2>. QED BY <1>1, MedianBetween
  <1>. HIDE DEF lower, upper
  <1>4. IsNth(k, ys, (k + 1) - lower, high - a) /\ IsNth(k, ys, (k + 1) - upper, high - b)
    BY <1>2, NthMirrored
  <1>. HIDE DEF ys
  <1>5. (k + 1) - lower = upper /\ (k + 1) - upper = lower
    BY <1>2
  <1>6. IsNth(k, ys, upper, high - a) /\ IsNth(k, ys, lower, high - b)
    BY <1>4, <1>5
  <1>7. d = high - a /\ c = high - b
    BY <1>1, <1>2, <1>3, <1>6, NthIsOne
  <1>8. \A x, y, h \in Int :
           LET m == (x + y) \div 2  w == ((h - y) + (h - x)) \div 2
           IN  m \in Int /\ w \in Int /\ w - (h - m) <= 1 /\ (h - m) - w <= 1
    OBVIOUS
  <1>9. /\ Median(xs) \in Int /\ Median(ys) \in Int
        /\ Median(ys) - (high - Median(xs)) <= 1 /\ (high - Median(xs)) - Median(ys) <= 1
    BY <1>2, <1>3, <1>7, <1>8
  <1>10. Distance(Median(ys), high - Median(xs)) <= 1
    BY <1>9 DEF Distance
  <1>. QED BY <1>10 DEF ys

\* The noise of some times is a ratio of numbers.
LEMMA NoiseTyped ==
    ASSUME NEW k \in Nat, k >= 1, NEW xs \in [1..k -> Nat]
    PROVE  /\ NoiseRatio(xs) = <<NoiseRatio(xs)[1], NoiseRatio(xs)[2]>>
           /\ NoiseRatio(xs)[1] \in Nat /\ NoiseRatio(xs)[2] \in Nat /\ NoiseRatio(xs)[2] > 0
  <1>1. xs \in [1..k -> Int] /\ DOMAIN xs = 1..k /\ \A n \in 1..k : xs[n] \in Nat
    OBVIOUS
  <1>2. Median(xs) \in Int
    BY <1>1, MedianTyped
  <1>. DEFINE away == [n \in 1..k |-> Distance(xs[n], Median(xs))]
  <1>3. away \in [1..k -> Int] /\ \A n \in 1..k : away[n] >= 0
    BY <1>1, <1>2 DEF Distance
  <1>4. MAD(xs) = Median(away)
    BY <1>1 DEF MAD
  <1>. HIDE DEF away
  <1>5. Median(away) \in Int /\ Median(away) >= 0
    BY <1>3, MedianTyped
  <1>6. ScaledMAD(xs) \in Nat
    <2>1. \A x \in Int : x >= 0 => (x * 14826) \div 10000 \in Nat
      OBVIOUS
    <2>. QED BY <1>4, <1>5, <2>1 DEF ScaledMAD
  <1>. QED BY <1>2, <1>6 DEF NoiseRatio

\* A median that is greater by more than the noise is so seen from both sides.
LEMMA DirectionOnce ==
    ASSUME NEW b \in Nat, NEW c \in Nat, c > 0,
           NEW p1 \in Nat, NEW p2 \in Nat, p2 > 0, NEW q1 \in Nat, NEW q2 \in Nat, q2 > 0,
           Decide(b, c, <<p1, p2>>, <<q1, q2>>) = "Better"
    PROVE  Decide(c, b, <<q1, q2>>, <<p1, p2>>) = "Worse"
  <1>1. c < b /\ b > 0
    BY DEF Decide
  <1>2. Distance(b, c) = b - c /\ Distance(c, b) = b - c
    BY <1>1 DEF Distance
  <1>. DEFINE Noisy(n, d, base) == (b - c) * d > (2 * n) * base
  <1>3. IF q1 * p2 > p1 * q2 THEN Noisy(q1, q2, b) ELSE Noisy(p1, p2, b)
    BY <1>1, <1>2 DEF Decide, Exceeds
  <1>4. ASSUME NEW n \in Nat, NEW d \in Nat, Noisy(n, d, b) PROVE Noisy(n, d, c)
    <2>1. (2 * n) * c <= (2 * n) * b
      BY <1>1
    <2>2. (b - c) * d \in Int /\ (2 * n) * b \in Int /\ (2 * n) * c \in Int
      BY <1>1
    <2>. QED BY <1>4, <2>1, <2>2
  <1>5. IF p1 * q2 > q1 * p2 THEN Noisy(p1, p2, c) ELSE Noisy(q1, q2, c)
    <2>1. CASE q1 * p2 > p1 * q2
      <3>1. ~(p1 * q2 > q1 * p2)
        BY <2>1
      <3>2. Noisy(q1, q2, b)
        BY <1>3, <2>1
      <3>. HIDE DEF Noisy
      <3>. QED BY <1>4, <3>1, <3>2
    <2>2. CASE p1 * q2 > q1 * p2
      <3>1. Noisy(p1, p2, b)
        BY <1>3, <2>2
      <3>. HIDE DEF Noisy
      <3>. QED BY <1>4, <2>2, <3>1
    <2>3. CASE q1 * p2 = p1 * q2
      <3>. DEFINE away == b - c
      <3>1. away \in Nat /\ away * p2 > (2 * p1) * b
        BY <1>1, <1>3, <2>3
      <3>. HIDE DEF away
      <3>2. (away * p2) * q2 > ((2 * p1) * b) * q2
        <4>1. \A x, y, z \in Nat : (x > y /\ z > 0) => x * z > y * z
          OBVIOUS
        <4>2. away * p2 \in Nat /\ (2 * p1) * b \in Nat
          BY <3>1
        <4>. QED BY <3>1, <4>1, <4>2
      <3>3. (away * p2) * q2 = (away * q2) * p2 /\ ((2 * p1) * b) * q2 = (2 * b) * (p1 * q2)
            /\ (2 * b) * (q1 * p2) = ((2 * q1) * b) * p2
        BY <3>1
      <3>4. (away * q2) * p2 > ((2 * q1) * b) * p2
        BY <2>3, <3>2, <3>3
      <3>5. away * q2 > (2 * q1) * b
        <4>1. \A x, y, z \in Nat : x * z > y * z => x > y
          OBVIOUS
        <4>2. away * q2 \in Nat /\ (2 * q1) * b \in Nat
          BY <3>1
        <4>. QED BY <3>4, <4>1, <4>2
      <3>6. Noisy(q1, q2, b)
        BY <3>5 DEF away
      <3>7. Noisy(q1, q2, c)
        <4>. HIDE DEF Noisy
        <4>. QED BY <1>4, <3>6
      <3>8. ~(p1 * q2 > q1 * p2)
        BY <2>3
      <3>. HIDE DEF Noisy
      <3>. QED BY <3>7, <3>8
    <2>4. p1 * q2 \in Nat /\ q1 * p2 \in Nat
      OBVIOUS
    <2>. HIDE DEF Noisy
    <2>. QED BY <2>1, <2>2, <2>3, <2>4
  <1>. QED BY <1>1, <1>2, <1>5 DEF Decide, Exceeds

\* The statistics a verdict is made of are right for any numbers of samples.
LEMMA StatisticsAreRight == StatisticsRight
  <1>1. ASSUME NEW k \in 1..4, NEW xs \in Samples(k)
        PROVE  /\ MiddleOf(Median(xs), xs)
               /\ LET high == 100 IN
                  Distance(Median([n \in DOMAIN xs |-> high - xs[n]]), high - Median(xs)) <= 1
    <2>1. k \in Nat /\ k >= 1 /\ xs \in [1..k -> Int] /\ DOMAIN xs = 1..k /\ 100 \in Int
      <3>1. k \in Nat /\ k >= 1 /\ Times \subseteq Int
        BY MeasurementAssumption
      <3>2. xs \in [1..k -> Times]
        BY DEF Samples
      <3>3. xs \in [1..k -> Int]
        BY <3>1, <3>2
      <3>. QED BY <3>1, <3>3
    <2>. QED BY <2>1, MedianInMiddle, MedianMirrored
  <1>2. ASSUME NEW b \in Times, NEW c \in Times,
               NEW xs \in Samples(Calibrate), NEW ys \in Samples(Calibrate),
               Decide(b, c, NoiseRatio(xs), NoiseRatio(ys)) = "Better", c > 0
        PROVE  Decide(c, b, NoiseRatio(ys), NoiseRatio(xs)) = "Worse"
    <2>1. Calibrate \in Nat /\ Calibrate >= 1 /\ b \in Nat /\ c \in Nat
          /\ xs \in [1..Calibrate -> Nat] /\ ys \in [1..Calibrate -> Nat]
      <3>1. Calibrate \in Nat /\ Calibrate >= 1 /\ Times \subseteq Nat
        BY MeasurementAssumption
      <3>. QED BY <3>1 DEF Samples
    <2>2. PICK p1 \in Nat, p2 \in Nat : NoiseRatio(xs) = <<p1, p2>> /\ p2 > 0
      BY <2>1, NoiseTyped
    <2>3. PICK q1 \in Nat, q2 \in Nat : NoiseRatio(ys) = <<q1, q2>> /\ q2 > 0
      BY <2>1, NoiseTyped
    <2>4. Decide(b, c, <<p1, p2>>, <<q1, q2>>) = "Better"
      BY <1>2, <2>2, <2>3
    <2>5. Decide(c, b, <<q1, q2>>, <<p1, p2>>) = "Worse"
      <3>1. b \in Nat /\ c \in Nat /\ c > 0 /\ p2 > 0 /\ q2 > 0
        BY <1>2, <2>1, <2>2, <2>3
      <3>. QED BY <2>2, <2>3, <2>4, <3>1, DirectionOnce
    <2>. QED BY <2>2, <2>3, <2>5
  <1>. QED BY <1>1, <1>2 DEF StatisticsRight

-----------------------------------------------------------------------------
(* Measurement: the inductive invariant *)

\* Where a run of `bench` hashes, and where it has both digests.
Hashed == {"index", "calibrate", "measure", "write"}

MeasurementTypes ==
    /\ data \in [Sides -> [seed: Seeds, batches: 0..Batches]]
    /\ seeder \in [side: Sides \cup {"none"}, seed: Seeds, both: BOOLEAN]
    /\ indexed \in BOOLEAN /\ formal \in BOOLEAN /\ disturbed \in BOOLEAN
    /\ at \in [{"bench", "index"} -> {"idle", "baseline", "candidate", "gate",
                  "create", "index", "calibrate", "measure", "write"}]
    /\ digest \in [{"bench", "index"} -> [Sides -> Seq(Seeds)]]
    /\ took \in [Sides -> Nat]
    /\ used \in [Sides -> SUBSET Seq(Seeds)]
    /\ seedings \in 0..MaxSeedings /\ benches \in 0..MaxBenches

\* A phase of n rounds, baseline first.
InRounds(n) ==
    /\ took["candidate"] <= n
    /\ \/ took["baseline"] = took["candidate"]
       \/ took["baseline"] = took["candidate"] + 1 /\ took["candidate"] < n

\* The samples of a `bench` at each of its places.
SamplesKept ==
    /\ at["bench"] # "create"
    /\ at["bench"] = "idle" => ~formal /\ \A side \in Sides : digest["bench"][side] = <<>>
    /\ at["bench"] \notin {"calibrate", "measure", "write"} =>
          \A side \in Sides : took[side] = 0 /\ used[side] = {}
    /\ at["bench"] = "calibrate" => InRounds(Calibrate)
    /\ at["bench"] = "measure" => formal /\ InRounds(Calibrate + Rounds)
    /\ at["bench"] = "write" =>
          \A side \in Sides : took[side] = Calibrate + (IF formal THEN Rounds ELSE 0)

\* While no seed runs, a `bench` hashes and measures what the sides hold.
SideKept(side) ==
    LET hashed == digest["bench"][side]
    IN  /\ hashed = [n \in 1..Len(hashed) |-> data[side].seed]
        /\ Len(hashed) <= data[side].batches
        /\ at["bench"] \in Hashed => hashed = RowsOf(side)
        /\ used[side] \subseteq {RowsOf(side)}
        /\ took[side] > 0 => used[side] # {}

DataKept ==
    at["bench"] # "idle" /\ ~disturbed =>
        /\ seeder.side = "none"
        /\ at["bench"] \notin {"baseline"} => digest["bench"]["baseline"] = RowsOf("baseline")
        /\ at["bench"] \notin {"baseline", "candidate"} =>
              digest["bench"]["candidate"] = RowsOf("candidate")
        /\ at["bench"] \in Hashed => Identical("bench")
        /\ \A side \in Sides : SideKept(side)

\* What is true of every report.
Sound(r) ==
    /\ r.fair
    /\ r.eligible => r.quiet
    /\ \A side \in Sides :
          r.rounds[side] = Calibrate + (IF r.verdict = "none" THEN 0 ELSE Rounds)

FilesKept ==
    /\ files \in [Files -> SUBSET Report] /\ torn \subseteq Files
    /\ \A f \in Files : \A r \in files[f] : Sound(r)

MeasurementInv == MeasurementTypes /\ SamplesKept /\ DataKept /\ FilesKept

LEMMA SideSet == "baseline" \in Sides /\ "candidate" \in Sides /\ (\A s \in Sides : s = "baseline" \/ s = "candidate")
  BY DEF Sides

LEMMA RowsTyped ==
    ASSUME MeasurementTypes, NEW side \in Sides
    PROVE  /\ RowsOf(side) \in Seq(Seeds) /\ Len(RowsOf(side)) = data[side].batches
           /\ data[side].seed \in Seeds /\ data[side].batches \in 0..Batches
           /\ data[side].batches \in Nat
  <1>1. /\ data[side] \in [seed: Seeds, batches: 0..Batches]
        /\ data[side].seed \in Seeds /\ data[side].batches \in 0..Batches
        /\ data[side].batches \in Nat
    BY MeasurementAssumption DEF MeasurementTypes
  <1>2. RowsOf(side) \in [1..data[side].batches -> Seeds]
    BY <1>1 DEF RowsOf
  <1>3. RowsOf(side) \in Seq(Seeds) /\ DOMAIN RowsOf(side) = 1..data[side].batches
    BY <1>1, <1>2
  <1>. QED BY <1>1, <1>3

\* What can be made of times: a claim is made of quiet sides only, and there is
\* a verdict if and only if there was a measurement.
LEMMA ResultsTyped ==
    ASSUME NEW m \in BOOLEAN, NEW res \in ResultsOf[m]
    PROVE  /\ res[1] \in BOOLEAN /\ res[2] \in Verdicts /\ res[3] \in BOOLEAN
           /\ (res[2] = "none" <=> ~m) /\ (res[3] => res[1])
  <1>1. res \in Results(m)
    BY DEF ResultsOf
  <1>2. PICK b, c, p, q :
           LET v == IF m THEN Decide(b, c, p, q) ELSE "none"
           IN  res = <<Quiet(p) /\ Quiet(q), v, Eligible(p, q, v)>>
    BY <1>1 DEF Results
  <1>. DEFINE v == IF m THEN Decide(b, c, p, q) ELSE "none"
              quiet == Quiet(p) /\ Quiet(q)
              eligible == Eligible(p, q, v)
  <1>3. v \in Verdicts /\ (v = "none" <=> ~m)
    BY DEF Decide, Verdicts
  <1>4. quiet \in BOOLEAN /\ eligible \in BOOLEAN /\ (eligible => quiet)
    BY DEF Eligible, Quiet, Exceeds
  <1>. HIDE DEF v, quiet, eligible
  <1>5. res = <<quiet, v, eligible>>
    BY <1>2 DEF v, quiet, eligible
  <1>6. res[1] = quiet /\ res[2] = v /\ res[3] = eligible
    BY <1>5
  <1>. QED BY <1>3, <1>4, <1>6

LEMMA MeasurementStarts == MeasurementInit => MeasurementInv
  <1>. SUFFICES ASSUME MeasurementInit PROVE MeasurementInv
    OBVIOUS
  <1>. USE MeasurementAssumption
  <1>1. PICK s \in Seeds : /\ data = [side \in Sides |-> [seed |-> s, batches |-> Batches]]
                           /\ seeder = [side |-> "none", seed |-> s, both |-> FALSE]
    BY DEF MeasurementInit
  <1>2. <<>> \in Seq(Seeds)
    OBVIOUS
  <1>3. MeasurementTypes
    <2>1. data \in [Sides -> [seed: Seeds, batches: 0..Batches]]
          /\ seeder \in [side: Sides \cup {"none"}, seed: Seeds, both: BOOLEAN]
      BY <1>1
    <2>2. digest \in [{"bench", "index"} -> [Sides -> Seq(Seeds)]]
          /\ used \in [Sides -> SUBSET Seq(Seeds)]
      BY <1>2 DEF MeasurementInit
    <2>3. took \in [Sides -> Nat] /\ indexed \in BOOLEAN /\ formal \in BOOLEAN /\ disturbed \in BOOLEAN
      BY DEF MeasurementInit
    <2>5. seedings \in 0..MaxSeedings /\ benches \in 0..MaxBenches
      <3>1. 0 \in 0..MaxSeedings /\ 0 \in 0..MaxBenches
        OBVIOUS
      <3>. QED BY <3>1 DEF MeasurementInit
    <2>4. at \in [{"bench", "index"} -> {"idle", "baseline", "candidate", "gate",
                  "create", "index", "calibrate", "measure", "write"}]
      BY DEF MeasurementInit
    <2>. QED BY <2>1, <2>2, <2>3, <2>4, <2>5 DEF MeasurementTypes
  <1>4. SamplesKept
    BY DEF MeasurementInit, SamplesKept, Sides
  <1>5. DataKept
    BY DEF MeasurementInit, DataKept
  <1>6. PICK earlier \in SUBSET Files, c \in Calibrations :
           files = [f \in Files |-> IF f \in earlier THEN {c} ELSE {}]
    BY DEF MeasurementInit
  <1>7. PICK d \in Seeds, quiet \in BOOLEAN :
           c = [digest |-> [n \in 1..Batches |-> d], quiet |-> quiet, verdict |-> "none",
                eligible |-> FALSE, rounds |-> [side \in Sides |-> Calibrate], fair |-> TRUE]
    BY <1>6 DEF Calibrations
  <1>8. [n \in 1..Batches |-> d] \in Seq(Seeds) /\ [side \in Sides |-> Calibrate] \in [Sides -> Nat]
    OBVIOUS
  <1>9. c \in Report /\ Sound(c)
    BY <1>7, <1>8 DEF Report, Verdicts, Sound
  <1>10. FilesKept
    BY <1>6, <1>9 DEF MeasurementInit, FilesKept
  <1>. QED BY <1>3, <1>4, <1>5, <1>10 DEF MeasurementInv

\* Reports are only written by `bench`.
LEMMA FilesUntouched ==
    ASSUME FilesKept, UNCHANGED fileVars PROVE FilesKept'
  BY DEF FilesKept, fileVars, Sound

LEMMA SamplesUntouched ==
    ASSUME SamplesKept, at'["bench"] = at["bench"], UNCHANGED <<formal, took, used>>,
           \A side \in Sides : digest'["bench"][side] = digest["bench"][side]
    PROVE  SamplesKept'
  BY DEF SamplesKept, InRounds

\* What a step does to the other command, or to reports, `bench` does not see.
LEMMA DataUntouched ==
    ASSUME DataKept, at'["bench"] = at["bench"], disturbed' = disturbed,
           disturbed \/ seeder'.side = "none", UNCHANGED <<data, took, used>>,
           \A side \in Sides : digest'["bench"][side] = digest["bench"][side]
    PROVE  DataKept'
  BY SideSet DEF DataKept, SideKept, RowsOf, Identical, Hashed

\* A run that was disturbed, or that does not run.
LEMMA NothingKept ==
    ASSUME at["bench"] = "idle" \/ disturbed PROVE DataKept
  BY DEF DataKept

\* seed: a `bench` that runs is disturbed.
LEMMA SeedWrites ==
    ASSUME MeasurementInv,
           SeedStops \/ WriteBatch \/ \E s \in Seeds : StartSeed(s)
    PROVE  MeasurementInv'
  <1>. USE MeasurementAssumption
  <1>1. MeasurementTypes /\ SamplesKept /\ DataKept /\ FilesKept
    BY DEF MeasurementInv
  <1>2. UNCHANGED <<indexed, at, digest, formal, took, used, benches, fileVars>>
    BY DEF SeedStops, WriteBatch, StartSeed, benchVars
  <1>3. FilesKept'
    BY <1>1, <1>2, FilesUntouched
  <1>4. SamplesKept'
    BY <1>1, <1>2, SamplesUntouched
  <1>5. ASSUME NEW side \in Sides, NEW s \in Seeds, NEW n \in 0..Batches,
               Write(side, [seed |-> s, batches |-> n]), seeder' \in [side: Sides \cup {"none"}, seed: Seeds, both: BOOLEAN],
               seedings' \in 0..MaxSeedings
        PROVE  MeasurementInv'
    <2>1. data' \in [Sides -> [seed: Seeds, batches: 0..Batches]]
      BY <1>1, <1>5 DEF MeasurementTypes, Write
    <2>2. disturbed' \in BOOLEAN /\ (at'["bench"] = "idle" \/ disturbed')
      BY <1>2, <1>5 DEF Write
    <2>3. MeasurementTypes'
      BY <1>1, <1>2, <1>5, <2>1, <2>2 DEF MeasurementTypes
    <2>4. DataKept'
      BY <2>2 DEF DataKept
    <2>. QED BY <1>3, <1>4, <2>3, <2>4 DEF MeasurementInv
  <1>6. CASE SeedStops
    <2>1. MeasurementTypes'
      BY <1>1, <1>2, <1>6 DEF SeedStops, MeasurementTypes, benchVars
    <2>2. DataKept'
      BY <1>1, <1>2, <1>6, DataUntouched DEF SeedStops, benchVars, DataKept
    <2>. QED BY <1>3, <1>4, <2>1, <2>2 DEF MeasurementInv
  <1>7. ASSUME NEW s \in Seeds, StartSeed(s) PROVE MeasurementInv'
    <2>1. PICK side \in Sides, both \in BOOLEAN :
             /\ seeder' = [side |-> side, seed |-> s, both |-> both]
             /\ Write(side, [seed |-> s, batches |-> 0])
      BY <1>7 DEF StartSeed
    <2>2. seedings' \in 0..MaxSeedings /\ 0 \in 0..Batches
      BY <1>1, <1>7 DEF StartSeed, MeasurementTypes
    <2>. QED BY <1>5, <2>1, <2>2
  <1>8. CASE WriteBatch
    <2>. DEFINE side == seeder.side
                n == data[side].batches
    <2>1. side \in Sides /\ seeder.seed \in Seeds /\ seedings' = seedings
          /\ seedings \in 0..MaxSeedings
          /\ seeder \in [side: Sides \cup {"none"}, seed: Seeds, both: BOOLEAN]
      BY <1>1, <1>8 DEF WriteBatch, MeasurementTypes
    <2>2. n \in 0..Batches
      BY <1>1, <2>1, RowsTyped
    <2>3. CASE n < Batches
      <3>1. Write(side, [seed |-> seeder.seed, batches |-> n + 1]) /\ seeder' = seeder
        BY <1>8, <2>3 DEF WriteBatch
      <3>2. n + 1 \in 0..Batches
        BY <2>2, <2>3
      <3>. HIDE DEF side, n
      <3>. QED BY <1>5, <2>1, <3>1, <3>2 DEF side
    <2>4. CASE ~(n < Batches) /\ seeder.both
      <3>1. /\ Write("candidate", [seed |-> seeder.seed, batches |-> 0])
            /\ seeder' = [seeder EXCEPT !.side = "candidate", !.both = FALSE]
        BY <1>8, <2>4 DEF WriteBatch
      <3>2. seeder' \in [side: Sides \cup {"none"}, seed: Seeds, both: BOOLEAN]
        <4>1. "candidate" \in Sides \cup {"none"} /\ FALSE \in BOOLEAN
          BY SideSet
        <4>. QED BY <2>1, <3>1, <4>1
      <3>. QED BY <1>5, <2>1, <3>1, <3>2, SideSet, 0 \in 0..Batches
    <2>5. CASE ~(n < Batches) /\ ~seeder.both
      <3>1. seeder' = [seeder EXCEPT !.side = "none"] /\ UNCHANGED <<data, disturbed>>
        BY <1>8, <2>5 DEF WriteBatch
      <3>2. seeder' \in [side: Sides \cup {"none"}, seed: Seeds, both: BOOLEAN] /\ seeder'.side = "none"
        BY <2>1, <3>1
      <3>3. MeasurementTypes'
        BY <1>1, <1>2, <2>1, <3>1, <3>2 DEF MeasurementTypes
      <3>4. DataKept'
        BY <1>1, <1>2, <3>1, <3>2, DataUntouched
      <3>. QED BY <1>3, <1>4, <3>3, <3>4 DEF MeasurementInv
    <2>. QED BY <2>3, <2>4, <2>5
  <1>. QED BY <1>6, <1>7, <1>8

\* A `bench` starts with nothing hashed and nothing sampled; an `index` starts.
LEMMA CommandStarts ==
    ASSUME MeasurementInv, StartBench \/ StartIndex
    PROVE  MeasurementInv'
  <1>. USE MeasurementAssumption
  <1>1. MeasurementTypes /\ SamplesKept /\ DataKept /\ FilesKept
    BY DEF MeasurementInv
  <1>2. FilesKept'
    BY <1>1, FilesUntouched DEF StartBench, StartIndex
  <1>3. CASE StartIndex
    <2>1. /\ UNCHANGED <<sideVars, digest, benchVars, fileVars>> /\ at'["bench"] = at["bench"]
          /\ at' \in [{"bench", "index"} -> {"idle", "baseline", "candidate", "gate",
                        "create", "index", "calibrate", "measure", "write"}]
      BY <1>1, <1>3 DEF StartIndex, Moves, MeasurementTypes
    <2>2. MeasurementTypes'
      BY <1>1, <2>1 DEF MeasurementTypes, sideVars, benchVars
    <2>3. SamplesKept'
      BY <1>1, <2>1, SamplesUntouched DEF benchVars
    <2>4. DataKept'
      BY <1>1, <2>1, SideSet DEF benchVars, sideVars, DataKept, SideKept, RowsOf, Identical, Hashed
    <2>. QED BY <1>2, <2>2, <2>3, <2>4 DEF MeasurementInv
  <1>4. CASE StartBench
    <2>1. /\ UNCHANGED <<data, indexed, seeder, seedings, digest, took, used>>
          /\ at["bench"] = "idle" /\ at'["bench"] = "baseline"
          /\ at' \in [{"bench", "index"} -> {"idle", "baseline", "candidate", "gate",
                        "create", "index", "calibrate", "measure", "write"}]
          /\ formal' \in BOOLEAN
      BY <1>1, <1>4 DEF StartBench, Moves, MeasurementTypes, sideVars
    <2>2. disturbed' = (seeder.side # "none")
      BY <1>4 DEF StartBench
    <2>3. MeasurementTypes'
      <3>1. benches' \in 0..MaxBenches
        BY <1>1, <1>4 DEF StartBench, MeasurementTypes
      <3>. QED BY <1>1, <2>1, <2>2, <3>1 DEF MeasurementTypes
    <2>4. \A side \in Sides : took[side] = 0 /\ used[side] = {} /\ digest["bench"][side] = <<>>
      BY <1>1, <2>1 DEF SamplesKept
    <2>5. SamplesKept'
      BY <2>1, <2>4 DEF SamplesKept
    <2>6. DataKept'
      <3>. SUFFICES ASSUME ~disturbed' PROVE DataKept'
        BY DEF DataKept
      <3>1. seeder'.side = "none"
        BY <2>1, <2>2
      <3>2. ASSUME NEW side \in Sides PROVE SideKept(side)'
        <4>1. digest'["bench"][side] = <<>> /\ took'[side] = 0 /\ used'[side] = {}
          BY <2>1, <2>4
        <4>2. Len(<<>>) = 0 /\ <<>> = [n \in 1..0 |-> data[side].seed]
          OBVIOUS
        <4>3. 0 <= data[side].batches
          BY <1>1, RowsTyped
        <4>. QED BY <2>1, <4>1, <4>2, <4>3 DEF SideKept, Hashed
      <3>. QED BY <2>1, <3>1, <3>2 DEF DataKept, Hashed
    <2>. QED BY <1>2, <2>3, <2>5, <2>6 DEF MeasurementInv
  <1>. QED BY <1>3, <1>4

\* A digest grows by the rows of one batch, and ends when there are no more.
LEMMA ChunkIsRead ==
    ASSUME MeasurementInv, NEW c \in {"bench", "index"}, NEW side \in Sides, ReadChunk(c, side)
    PROVE  MeasurementInv'
  <1>. USE MeasurementAssumption
  <1>1. MeasurementTypes /\ SamplesKept /\ DataKept /\ FilesKept
    BY DEF MeasurementInv
  <1>2. UNCHANGED <<sideVars, benchVars, fileVars>> /\ at[c] = side
    BY DEF ReadChunk
  <1>3. FilesKept'
    BY <1>1, <1>2, FilesUntouched
  <1>. DEFINE hashed == digest[c][side]
              n == Len(hashed)
              next == IF side = "baseline" THEN "candidate" ELSE "gate"
  <1>4. hashed \in Seq(Seeds) /\ n \in Nat
    BY <1>1 DEF MeasurementTypes
  <1>5. data[side].seed \in Seeds /\ data[side].batches \in Nat
    BY <1>1, RowsTyped
  <1>6. \/ /\ n < data[side].batches /\ at' = at
           /\ digest' = [digest EXCEPT ![c][side] = Append(hashed, data[side].seed)]
        \/ /\ ~(n < data[side].batches) /\ digest' = digest
           /\ at' = [at EXCEPT ![c] = next]
    BY DEF ReadChunk, Moves
  <1>7. /\ \A d \in {"bench", "index"} : \A s \in Sides : digest[d][s] \in Seq(Seeds)
        /\ digest \in [{"bench", "index"} -> [Sides -> Seq(Seeds)]]
        /\ at \in [{"bench", "index"} -> {"idle", "baseline", "candidate", "gate",
                        "create", "index", "calibrate", "measure", "write"}]
    BY <1>1 DEF MeasurementTypes
  <1>. DEFINE longer == Append(hashed, data[side].seed)
  <1>8. /\ longer \in Seq(Seeds) /\ Len(longer) = n + 1
        /\ \A m \in 1..n : longer[m] = hashed[m]
        /\ longer[n + 1] = data[side].seed /\ DOMAIN longer = 1..(n + 1)
    BY <1>4, <1>5
  <1>9. MeasurementTypes'
    <2>1. digest' \in [{"bench", "index"} -> [Sides -> Seq(Seeds)]]
      <3>. DEFINE grown == [digest[c] EXCEPT ![side] = longer]
      <3>1. grown \in [Sides -> Seq(Seeds)]
        <4>. HIDE DEF longer, hashed
        <4>. QED BY <1>7, <1>8
      <3>2. digest' = digest \/ digest' = [digest EXCEPT ![c] = grown]
        BY <1>6
      <3>. HIDE DEF grown
      <3>. QED BY <1>7, <3>1, <3>2
    <2>2. at' \in [{"bench", "index"} -> {"idle", "baseline", "candidate", "gate",
                        "create", "index", "calibrate", "measure", "write"}]
      BY <1>6, <1>7
    <2>. QED BY <1>1, <1>2, <2>1, <2>2 DEF MeasurementTypes, sideVars, benchVars
  <1>. HIDE DEF longer
  <1>10. CASE c = "index"
    <2>1. at'["bench"] = at["bench"] /\ \A s \in Sides : digest'["bench"][s] = digest["bench"][s]
      BY <1>6, <1>7, <1>10
    <2>2. SamplesKept'
      BY <1>1, <1>2, <2>1, SamplesUntouched DEF benchVars
    <2>3. DataKept'
      BY <1>1, <1>2, <2>1, SideSet
         DEF benchVars, sideVars, DataKept, SideKept, RowsOf, Identical, Hashed
    <2>. QED BY <1>3, <1>9, <2>2, <2>3 DEF MeasurementInv
  <1>11. CASE c = "bench"
    <2>1. at["bench"] = side /\ at["bench"] \in {"baseline", "candidate"}
      BY <1>2, <1>11, SideSet
    <2>2. at'["bench"] \in {"baseline", "candidate", "gate"}
      BY <1>6, <1>7, <1>11, <2>1
    <2>3. SamplesKept'
      BY <1>1, <1>2, <2>1, <2>2 DEF SamplesKept, benchVars
    <2>4. DataKept'
      <3>. SUFFICES ASSUME ~disturbed PROVE DataKept'
        BY <1>2 DEF DataKept, benchVars
      <3>1. /\ seeder.side = "none"
            /\ at["bench"] \notin {"baseline"} => digest["bench"]["baseline"] = RowsOf("baseline")
            /\ \A s \in Sides : SideKept(s)
        BY <1>1, <2>1 DEF DataKept
      <3>2. UNCHANGED <<data, seeder, took, used>> /\ \A s \in Sides : RowsOf(s)' = RowsOf(s)
        BY <1>2 DEF sideVars, benchVars, RowsOf
      <3>3. hashed = [m \in 1..n |-> data[side].seed] /\ n <= data[side].batches
        BY <1>11, <3>1 DEF SideKept
      <3>4. CASE n < data[side].batches
        <4>1. /\ at' = at /\ digest'["bench"][side] = longer
              /\ \A s \in Sides : s # side => digest'["bench"][s] = digest["bench"][s]
          BY <1>6, <1>7, <1>11, <3>4 DEF longer
        <4>2. longer = [m \in 1..(n + 1) |-> data[side].seed]
          <5>1. \A m \in 1..(n + 1) : longer[m] = data[side].seed
            <6>1. \A m \in 1..(n + 1) : m \in 1..n \/ m = n + 1
              BY <1>4
            <6>2. \A m \in 1..n : hashed[m] = data[side].seed
              BY <3>3
            <6>. HIDE DEF n, hashed
            <6>. QED BY <1>8, <6>1, <6>2
          <5>2. longer = [m \in 1..(n + 1) |-> longer[m]]
            <6>. HIDE DEF n, hashed
            <6>. QED BY <1>8
          <5>. HIDE DEF n, hashed
          <5>. QED BY <5>1, <5>2
        <4>3. SideKept(side)'
          <5>1. Len(longer) = n + 1 /\ n + 1 <= data[side].batches
            BY <1>4, <1>5, <1>8, <3>4
          <5>2. used[side] \subseteq {RowsOf(side)} /\ (took[side] > 0 => used[side] # {})
            BY <3>1 DEF SideKept
          <5>3. at'["bench"] \notin Hashed
            BY <2>1, <4>1 DEF Hashed
          <5>. HIDE DEF n, hashed
          <5>. QED BY <3>2, <4>1, <4>2, <5>1, <5>2, <5>3 DEF SideKept
        <4>4. \A s \in Sides : s # side => SideKept(s)'
          BY <2>1, <3>1, <3>2, <4>1 DEF SideKept, Hashed
        <4>5. at'["bench"] \notin {"baseline"} => digest'["bench"]["baseline"] = RowsOf("baseline")
          BY <2>1, <3>1, <4>1, SideSet
        <4>6. at'["bench"] \in {"baseline", "candidate"} /\ seeder'.side = "none"
          BY <2>1, <3>1, <3>2, <4>1
        <4>7. \A s \in Sides : SideKept(s)'
          BY <4>3, <4>4
        <4>. QED BY <4>5, <4>6, <4>7, <3>2, SideSet DEF DataKept, Hashed
      <3>5. CASE ~(n < data[side].batches)
        <4>1. at'["bench"] = next /\ digest' = digest
          BY <1>6, <1>7, <1>11, <3>5
        <4>2. n = data[side].batches
          BY <1>4, <1>5, <3>3, <3>5
        <4>3. hashed = RowsOf(side)
          BY <3>3, <4>2 DEF RowsOf
        <4>4. \A s \in Sides : SideKept(s)'
          BY <2>2, <3>1, <3>2, <4>1 DEF SideKept, Hashed
        <4>5. next \notin {"baseline"} => digest'["bench"]["baseline"] = RowsOf("baseline")
          BY <1>11, <2>1, <3>1, <4>1, <4>3, SideSet
        <4>6. next \notin {"baseline", "candidate"} => digest'["bench"]["candidate"] = RowsOf("candidate")
          BY <1>11, <4>1, <4>3, SideSet
        <4>. QED BY <2>2, <3>1, <3>2, <4>1, <4>4, <4>5, <4>6, SideSet DEF DataKept, Hashed
      <3>. QED BY <3>4, <3>5
    <2>. QED BY <1>3, <1>9, <2>3, <2>4 DEF MeasurementInv
  <1>. QED BY <1>10, <1>11

\* A step of `bench` that moves it on, and leaves digests and samples alone.
LEMMA BenchMoves ==
    ASSUME MeasurementInv, NEW place \in {"index", "calibrate"},
           at["bench"] = (IF place = "index" THEN "gate" ELSE "index"),
           place = "index" => Identical("bench"),
           Moves("bench", place), UNCHANGED <<sideVars, digest, benchVars, fileVars>>
    PROVE  MeasurementInv'
  <1>1. MeasurementTypes /\ SamplesKept /\ DataKept /\ FilesKept
    BY DEF MeasurementInv
  <1>2. UNCHANGED <<data, indexed, seeder, seedings, digest, formal, took, used, disturbed, benches>>
    BY DEF sideVars, benchVars
  <1>3. /\ at'["bench"] = place
        /\ at' \in [{"bench", "index"} -> {"idle", "baseline", "candidate", "gate",
                      "create", "index", "calibrate", "measure", "write"}]
    BY <1>1 DEF Moves, MeasurementTypes
  <1>4. MeasurementTypes' /\ FilesKept'
    BY <1>1, <1>2, <1>3, FilesUntouched DEF MeasurementTypes
  <1>5. \A side \in Sides : took[side] = 0 /\ used[side] = {}
    BY <1>1 DEF SamplesKept
  <1>6. InRounds(Calibrate)
    BY <1>5, SideSet, MeasurementAssumption DEF InRounds
  <1>7. SamplesKept'
    <2>1. CASE place = "index"
      BY <1>2, <1>3, <1>5, <2>1 DEF SamplesKept
    <2>2. CASE place = "calibrate"
      BY <1>2, <1>3, <1>6, <2>2 DEF SamplesKept, InRounds
    <2>. QED BY <2>1, <2>2
  <1>8. DataKept'
    <2>. SUFFICES ASSUME ~disturbed PROVE DataKept'
      BY <1>2 DEF DataKept
    <2>1. /\ seeder.side = "none"
          /\ digest["bench"]["baseline"] = RowsOf("baseline")
          /\ digest["bench"]["candidate"] = RowsOf("candidate")
          /\ Identical("bench")
          /\ \A side \in Sides : SideKept(side)
      BY <1>1 DEF DataKept, Hashed
    <2>2. \A side \in Sides : digest["bench"][side] = RowsOf(side)
      BY <2>1, SideSet
    <2>3. \A side \in Sides : SideKept(side)'
      BY <1>2, <1>3, <2>1, <2>2 DEF SideKept, RowsOf
    <2>. QED BY <1>2, <1>3, <2>1, <2>3 DEF DataKept, Identical, RowsOf
  <1>. QED BY <1>4, <1>7, <1>8 DEF MeasurementInv

\* The gates of `index` and the index it makes.
LEMMA IndexMoves ==
    ASSUME MeasurementInv, Gate("index") \/ Stops("index") \/ CreateIndex
    PROVE  MeasurementInv'
  <1>1. MeasurementTypes /\ SamplesKept /\ DataKept /\ FilesKept
    BY DEF MeasurementInv
  <1>2. /\ UNCHANGED <<data, seeder, seedings, formal, took, used, disturbed, benches, fileVars>>
        /\ indexed' \in BOOLEAN
    BY <1>1 DEF Gate, Stops, CreateIndex, MeasurementTypes, sideVars, benchVars
  <1>3. /\ at'["bench"] = at["bench"]
        /\ at' \in [{"bench", "index"} -> {"idle", "baseline", "candidate", "gate",
                      "create", "index", "calibrate", "measure", "write"}]
    BY <1>1 DEF Gate, Stops, CreateIndex, Moves, MeasurementTypes
  <1>4. digest'["bench"] = digest["bench"] /\ digest' \in [{"bench", "index"} -> [Sides -> Seq(Seeds)]]
    <2>1. [side \in Sides |-> <<>>] \in [Sides -> Seq(Seeds)]
      OBVIOUS
    <2>. DEFINE none == [side \in Sides |-> <<>>]
    <2>2. digest' = digest \/ digest' = [digest EXCEPT !["index"] = none]
      BY DEF Gate, Stops, CreateIndex
    <2>3. digest \in [{"bench", "index"} -> [Sides -> Seq(Seeds)]]
      BY <1>1 DEF MeasurementTypes
    <2>. HIDE DEF none
    <2>. QED BY <2>1, <2>2, <2>3 DEF none
  <1>5. MeasurementTypes' /\ FilesKept'
    BY <1>1, <1>2, <1>3, <1>4, FilesUntouched DEF MeasurementTypes
  <1>6. SamplesKept'
    BY <1>1, <1>2, <1>3, <1>4, SamplesUntouched
  <1>7. DataKept'
    BY <1>1, <1>2, <1>3, <1>4, SideSet DEF DataKept, SideKept, RowsOf, Identical, Hashed
  <1>. QED BY <1>5, <1>6, <1>7 DEF MeasurementInv

\* `bench` ends without a report.
LEMMA BenchStops ==
    ASSUME MeasurementInv, Stops("bench") PROVE MeasurementInv'
  <1>1. MeasurementTypes /\ FilesKept
    BY DEF MeasurementInv
  <1>2. /\ UNCHANGED <<data, indexed, seeder, seedings, benches, fileVars>>
        /\ formal' = FALSE /\ disturbed' = FALSE
        /\ took' = [side \in Sides |-> 0] /\ used' = [side \in Sides |-> {}]
        /\ digest' = [digest EXCEPT !["bench"] = [side \in Sides |-> <<>>]]
        /\ at' = [at EXCEPT !["bench"] = "idle"]
    BY DEF Stops, sideVars, NoSamples, Moves
  <1>3. digest' \in [{"bench", "index"} -> [Sides -> Seq(Seeds)]]
        /\ digest'["bench"] = [side \in Sides |-> <<>>]
    <2>1. [side \in Sides |-> <<>>] \in [Sides -> Seq(Seeds)]
      OBVIOUS
    <2>. QED BY <1>1, <1>2, <2>1 DEF MeasurementTypes
  <1>4. /\ at'["bench"] = "idle"
        /\ at' \in [{"bench", "index"} -> {"idle", "baseline", "candidate", "gate",
                      "create", "index", "calibrate", "measure", "write"}]
    BY <1>1, <1>2 DEF MeasurementTypes
  <1>5. MeasurementTypes' /\ FilesKept'
    BY <1>1, <1>2, <1>3, <1>4, FilesUntouched DEF MeasurementTypes
  <1>6. SamplesKept' /\ DataKept'
    BY <1>2, <1>3, <1>4 DEF SamplesKept, DataKept
  <1>. QED BY <1>5, <1>6 DEF MeasurementInv

\* The samples of a round, baseline first, on what the side holds.
LEMMA RoundIsMeasured ==
    ASSUME MeasurementInv, Calibrating \/ Measuring PROVE MeasurementInv'
  <1>. USE MeasurementAssumption
  <1>1. MeasurementTypes /\ SamplesKept /\ DataKept /\ FilesKept
    BY DEF MeasurementInv
  <1>. DEFINE last == IF at["bench"] = "calibrate" THEN Calibrate ELSE Calibrate + Rounds
              side == IF took["baseline"] = took["candidate"] THEN "baseline" ELSE "candidate"
  <1>2. /\ at["bench"] \in {"calibrate", "measure"} /\ took["candidate"] < last
        /\ took' = [took EXCEPT ![side] = @ + 1]
        /\ used' = [used EXCEPT ![side] = @ \cup {RowsOf(side)}]
        /\ UNCHANGED <<sideVars, at, digest, formal, disturbed, benches, fileVars>>
    BY DEF Calibrating, Measuring, Round, TakeSample
  <1>3. InRounds(last) /\ last \in Nat /\ (at["bench"] = "measure" => formal)
    BY <1>1, <1>2 DEF SamplesKept
  <1>4. /\ side \in Sides /\ took["baseline"] \in Nat /\ took["candidate"] \in Nat
        /\ took \in [Sides -> Nat] /\ used \in [Sides -> SUBSET Seq(Seeds)]
    BY <1>1, SideSet DEF MeasurementTypes
  <1>5. RowsOf(side) \in Seq(Seeds)
    BY <1>1, <1>4, RowsTyped
  <1>6. /\ took' \in [Sides -> Nat] /\ used' \in [Sides -> SUBSET Seq(Seeds)]
        /\ used'[side] = used[side] \cup {RowsOf(side)}
        /\ \A s \in Sides : s # side => used'[s] = used[s] /\ took'[s] = took[s]
    <2>. HIDE DEF side
    <2>. QED BY <1>2, <1>4, <1>5
  <1>7. InRounds(last)'
    <2>1. CASE took["baseline"] = took["candidate"]
      <3>1. took'["baseline"] = took["baseline"] + 1 /\ took'["candidate"] = took["candidate"]
        BY <1>2, <1>4, <2>1, SideSet
      <3>2. took["candidate"] < last /\ last' = last
        BY <1>2
      <3>. HIDE DEF last
      <3>. QED BY <1>3, <1>4, <2>1, <3>1, <3>2 DEF InRounds
    <2>2. CASE took["baseline"] # took["candidate"]
      <3>1. took'["baseline"] = took["baseline"] /\ took'["candidate"] = took["candidate"] + 1
        BY <1>2, <1>4, <2>2, SideSet
      <3>2. took["candidate"] < last /\ last' = last
        BY <1>2
      <3>. HIDE DEF last
      <3>. QED BY <1>3, <1>4, <2>2, <3>1, <3>2 DEF InRounds
    <2>. QED BY <2>1, <2>2
  <1>8. SamplesKept'
    <2>1. CASE at["bench"] = "calibrate"
      BY <1>2, <1>7, <2>1 DEF SamplesKept, InRounds
    <2>2. CASE at["bench"] = "measure"
      BY <1>2, <1>3, <1>7, <2>2 DEF SamplesKept, InRounds
    <2>. QED BY <1>2, <2>1, <2>2
  <1>9. MeasurementTypes' /\ FilesKept'
    BY <1>1, <1>2, <1>6, FilesUntouched DEF MeasurementTypes, sideVars
  <1>10. DataKept'
    <2>. SUFFICES ASSUME ~disturbed PROVE DataKept'
      BY <1>2 DEF DataKept
    <2>1. /\ seeder.side = "none"
          /\ digest["bench"]["baseline"] = RowsOf("baseline")
          /\ digest["bench"]["candidate"] = RowsOf("candidate")
          /\ Identical("bench")
          /\ \A s \in Sides : SideKept(s)
      BY <1>1, <1>2 DEF DataKept, Hashed
    <2>2. UNCHANGED <<data, seeder, at, digest>> /\ \A s \in Sides : RowsOf(s)' = RowsOf(s)
      BY <1>2 DEF sideVars, RowsOf
    <2>3. \A s \in Sides : s # side => SideKept(s)'
      <3>. HIDE DEF side
      <3>. SUFFICES ASSUME NEW s \in Sides, s # side PROVE SideKept(s)'
        OBVIOUS
      <3>1. SideKept(s) /\ RowsOf(s)' = RowsOf(s) /\ used'[s] = used[s] /\ took'[s] = took[s]
        BY <1>6, <2>1, <2>2
      <3>. QED BY <2>2, <3>1 DEF SideKept
    <2>4. \A s \in Sides : s = side => SideKept(s)'
      <3>. HIDE DEF side
      <3>1. used'[side] # {} /\ used'[side] \subseteq {RowsOf(side)}
        BY <1>4, <1>6, <2>1 DEF SideKept
      <3>. QED BY <2>1, <2>2, <3>1 DEF SideKept
    <2>. HIDE DEF side
    <2>5. \A s \in Sides : SideKept(s)'
      BY <2>3, <2>4
    <2>. QED BY <1>2, <2>1, <2>2, <2>5, SideSet DEF DataKept, Identical
  <1>. QED BY <1>8, <1>9, <1>10 DEF MeasurementInv

\* A phase ends when each side has its samples.
LEMMA PhaseIsOver ==
    ASSUME MeasurementInv, PhaseEnds PROVE MeasurementInv'
  <1>. USE MeasurementAssumption
  <1>1. MeasurementTypes /\ SamplesKept /\ DataKept /\ FilesKept
    BY DEF MeasurementInv
  <1>. DEFINE place == IF at["bench"] = "calibrate" /\ formal THEN "measure" ELSE "write"
              last == IF at["bench"] = "calibrate" THEN Calibrate ELSE Calibrate + Rounds
  <1>2. /\ at["bench"] \in {"calibrate", "measure"} /\ took["candidate"] = last
        /\ at' = [at EXCEPT !["bench"] = place]
        /\ UNCHANGED <<sideVars, digest, benchVars, fileVars>>
    BY DEF PhaseEnds, Moves
  <1>3. /\ UNCHANGED <<data, indexed, seeder, seedings, digest, formal, took, used, disturbed, benches>>
        /\ formal \in BOOLEAN
    BY <1>1, <1>2 DEF sideVars, benchVars, MeasurementTypes
  <1>4. /\ at'["bench"] = place
        /\ at' \in [{"bench", "index"} -> {"idle", "baseline", "candidate", "gate",
                      "create", "index", "calibrate", "measure", "write"}]
    BY <1>1, <1>2 DEF MeasurementTypes
  <1>5. InRounds(last) /\ (at["bench"] = "measure" => formal) /\ last \in Nat
    BY <1>1, <1>2 DEF SamplesKept
  <1>6. \A side \in Sides : took[side] = last
    <2>1. took["baseline"] = last /\ took["candidate"] = last
      <3>. HIDE DEF last
      <3>. QED BY <1>2, <1>5 DEF InRounds
    <2>. QED BY <2>1, SideSet
  <1>7. SamplesKept'
    <2>1. CASE at["bench"] = "calibrate" /\ formal
      <3>1. took["candidate"] = Calibrate /\ took["baseline"] = Calibrate /\ at'["bench"] = "measure"
        BY <1>4, <1>6, <2>1, SideSet
      <3>2. Calibrate <= Calibrate + Rounds
        OBVIOUS
      <3>. QED BY <1>3, <2>1, <3>1, <3>2 DEF SamplesKept, InRounds
    <2>2. CASE ~(at["bench"] = "calibrate" /\ formal)
      <3>1. at'["bench"] = "write" /\ last = Calibrate + (IF formal THEN Rounds ELSE 0)
        BY <1>2, <1>4, <1>5, <2>2
      <3>. HIDE DEF last, place
      <3>. QED BY <1>3, <1>6, <3>1 DEF SamplesKept
    <2>. QED BY <2>1, <2>2
  <1>8. MeasurementTypes' /\ FilesKept'
    BY <1>1, <1>2, <1>3, <1>4, FilesUntouched DEF MeasurementTypes
  <1>9. DataKept'
    <2>1. at["bench"] \in Hashed /\ at'["bench"] \in Hashed
          /\ at["bench"] \notin {"idle", "baseline", "candidate"}
          /\ at'["bench"] \notin {"idle", "baseline", "candidate"}
      BY <1>2, <1>4 DEF Hashed
    <2>. QED BY <1>1, <1>3, <2>1 DEF DataKept, SideKept, RowsOf, Identical
  <1>. QED BY <1>7, <1>8, <1>9 DEF MeasurementInv

LEMMA ReportIsEmptied ==
    ASSUME MeasurementInv, NEW f \in Files, CreateReport(f) PROVE MeasurementInv'
  <1>1. MeasurementTypes /\ SamplesKept /\ DataKept /\ FilesKept
    BY DEF MeasurementInv
  <1>2. /\ UNCHANGED <<data, indexed, seeder, seedings, at, digest, formal, took, used, disturbed, benches>>
        /\ files' = [files EXCEPT ![f] = {}] /\ torn' = torn \cup {f}
    BY DEF CreateReport, sideVars, benchVars
  <1>3. FilesKept'
    <2>1. files' \in [Files -> SUBSET Report] /\ torn' \subseteq Files
      BY <1>1, <1>2 DEF FilesKept
    <2>2. \A g \in Files : files'[g] \subseteq files[g]
      BY <1>1, <1>2 DEF FilesKept
    <2>. QED BY <1>1, <2>1, <2>2 DEF FilesKept, Sound
  <1>4. MeasurementTypes' /\ SamplesKept'
    BY <1>1, <1>2 DEF MeasurementTypes, SamplesKept, InRounds
  <1>5. DataKept'
    BY <1>1, <1>2 DEF DataKept, SideKept, RowsOf, Identical, Hashed
  <1>. QED BY <1>3, <1>4, <1>5 DEF MeasurementInv

\* A report is about what was measured.
LEMMA ReportIsWritten ==
    ASSUME MeasurementInv, NEW f \in Files, WriteReport(f) PROVE MeasurementInv'
  <1>. USE MeasurementAssumption
  <1>1. MeasurementTypes /\ SamplesKept /\ DataKept /\ FilesKept
    BY DEF MeasurementInv
  <1>2. at["bench"] = "write" /\ formal \in BOOLEAN
    BY <1>1 DEF WriteReport, MeasurementTypes
  <1>3. PICK res \in ResultsOf[formal] :
           files' = [files EXCEPT ![f] =
              {[digest |-> digest["bench"]["baseline"], quiet |-> res[1], verdict |-> res[2],
                eligible |-> res[3], rounds |-> took, fair |-> Fair]}]
    BY DEF WriteReport
  <1>4. /\ res[1] \in BOOLEAN /\ res[2] \in Verdicts /\ res[3] \in BOOLEAN
        /\ (res[2] = "none" <=> ~formal) /\ (res[3] => res[1])
    BY <1>2, ResultsTyped
  <1>5. Fair
    <2>. SUFFICES ASSUME ~disturbed PROVE Fair
      BY DEF Fair
    <2>1. /\ digest["bench"]["baseline"] = RowsOf("baseline")
          /\ digest["bench"]["candidate"] = RowsOf("candidate")
          /\ Identical("bench") /\ \A side \in Sides : SideKept(side)
      BY <1>1, <1>2 DEF DataKept, Hashed
    <2>2. \A side \in Sides : RowsOf(side) = digest["bench"]["baseline"]
      BY <2>1, SideSet DEF Identical
    <2>3. \A side \in Sides : took[side] > 0
      <3>1. \A side \in Sides : took[side] = Calibrate + (IF formal THEN Rounds ELSE 0)
        BY <1>1, <1>2 DEF SamplesKept
      <3>2. Calibrate + (IF formal THEN Rounds ELSE 0) > 0
        <4>1. (IF formal THEN Rounds ELSE 0) \in Nat
          OBVIOUS
        <4>. QED BY <4>1
      <3>. QED BY <3>1, <3>2
    <2>4. \A side \in Sides : used[side] # {} /\ used[side] \subseteq {RowsOf(side)}
      BY <2>1, <2>3 DEF SideKept
    <2>. QED BY <2>2, <2>4 DEF Fair
  <1>. DEFINE fair == Fair
              r == [digest |-> digest["bench"]["baseline"], quiet |-> res[1], verdict |-> res[2],
                    eligible |-> res[3], rounds |-> took, fair |-> fair]
  <1>6. fair \in BOOLEAN /\ fair
    BY <1>5
  <1>. HIDE DEF fair
  <1>7. digest["bench"]["baseline"] \in Seq(Seeds) /\ took \in [Sides -> Nat]
    BY <1>1, SideSet DEF MeasurementTypes
  <1>8. r \in Report
    BY <1>4, <1>6, <1>7 DEF Report
  <1>9. \A side \in Sides : took[side] = Calibrate + (IF formal THEN Rounds ELSE 0)
    BY <1>1, <1>2 DEF SamplesKept
  <1>10. Sound(r)
    BY <1>4, <1>6, <1>9 DEF Sound
  <1>11. files' = [files EXCEPT ![f] = {r}] /\ torn' = torn \ {f}
    BY <1>3 DEF WriteReport, fair
  <1>12. FilesKept'
    <2>. HIDE DEF r
    <2>1. files' \in [Files -> SUBSET Report] /\ torn' \subseteq Files
      BY <1>1, <1>8, <1>11 DEF FilesKept
    <2>2. \A g \in Files : files'[g] \subseteq files[g] \cup {r}
      BY <1>1, <1>11 DEF FilesKept
    <2>3. \A g \in Files : \A x \in files'[g] : Sound(x)
      BY <1>1, <1>10, <2>2 DEF FilesKept
    <2>. QED BY <2>1, <2>3 DEF FilesKept, Sound
  <1>13. /\ UNCHANGED <<data, indexed, seeder, seedings, benches>>
         /\ formal' = FALSE /\ disturbed' = FALSE
         /\ took' = [side \in Sides |-> 0] /\ used' = [side \in Sides |-> {}]
         /\ digest' = [digest EXCEPT !["bench"] = [side \in Sides |-> <<>>]]
         /\ at' = [at EXCEPT !["bench"] = "idle"]
    BY DEF WriteReport, sideVars, NoSamples, Moves
  <1>14. digest' \in [{"bench", "index"} -> [Sides -> Seq(Seeds)]]
         /\ digest'["bench"] = [side \in Sides |-> <<>>]
    <2>1. [side \in Sides |-> <<>>] \in [Sides -> Seq(Seeds)]
      OBVIOUS
    <2>. QED BY <1>1, <1>13, <2>1 DEF MeasurementTypes
  <1>15. /\ at'["bench"] = "idle"
         /\ at' \in [{"bench", "index"} -> {"idle", "baseline", "candidate", "gate",
                       "create", "index", "calibrate", "measure", "write"}]
    BY <1>1, <1>13 DEF MeasurementTypes
  <1>16. MeasurementTypes'
    BY <1>1, <1>13, <1>14, <1>15 DEF MeasurementTypes
  <1>17. SamplesKept' /\ DataKept'
    BY <1>13, <1>14, <1>15 DEF SamplesKept, DataKept
  <1>. QED BY <1>12, <1>16, <1>17 DEF MeasurementInv

\* What samples, digests and files say of the data they were taken from: the
\* inductive invariant of the measuring commands (bench.go:77-204).
THEOREM MeasurementInvariant == MeasurementSpec => []MeasurementInv
  <1>1. MeasurementInv /\ [MeasurementNext]_measurementVars => MeasurementInv'
    <2>. SUFFICES ASSUME MeasurementInv, [MeasurementNext]_measurementVars PROVE MeasurementInv'
      OBVIOUS
    <2>1. CASE SeedStops \/ WriteBatch \/ \E s \in Seeds : StartSeed(s)
      BY <2>1, SeedWrites
    <2>2. CASE StartBench \/ StartIndex
      BY <2>2, CommandStarts
    <2>3. ASSUME NEW c \in {"bench", "index"}, NEW side \in Sides, ReadChunk(c, side)
          PROVE  MeasurementInv'
      BY <2>3, ChunkIsRead
    <2>4. CASE Gate("bench")
      BY <2>4, BenchMoves DEF Gate
    <2>5. CASE CheckIndex
      BY <2>5, BenchMoves DEF CheckIndex
    <2>6. CASE Gate("index") \/ Stops("index") \/ CreateIndex
      BY <2>6, IndexMoves
    <2>7. CASE Stops("bench")
      BY <2>7, BenchStops
    <2>8. CASE Calibrating \/ Measuring
      BY <2>8, RoundIsMeasured
    <2>9. CASE PhaseEnds
      BY <2>9, PhaseIsOver
    <2>10. ASSUME NEW f \in Files, CreateReport(f) \/ WriteReport(f) PROVE MeasurementInv'
      BY <2>10, ReportIsEmptied, ReportIsWritten
    <2>11. CASE UNCHANGED measurementVars
      <3>1. UNCHANGED <<data, indexed, seeder, seedings, at, digest, formal, took, used,
                        disturbed, benches, files, torn>>
        BY <2>11 DEF measurementVars, sideVars, benchVars, fileVars
      <3>2. MeasurementTypes' /\ SamplesKept'
        BY <3>1 DEF MeasurementInv, MeasurementTypes, SamplesKept, InRounds
      <3>3. DataKept'
        BY <3>1 DEF MeasurementInv, DataKept, SideKept, RowsOf, Identical, Hashed
      <3>4. FilesKept'
        BY <3>1 DEF MeasurementInv, FilesKept, Sound
      <3>. QED BY <3>2, <3>3, <3>4 DEF MeasurementInv
    <2>12. ASSUME NEW c \in {"bench", "index"}, Gate(c) \/ Stops(c) PROVE MeasurementInv'
      <3>1. c = "bench" \/ c = "index"
        OBVIOUS
      <3>. QED BY <2>4, <2>6, <2>7, <2>12, <3>1
    <2>. QED BY <2>1, <2>2, <2>3, <2>5, <2>6, <2>8, <2>9, <2>10, <2>11, <2>12
             DEF MeasurementNext
  <1>. QED BY <1>1, MeasurementStarts, PTL DEF MeasurementSpec

\* The two commands, the seed and the reports are what the program makes of them.
THEOREM MeasurementTypeCorrect == MeasurementSpec => []MeasurementTypeOK
  <1>1. MeasurementInv => MeasurementTypeOK
    BY DEF MeasurementInv, MeasurementTypes, FilesKept, MeasurementTypeOK
  <1>. QED BY <1>1, MeasurementInvariant, PTL

\* A report is about two sides with the data of its digest, unless a seed was
\* running, and holds equally many samples of both (gate.go:79, round.go:22,
\* bench.go:152-181).
THEOREM ReportsAreFair == MeasurementSpec => []ReportsFair
  <1>1. MeasurementInv => ReportsFair
    BY DEF MeasurementInv, FilesKept, Sound, ReportsFair
  <1>. QED BY <1>1, MeasurementInvariant, PTL

\* The statistics a verdict is made of are right, whatever the times are
\* (measure/stats.go:16-61, verdict.go:68).
THEOREM StatisticsAreSound == MeasurementSpec => []StatsSound
  <1>1. StatsSound
    BY StatisticsAreRight DEF StatsSound
  <1>. QED BY <1>1, PTL

-----------------------------------------------------------------------------
(* What TLC runs *)

\* A behaviour of MCTools is one of an experiment and one of a benchmark: what is
\* proved of the two holds in every state that a run visits.
LEMMA ToolsArePartsOfIt == Spec => ExperimentsSpec /\ MeasurementSpec
  <1>1. Init => ExperimentsInit /\ MeasurementInit
    BY DEF Init
  <1>2. [Next]_<<experimentVars, measurementVars, tool>> => [ExperimentsNext]_experimentVars
    BY DEF Next
  <1>3. [Next]_<<experimentVars, measurementVars, tool>> => [MeasurementNext]_measurementVars
    BY DEF Next
  <1>. QED BY <1>1, <1>2, <1>3, PTL DEF Spec, ExperimentsSpec, MeasurementSpec

\* Both tools stay in their types together (cmd/txbench, cmd/sentinel bench).
THEOREM ToolsTypeCorrect == Spec => []ToolsTypeOK
  <1>1. ExperimentsTypeOK /\ MeasurementTypeOK => ToolsTypeOK
    BY DEF ToolsTypeOK
  <1>. QED BY <1>1, ToolsArePartsOfIt, ExperimentsTyped, MeasurementTypeCorrect, PTL

=============================================================================

--------------------------- MODULE RunnerPromise ---------------------------
(***************************************************************************)
(* What a caller may rely on when it starts a Runner (a worker, or the     *)
(* verifier for a worker): the Runner stores at most one report, reports   *)
(* success only after its report was accepted, and then is over.           *)
(***************************************************************************)
EXTENDS Tries

VARIABLES
    run,          \* "idle", "running", "crashed", or what the Runner returned
    stored        \* the tries whose report was accepted

runnerVars == <<run, stored>>

Results == {"ok", "rejected", "failed", "lost"}

RunnerInit == run = [s \in Sessions |-> "idle"] /\ stored = {}

BeginRun(s) ==
    /\ run[s] = "idle"
    /\ run' = [run EXCEPT ![s] = "running"]
    /\ UNCHANGED stored

StoreReport(s) ==
    /\ run[s] = "running"
    /\ s \notin stored
    /\ stored' = stored \cup {s}
    /\ UNCHANGED run

ReturnFrom(s) ==
    /\ run[s] = "running"
    /\ \E o \in Results :
          /\ o = "ok" => s \in stored
          /\ run' = [run EXCEPT ![s] = o]
    /\ UNCHANGED stored

\* The last statement of the pipeline is the report's.
StoreAndReturn(s) ==
    /\ run[s] = "running"
    /\ s \notin stored
    /\ stored' = stored \cup {s}
    /\ \E o \in Results : run' = [run EXCEPT ![s] = o]

\* Several runs end without success, in one step of what they depend on.
EndRuns(S) ==
    /\ \A s \in S : run[s] = "running"
    /\ \E end \in [S -> (Results \ {"ok"}) \cup {"crashed"}] :
          run' = [s \in Sessions |-> IF s \in S THEN end[s] ELSE run[s]]
    /\ UNCHANGED stored

\* The process of some runs dies.
CrashRuns(S) ==
    /\ \A s \in S : run[s] = "running"
    /\ run' = [s \in Sessions |-> IF s \in S THEN "crashed" ELSE run[s]]
    /\ UNCHANGED stored

RunnerNext ==
    \/ \E s \in Sessions : BeginRun(s) \/ StoreReport(s) \/ ReturnFrom(s) \/ StoreAndReturn(s)
    \/ \E S \in SUBSET Sessions : EndRuns(S)

RunnerSpec == RunnerInit /\ [][RunnerNext]_runnerVars

=============================================================================

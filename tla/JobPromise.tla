----------------------------- MODULE JobPromise -----------------------------
(***************************************************************************)
(* What the job workflow promises the caller of the intake, whatever       *)
(* happens to relays, messages and workers in between: an accepted job is  *)
(* granted at most MaxAttempts tries, each try runs at most once, a        *)
(* completed job has its evidence, a job is given up only when the tries   *)
(* are used up, and a closed job stays as it is.                           *)
(***************************************************************************)
EXTENDS Naturals

CONSTANTS Jobs, MaxAttempts

VARIABLES
    phase,     \* absent, open, or how the job ended
    tries,     \* how many tries have been granted
    runs,      \* the tries that reached the Runner
    evidence   \* whether a report is stored

vars == <<phase, tries, runs, evidence>>

Closed == {"COMPLETED", "REJECTED", "DEAD_LETTER"}

Init ==
    /\ phase = [j \in Jobs |-> "absent"]
    /\ tries = [j \in Jobs |-> 0]
    /\ runs = [j \in Jobs |-> {}]
    /\ evidence = [j \in Jobs |-> FALSE]

\* The delivery is committed to the control plane.
Accept(j) ==
    /\ phase[j] = "absent"
    /\ phase' = [phase EXCEPT ![j] = "open"]
    /\ UNCHANGED <<tries, runs, evidence>>

\* Some worker claims the job while tries are left.
Grant(j) ==
    /\ phase[j] = "open"
    /\ tries[j] < MaxAttempts
    /\ tries' = [tries EXCEPT ![j] = @ + 1]
    /\ UNCHANGED <<phase, runs, evidence>>

\* A granted try reaches the Runner, once, perhaps late.
Run(j) ==
    /\ \E t \in 1..tries[j] :
          /\ t \notin runs[j]
          /\ runs' = [runs EXCEPT ![j] = @ \cup {t}]
    /\ UNCHANGED <<phase, tries, evidence>>

\* A run stores its report.
Store(j) ==
    /\ phase[j] = "open"
    /\ runs[j] # {}
    /\ evidence' = [evidence EXCEPT ![j] = TRUE]
    /\ UNCHANGED <<phase, tries, runs>>

\* The job ends, for good.
Close(j, end) ==
    /\ phase[j] = "open"
    /\ end = "COMPLETED" => evidence[j]
    /\ end = "REJECTED" => runs[j] # {}
    /\ end = "DEAD_LETTER" => tries[j] = MaxAttempts
    /\ phase' = [phase EXCEPT ![j] = end]
    /\ UNCHANGED <<tries, runs, evidence>>

Next ==
    \E j \in Jobs : \/ Accept(j) \/ Grant(j) \/ Run(j) \/ Store(j)
                    \/ \E end \in Closed : Close(j, end)

Spec == Init /\ [][Next]_vars

=============================================================================

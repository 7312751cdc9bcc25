------------------------------- MODULE Tries -------------------------------
(***************************************************************************)
(* What the verifier service and the shadow sessions have in common: the   *)
(* tries of jobs.  A try is one call of the Runner for one claim of a job  *)
(* (`JobQueue` numbers the claims of a job, here they are model values).   *)
(***************************************************************************)

CONSTANTS
    Jobs,
    Sessions,     \* the tries, each of which runs at most one shadow session
    JobOf,        \* the job of a try
    None

ASSUME TriesAssumption ==
    /\ JobOf \in [Sessions -> Jobs]
    /\ None \notin Sessions

=============================================================================

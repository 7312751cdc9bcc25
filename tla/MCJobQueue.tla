----------------------------- MODULE MCJobQueue -----------------------------
(* Finite instances of JobQueue for TLC. *)
EXTENDS JobQueue, TLC

\* Processes of one kind run the same code, and so do jobs.
ProcessSymmetry ==
    Permutations(Workers) \cup Permutations(Relays) \cup Permutations(Jobs)

=============================================================================

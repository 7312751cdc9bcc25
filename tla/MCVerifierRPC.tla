--------------------------- MODULE MCVerifierRPC ---------------------------
(* Finite instances of VerifierRPC for TLC. *)
EXTENDS VerifierRPC

CONSTANTS j1

\* Claims of one job, one after the other.
MCJobOf == [s \in Sessions |-> j1]

=============================================================================

----------------------------- MODULE MCApproval -----------------------------
(* Finite instances of Approval for TLC. *)
EXTENDS Approval, TLC

CONSTANTS j1, c1, c2, c3, r1, r2, s1, s2

\* Two reports with different candidates, one of which may be approved.
MCSpecOf == r1 :> s1 @@ r2 :> s2

\* The first client created the job.
MCCreator == j1 :> c1

\* The other clients are alike.
ReviewerSymmetry == Permutations({c2, c3})

=============================================================================

------------------------------- MODULE MCIntake -------------------------------
(* Finite instances of Intake for TLC. *)
EXTENDS Intake, TLC

CONSTANTS a, d1, s1, s2, x, y

\* Two clients post different inputs with one identifier.
MCPosts == {[id |-> a, content |-> x], [id |-> a, content |-> y]}

\* A delivery with one statement more than is allowed, where two begin on one
\* line; once the branch it is compared with has moved, only one of those is
\* still listed.
MCListings == d1 :> { << [id |-> s1, content |-> x], [id |-> s2, content |-> x],
                         [id |-> s2, content |-> y] >>,
                      << [id |-> s2, content |-> y] >> }

=============================================================================

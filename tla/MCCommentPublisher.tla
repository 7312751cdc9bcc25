------------------------- MODULE MCCommentPublisher -------------------------
(* Finite instances of CommentPublisher for TLC. *)
EXTENDS CommentPublisher, TLC

\* Publishers run the same code, and so are jobs alike.
ProcessSymmetry == Permutations(Publishers) \cup Permutations(Jobs)

=============================================================================

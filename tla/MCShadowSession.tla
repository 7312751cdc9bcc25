-------------------------- MODULE MCShadowSession --------------------------
(* Finite instances of ShadowSession for TLC. *)
EXTENDS ShadowSession, TLC

CONSTANTS indexing, rewriting, s1, s2

\* A try of an index and a try of a rewrite, in two processes.
MCJobOf == (s1 :> indexing) @@ (s2 :> rewriting)

=============================================================================

--------------------------- MODULE MCBoundedRead ---------------------------
(***************************************************************************)
(* A small instance of BoundedRead for TLC.                                *)
(***************************************************************************)
EXTENDS BoundedRead

\* Calls are interchangeable.
Symmetric == Permutations(Calls)

=============================================================================

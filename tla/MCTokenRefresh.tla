--------------------------- MODULE MCTokenRefresh ---------------------------
(***************************************************************************)
(* Small instances of TokenRefresh for TLC.                                *)
(***************************************************************************)
EXTENDS TokenRefresh, TLC

\* Calls and references are interchangeable: the properties do not tell them apart.
Symmetric == Permutations(Calls) \cup Permutations(References)

=============================================================================

----------------------------- MODULE MCEsiRead ------------------------------
(***************************************************************************)
(* Small instances of EsiRead for TLC.                                     *)
(***************************************************************************)
EXTENDS EsiRead, TLC

\* Calls and values are interchangeable.
Symmetric == Permutations(Calls) \cup Permutations(Values)

=============================================================================

------------------------- MODULE MCCallbackListener -------------------------
(***************************************************************************)
(* A small instance of CallbackListener for TLC.                           *)
(***************************************************************************)
EXTENDS CallbackListener, TLC

\* Processes are interchangeable, and so are calls.
Symmetric == Permutations(Procs) \cup Permutations(Calls)

=============================================================================

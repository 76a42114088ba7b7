---------------------------- MODULE MCGuideStore ----------------------------
(***************************************************************************)
(* Small instances of GuideStore for TLC.                                  *)
(***************************************************************************)
EXTENDS GuideStore, TLC

Symmetric == Permutations(Calls)

=============================================================================

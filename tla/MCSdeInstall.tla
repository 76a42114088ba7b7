---------------------------- MODULE MCSdeInstall ----------------------------
(***************************************************************************)
(* Small instances of SdeInstall for TLC.                                  *)
(***************************************************************************)
EXTENDS SdeInstall, TLC

Symmetric == Permutations(Installers)

=============================================================================

-------------------------- MODULE MCCharacterGrant --------------------------
(***************************************************************************)
(* Small instances of CharacterGrant for TLC.                              *)
(***************************************************************************)
EXTENDS CharacterGrant, TLC

\* Members of each set are interchangeable: the properties do not tell them apart.
Symmetric ==
    Permutations(Sessions) \cup Permutations(Callbacks)
      \cup Permutations(Removers) \cup Permutations(References)

=============================================================================

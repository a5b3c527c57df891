------------------------------- MODULE MCVault -------------------------------
(* Instances of Vault for TLC. *)
EXTENDS Vault, TLC

CONSTANTS k1, k2, n1, n2

Symmetric == Permutations(KeyId) \cup Permutations(NoteId)

=============================================================================

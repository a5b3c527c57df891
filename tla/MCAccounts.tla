----------------------------- MODULE MCAccounts -----------------------------
(* Instances of Accounts for TLC. *)
EXTENDS Accounts, TLC

CONSTANTS e1, e2, p1, p2, s1, s2

Symmetric == Permutations(Email) \cup Permutations(Password) \cup Permutations(Slot)

=============================================================================

----------------------------- MODULE MCSessions -----------------------------
(* Instances of Sessions for TLC. *)
EXTENDS Sessions, TLC

CONSTANTS d1, d2, s1, s2

Symmetric == Permutations(Device) \cup Permutations(Slot)

=============================================================================

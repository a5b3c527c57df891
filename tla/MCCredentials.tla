---------------------------- MODULE MCCredentials ----------------------------
(* Instances of Credentials for TLC: two commands at a time.               *)
EXTENDS Credentials, TLC

CONSTANTS p1, p2

Symmetric == Permutations(Process)

=============================================================================

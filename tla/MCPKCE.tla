------------------------------- MODULE MCPKCE -------------------------------
(* Instances of PKCE for TLC. *)
EXTENDS PKCE, TLC

CONSTANTS c1, c2, h1, h2, h3

Symmetric == Permutations({c1, c2}) \cup Permutations(Handler)

=============================================================================

----------------------------- MODULE MCItemSync -----------------------------
(* Instances of ItemSync for TLC: two phones and the notes they create.    *)
EXTENDS ItemSync

CONSTANTS d1, d2, n1, n2

\* d1 creates every note: d2 meets them by synchronizing.
OneAuthor == [i \in Item |-> d1]

\* Each device creates one.
TwoAuthors == [i \in Item |-> IF i = n1 THEN d1 ELSE d2]

=============================================================================

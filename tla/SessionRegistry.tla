--------------------------- MODULE SessionRegistry ---------------------------
(***************************************************************************)
(* What the server promises of the sessions of an account to whoever holds *)
(* their tokens: each is opened once, its token replaced by one that was   *)
(* never drawn before, and once ended it stays so.  After a mishap, which  *)
(* sets void, the last is no longer promised, but the others are.          *)
(***************************************************************************)
EXTENDS Naturals

CONSTANT MaxSessions

VARIABLES
  token,   \* token[i]: the token session i is known by, 0 when there is none
  opened,  \* how many sessions were opened
  drawn,   \* how many tokens were drawn
  void     \* whether sessions may come back

Init ==
  /\ token = [i \in 1 .. MaxSessions |-> 0]
  /\ opened = 0 /\ drawn = 0
  /\ void \in BOOLEAN

\* Session i gets the next token.
Draw(i) ==
  /\ drawn' = drawn + 1
  /\ token' = [token EXCEPT ![i] = drawn']

Open ==
  /\ opened < MaxSessions
  /\ opened' = opened + 1
  /\ Draw(opened')

Replace(i) ==
  /\ token[i] # 0 \/ void
  /\ Draw(i)
  /\ opened' = opened

End(i) ==
  /\ token[i] # 0
  /\ token' = [token EXCEPT ![i] = 0]
  /\ UNCHANGED <<opened, drawn>>

Next ==
  /\ void => void'
  /\ \/ Open
     \/ \E i \in 1 .. opened : Replace(i) \/ End(i)
     \/ UNCHANGED <<token, opened, drawn>>

Spec == Init /\ [][Next]_<<token, opened, drawn, void>>

=============================================================================

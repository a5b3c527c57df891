---------------------------- MODULE ItemRegister ----------------------------
(***************************************************************************)
(* What optimistic locking on updated_at is meant to give the devices of   *)
(* an account: each item is a register, and each write is made by someone  *)
(* who held the value it replaces.  A version is named by its updated_at;  *)
(* base is the version its author started from.  No write is lost without  *)
(* its successor's author having seen it, and updated_at only grows.       *)
(***************************************************************************)
EXTENDS Integers

CONSTANT Item

VARIABLE store   \* store[i] = [upd, base], upd = 0 while the item does not exist

Init == store = [i \in Item |-> [upd |-> 0, base |-> 0]]

\* What is left of a register that was given up.
Lost == [upd |-> -1, base |-> -1]

\* Replace the version of item i by version t, made from the one stored.
Write(i, t) == /\ store[i] # Lost
               /\ t > store[i].upd
               /\ store' = [store EXCEPT ![i] = [upd |-> t, base |-> store[i].upd]]

\* (The new version's name is read off the next state so that TLC can
\* evaluate the action: any greater number may be chosen.)
Next == \E i \in Item : /\ store'[i].upd \in Nat
                        /\ Write(i, store'[i].upd)

Spec == Init /\ [][Next]_store

\* The registers may be given up, one after the other and for good.
Lose(i) == store' = [store EXCEPT ![i] = Lost]

LosingSpec == Init /\ [][Next \/ \E i \in Item : Lose(i)]_store

=============================================================================

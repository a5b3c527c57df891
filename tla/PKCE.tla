-------------------------------- MODULE PKCE --------------------------------
(***************************************************************************)
(* The code challenges of /v2/login-params (StoreChallenge) and /v2/login  *)
(* (CheckChallenge).  Either request is two or three transactions of the   *)
(* database, between which other requests run; Remove, the last of a       *)
(* check, is the one that decides.  A challenge stands for the verifiers   *)
(* it is computed from; what follows an accepted check (the password, the  *)
(* session) is not modelled here.                                          *)
(***************************************************************************)
EXTENDS Integers, FiniteSets

CONSTANTS
  Challenge,  \* code challenges
  Handler,    \* requests the server handles at a time
  Lifetime,   \* how long a challenge is kept, an hour
  Faulty,     \* whether database calls fail and the server crashes
  MaxClock,   \* bound of a run: the clock stops there
  MaxStores   \* bound of a run: challenges stored in all

ASSUME LifetimeAssumption ==
  /\ Lifetime \in Nat \ {0} /\ MaxClock \in Nat /\ MaxStores \in Nat
  /\ Faulty \in BOOLEAN

VARIABLES
  clock,    \* the server's wall clock
  stored,   \* the PKCE records of the database
  req,      \* req[h]: the request in progress
  issued,   \* issued[c]: how often challenge c was stored
  accepted  \* accepted[c]: how often a check of challenge c succeeded

vars == <<clock, stored, req, issued, accepted>>

\* id is drawn by Save: storing a challenge again makes a second record.
Record == [id : Nat \X Challenge, challenge : Challenge, expire : Nat]

Phase == {"idle", "revoke", "save", "find", "remove"}

\* since: when the request revoked the expired challenges.
Handling == [phase : Phase, check : BOOLEAN, challenge : Challenge \cup {"none"}, since : Nat]

Idle == [phase |-> "idle", check |-> FALSE, challenge |-> "none", since |-> 0]

-----------------------------------------------------------------------------
(* The queries.                                                            *)

\* Variants a mistake in the code would give, for showing that the properties
\* below depend on it; no specification uses them.
LiveKeepingExpired(records, now) == {r \in records : r.expire >= now}

LiveCutShort(records, now) == {r \in records : r.expire > now + 1}

RemovesAnyway(records, c) == TRUE

ExpiryInPast(now) == now - Lifetime

\* RevokeExpiredChallenges deletes the records with expire <= now.
Live(records, now) == {r \in records : r.expire > now}

\* FindPKCE and RemovePKCE: the records of a challenge.
Of(records, c) == {r \in records : r.challenge = c}

\* RemovePKCE answers ErrNotFound when it deletes nothing.
Removes(records, c) == Of(records, c) # {}

\* StoreChallenge: ExpireAt of a challenge stored at a time.
Expiry(now) == now + Lifetime

-----------------------------------------------------------------------------

Init ==
  /\ clock = 0
  /\ stored = {}
  /\ req = [h \in Handler |-> Idle]
  /\ issued = [c \in Challenge |-> 0]
  /\ accepted = [c \in Challenge |-> 0]

\* A request for the login parameters, or a login, comes in.
Receive(h, check, c) ==
  /\ req[h].phase = "idle"
  /\ req' = [req EXCEPT ![h] = [phase |-> "revoke", check |-> check,
                                challenge |-> c, since |-> 0]]
  /\ UNCHANGED <<clock, stored, issued, accepted>>

\* Both begin with RevokeExpiredChallenges.
Revoke(h) ==
  /\ req[h].phase = "revoke"
  /\ stored' = Live(stored, clock)
  /\ req' = [req EXCEPT ![h] =
       [phase |-> IF req[h].check THEN "find" ELSE "save", check |-> req[h].check,
        challenge |-> req[h].challenge, since |-> clock]]
  /\ UNCHANGED <<clock, issued, accepted>>

\* StoreChallenge reads the clock at some time since then, and saves; it is
\* assumed not to take the lifetime of a challenge.
Save(h) ==
  LET c == req[h].challenge
  IN /\ req[h].phase = "save"
     /\ issued[c] < MaxStores
     /\ \E now \in req[h].since .. clock :
          /\ clock - now < Lifetime
          /\ stored' = stored \cup {[id |-> <<issued[c], c>>, challenge |-> c,
                                     expire |-> Expiry(now)]}
     /\ issued' = [issued EXCEPT ![c] = issued[c] + 1]
     /\ req' = [req EXCEPT ![h] = Idle]
     /\ UNCHANGED <<clock, accepted>>

\* CheckChallenge goes on when FindPKCE has found the challenge.
Find(h) ==
  /\ req[h].phase = "find"
  /\ req' = IF Of(stored, req[h].challenge) # {}
            THEN [req EXCEPT ![h] = [req[h] EXCEPT !.phase = "remove"]]
            ELSE [req EXCEPT ![h] = Idle]
  /\ UNCHANGED <<clock, stored, issued, accepted>>

\* RemovePKCE: its error, of another check that came first, is the result.
Remove(h) ==
  LET c == req[h].challenge
  IN /\ req[h].phase = "remove"
     /\ stored' = stored \ Of(stored, c)
     /\ accepted' = IF Removes(stored, c)
                    THEN [accepted EXCEPT ![c] = accepted[c] + 1] ELSE accepted
     /\ req' = [req EXCEPT ![h] = Idle]
     /\ UNCHANGED <<clock, issued>>

\* A transaction fails and the request ends there with an error.
Fail(h) ==
  /\ Faulty /\ req[h].phase # "idle"
  /\ req' = [req EXCEPT ![h] = Idle]
  /\ UNCHANGED <<clock, stored, issued, accepted>>

\* The server stops; the database stays as it is.
Crash ==
  /\ Faulty
  /\ req' = [h \in Handler |-> Idle]
  /\ UNCHANGED <<clock, stored, issued, accepted>>

Tick ==
  /\ clock < MaxClock
  /\ clock' = clock + 1
  /\ UNCHANGED <<stored, req, issued, accepted>>

Next ==
  \/ \E h \in Handler :
       \/ \E check \in BOOLEAN, c \in Challenge : Receive(h, check, c)
       \/ Revoke(h) \/ Save(h) \/ Find(h) \/ Remove(h) \/ Fail(h)
  \/ Crash \/ Tick

Spec == Init /\ [][Next]_vars

-----------------------------------------------------------------------------
(* Properties.                                                             *)

\* Every variable keeps the shape its comment gives it, and every record is
\* one of those stored.
TypeOK ==
  /\ clock \in Nat
  /\ stored \subseteq Record
  /\ req \in [Handler -> Handling]
  /\ \A h \in Handler : req[h].phase # "idle" => req[h].challenge \in Challenge
  /\ issued \in [Challenge -> Nat] /\ accepted \in [Challenge -> Nat]

\* However checks of one challenge interleave, no more of them are accepted
\* than times the challenge was stored, counting the records still there:
\* FindPKCE lets several pass, RemovePKCE lets one (pkce.go, CheckChallenge).
SpentOnce ==
  \A c \in Challenge : accepted[c] + Cardinality(Of(stored, c)) <= issued[c]

\* A check accepted on the strength of a record found that record unexpired
\* when it began, although FindPKCE itself does not look at ExpireAt.
AcceptedUnexpired ==
  [][\A h \in Handler :
       Remove(h) => \A r \in stored \ stored' : r.expire > req[h].since]_vars

\* A challenge that has not expired stays until a check of it is accepted:
\* revoking the expired ones, or checking another, never takes it away.
UnspentStays ==
  [][\A r \in stored \ stored' :
       r.expire > clock => accepted'[r.challenge] > accepted[r.challenge]]_vars

=============================================================================

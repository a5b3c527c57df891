----------------------------- MODULE PKCEProofs -----------------------------
(***************************************************************************)
(* What holds of the code challenges for any number of handlers and        *)
(* challenges and any lifetime.                                            *)
(***************************************************************************)
EXTENDS PKCE, FiniteSetTheorems, TLAPS

\* Every step of the server and of its clock keeps the types.
LEMMA TypeStep ==
  ASSUME TypeOK, [Next]_vars
  PROVE  TypeOK'
<1> USE LifetimeAssumption DEF TypeOK, Handling, Phase
<1>1. CASE UNCHANGED vars
  BY <1>1 DEF vars
<1>2. ASSUME NEW h \in Handler, NEW check \in BOOLEAN, NEW c \in Challenge,
             Receive(h, check, c)
      PROVE  TypeOK'
  BY <1>2 DEF Receive
<1>3. ASSUME NEW h \in Handler, Revoke(h)
      PROVE  TypeOK'
  BY <1>3 DEF Revoke, Live
<1>4. ASSUME NEW h \in Handler, Save(h)
      PROVE  TypeOK'
  <2> DEFINE c == req[h].challenge
  <2>0. c \in Challenge
    BY <1>4 DEF Save
  <2>1. PICK now \in req[h].since .. clock :
          stored' = stored \cup {[id |-> <<issued[c], c>>, challenge |-> c,
                                  expire |-> Expiry(now)]}
    BY <1>4 DEF Save
  <2>2. Expiry(now) \in Nat
    BY DEF Expiry
  <2>3. stored' \subseteq Record
    BY <2>0, <2>1, <2>2 DEF Record
  <2>4. /\ req' \in [Handler -> Handling] /\ issued' \in [Challenge -> Nat]
        /\ UNCHANGED <<clock, accepted>>
    BY <1>4, <2>0 DEF Save, Idle
  <2>5. \A g \in Handler : req'[g].phase # "idle" => req'[g].challenge \in Challenge
    BY <1>4 DEF Save, Idle
  <2> QED BY <2>3, <2>4, <2>5
<1>5. ASSUME NEW h \in Handler, Find(h)
      PROVE  TypeOK'
  BY <1>5 DEF Find, Idle
<1>6. ASSUME NEW h \in Handler, Remove(h)
      PROVE  TypeOK'
  BY <1>6 DEF Remove, Idle
<1>7. ASSUME NEW h \in Handler, Fail(h)
      PROVE  TypeOK'
  BY <1>7 DEF Fail, Idle
<1>8. CASE Crash
  BY <1>8 DEF Crash, Idle
<1>9. CASE Tick
  BY <1>9 DEF Tick
<1> QED BY <1>1, <1>2, <1>3, <1>4, <1>5, <1>6, <1>7, <1>8, <1>9 DEF Next

\* The records of a challenge are fewer, or as many, when records only go.
LEMMA FewerRecords ==
  ASSUME NEW A, IsFiniteSet(A), NEW B \in SUBSET A
  PROVE  /\ IsFiniteSet(B)
         /\ Cardinality(B) \in Nat /\ Cardinality(A) \in Nat
         /\ Cardinality(B) <= Cardinality(A)
BY FS_Subset, FS_CardinalityType

\* SpentOnce is inductive once the records are finitely many.
Counted == IsFiniteSet(stored) /\ SpentOnce

\* No step lets more checks of a challenge pass than the challenge was stored.
LEMMA CountedStep ==
  ASSUME TypeOK, Counted, [Next]_vars
  PROVE  Counted'
<1> USE DEF Counted
<1> DEFINE n(c) == Cardinality(Of(stored, c))
<1>0. \A c \in Challenge : /\ IsFiniteSet(Of(stored, c)) /\ n(c) \in Nat
                           /\ accepted[c] \in Nat /\ issued[c] \in Nat
                           /\ accepted[c] + n(c) <= issued[c]
  BY FewerRecords DEF Of, SpentOnce, TypeOK
<1>1. ASSUME UNCHANGED <<stored, issued, accepted>>
      PROVE  Counted'
  BY <1>1 DEF SpentOnce, Of
<1>2. ASSUME NEW h \in Handler, Revoke(h)
      PROVE  Counted'
  <2>1. stored' \subseteq stored /\ UNCHANGED <<issued, accepted>>
    BY <1>2 DEF Revoke, Live
  <2>2. IsFiniteSet(stored')
    BY <2>1, FewerRecords
  <2>3. ASSUME NEW c \in Challenge
        PROVE  accepted'[c] + Cardinality(Of(stored', c)) <= issued'[c]
    <3>1. Of(stored', c) \subseteq Of(stored, c)
      BY <2>1 DEF Of
    <3>2. Cardinality(Of(stored', c)) \in Nat /\ Cardinality(Of(stored', c)) <= n(c)
      BY <1>0, <3>1, FewerRecords
    <3> HIDE DEF n
    <3> QED BY <1>0, <2>1, <3>2
  <2> QED BY <2>2, <2>3 DEF SpentOnce
<1>3. ASSUME NEW h \in Handler, Save(h)
      PROVE  Counted'
  <2> DEFINE d == req[h].challenge
  <2>1. PICK r : stored' = stored \cup {r} /\ r.challenge = d
    <3>1. PICK now \in req[h].since .. clock :
            stored' = stored \cup {[id |-> <<issued[d], d>>, challenge |-> d,
                                    expire |-> Expiry(now)]}
      BY <1>3 DEF Save
    <3>2. [id |-> <<issued[d], d>>, challenge |-> d, expire |-> Expiry(now)].challenge = d
      OBVIOUS
    <3> QED BY <3>1, <3>2
  <2>2. /\ d \in Challenge /\ accepted' = accepted
        /\ issued' = [issued EXCEPT ![d] = issued[d] + 1]
    BY <1>3 DEF Save, TypeOK
  <2>3. IsFiniteSet(stored')
    BY <2>1, FS_AddElement
  <2>4. ASSUME NEW c \in Challenge
        PROVE  accepted'[c] + Cardinality(Of(stored', c)) <= issued'[c]
    <3>1. CASE c = d
      <4>1. Of(stored', c) = Of(stored, c) \cup {r}
        BY <2>1, <3>1 DEF Of
      <4>2. /\ Cardinality(Of(stored', c)) \in Nat
            /\ Cardinality(Of(stored', c)) <= n(c) + 1
        <5>1. Cardinality(Of(stored, c) \cup {r}) \in {n(c), n(c) + 1}
          BY <1>0, FS_AddElement
        <5> QED BY <1>0, <4>1, <5>1
      <4>3. issued'[c] = issued[c] + 1
        BY <2>2, <3>1 DEF TypeOK
      <4> HIDE DEF n, d
      <4> QED BY <1>0, <2>2, <4>2, <4>3
    <3>2. CASE c # d
      <4>1. Of(stored', c) = Of(stored, c)
        BY <2>1, <3>2 DEF Of
      <4>2. issued'[c] = issued[c]
        BY <2>2, <3>2 DEF TypeOK
      <4> QED BY <1>0, <2>2, <4>1, <4>2
    <3> QED BY <3>1, <3>2
  <2> QED BY <2>3, <2>4 DEF SpentOnce
<1>4. ASSUME NEW h \in Handler, Remove(h)
      PROVE  Counted'
  <2> DEFINE d == req[h].challenge
  <2>1. /\ d \in Challenge /\ issued' = issued
        /\ stored' = stored \ Of(stored, d)
    BY <1>4 DEF Remove, TypeOK
  <2>2. IsFiniteSet(stored')
    BY <2>1, FewerRecords
  <2>3. ASSUME NEW c \in Challenge
        PROVE  accepted'[c] + Cardinality(Of(stored', c)) <= issued'[c]
    <3>1. CASE c = d /\ Removes(stored, d)
      <4>1. Of(stored', c) = {}
        BY <2>1, <3>1 DEF Of
      <4>2. n(c) # 0
        BY <1>0, <3>1, FS_EmptySet DEF Removes
      <4>3. accepted'[c] = accepted[c] + 1
        BY <1>4, <3>1 DEF Remove, TypeOK
      <4>4. Cardinality(Of(stored', c)) = 0
        BY <4>1, FS_EmptySet
      <4> HIDE DEF n, d
      <4> QED BY <1>0, <2>1, <4>2, <4>3, <4>4
    <3>2. CASE c # d \/ ~Removes(stored, d)
      <4>1. Of(stored', c) = Of(stored, c)
        BY <2>1, <3>2 DEF Of, Removes
      <4>2. accepted'[c] = accepted[c]
        BY <1>4, <3>2 DEF Remove, TypeOK
      <4> QED BY <1>0, <2>1, <4>1, <4>2
    <3> QED BY <3>1, <3>2
  <2> QED BY <2>2, <2>3 DEF SpentOnce
<1> QED
  BY <1>1, <1>2, <1>3, <1>4
  DEF Next, vars, Receive, Find, Fail, Crash, Tick

\* An unspent challenge: what a step takes from the records.
LEMMA SpendingStep ==
  ASSUME TypeOK, Next
  PROVE  \A r \in stored \ stored' :
           r.expire > clock => accepted'[r.challenge] > accepted[r.challenge]
<1>1. ASSUME NEW h \in Handler, Revoke(h)
      PROVE  \A r \in stored \ stored' : ~(r.expire > clock)
  BY <1>1 DEF Revoke, Live
<1>2. ASSUME NEW h \in Handler, Remove(h), NEW r \in stored \ stored'
      PROVE  accepted'[r.challenge] > accepted[r.challenge]
  BY <1>2 DEF Remove, Removes, Of, TypeOK
<1>3. ASSUME NEW h \in Handler, Save(h)
      PROVE  stored \subseteq stored'
  BY <1>3 DEF Save
<1> QED BY <1>1, <1>2, <1>3 DEF Next, Receive, Find, Fail, Crash, Tick

\* The state of the challenges keeps its types.
THEOREM TypeCorrect == Spec => []TypeOK
<1>1. Init => TypeOK
  BY DEF Init, TypeOK, Idle, Handling, Phase
<1>2. TypeOK /\ [Next]_vars => TypeOK'
  BY TypeStep
<1> QED BY <1>1, <1>2, PTL DEF Spec

\* CheckChallenge accepts a challenge at most as often as it was stored,
\* whatever requests run at the same time and whatever fails.
THEOREM ChallengeSpentOnce == Spec => []SpentOnce
<1>1. Init => Counted
  <2> SUFFICES ASSUME Init PROVE Counted
    OBVIOUS
  <2>1. stored = {} /\ \A c \in Challenge : issued[c] = 0 /\ accepted[c] = 0
    BY DEF Init
  <2>2. \A c \in Challenge : Of(stored, c) = {}
    BY <2>1 DEF Of
  <2> QED BY <2>1, <2>2, FS_EmptySet DEF Counted, SpentOnce
<1>2. TypeOK /\ Counted /\ [Next]_vars => Counted'
  BY CountedStep
<1>3. Counted => SpentOnce
  BY DEF Counted
<1> QED BY <1>1, <1>2, <1>3, TypeCorrect, PTL DEF Spec

\* A challenge not yet expired disappears only with a check it lets pass.
THEOREM UnspentChallengeStays == Spec => UnspentStays
<1>1. TypeOK /\ [Next]_vars =>
        [\A r \in stored \ stored' :
           r.expire > clock => accepted'[r.challenge] > accepted[r.challenge]]_vars
  BY SpendingStep
<1> QED BY <1>1, TypeCorrect, PTL DEF Spec, UnspentStays

\* What a check in progress can find has not expired when it revoked the
\* expired ones: what was stored since then expires later still.
Unexpired ==
  \A h \in Handler :
    /\ req[h].since <= clock
    /\ req[h].phase \in {"find", "remove"} => \A r \in stored : r.expire > req[h].since

\* No step leaves an expired challenge to a check that has revoked them.
LEMMA UnexpiredStep ==
  ASSUME TypeOK, Unexpired, [Next]_vars
  PROVE  Unexpired'
<1> USE DEF Unexpired, TypeOK, Handling
<1>1. ASSUME NEW h \in Handler, Revoke(h)
      PROVE  Unexpired'
  <2>1. /\ \A r \in stored' : r \in stored /\ r.expire > clock
        /\ clock' = clock
        /\ req'[h].since = clock
        /\ \A g \in Handler \ {h} : req'[g] = req[g]
    BY <1>1 DEF Revoke, Live
  <2> QED BY <2>1
<1>2. ASSUME NEW h \in Handler, Save(h)
      PROVE  Unexpired'
  <2>0. PICK now \in req[h].since .. clock :
          /\ clock - now < Lifetime
          /\ stored' = stored \cup {[id |-> <<issued[req[h].challenge], req[h].challenge>>,
                                     challenge |-> req[h].challenge, expire |-> Expiry(now)]}
    BY <1>2 DEF Save
  <2> DEFINE r == [id |-> <<issued[req[h].challenge], req[h].challenge>>,
                   challenge |-> req[h].challenge, expire |-> Expiry(now)]
  <2>1. /\ clock - now < Lifetime
        /\ stored' = stored \cup {r}
        /\ r.expire = now + Lifetime
    BY <2>0 DEF Expiry
  <2> HIDE DEF r
  <2>2. /\ clock' = clock
        /\ req'[h] = Idle
        /\ \A g \in Handler \ {h} : req'[g] = req[g]
    BY <1>2 DEF Save
  <2>3. r.expire \in Int /\ r.expire > clock
    BY <2>1, LifetimeAssumption
  <2>4. \A g \in Handler : r.expire > req[g].since
    BY <2>3
  <2>5. \A g \in Handler : \A s \in stored' :
          req'[g].phase \in {"find", "remove"} => s.expire > req'[g].since
    BY <2>1, <2>2, <2>4 DEF Idle
  <2> QED BY <2>2, <2>5 DEF Idle
<1>3. ASSUME NEW h \in Handler, Find(h) \/ Remove(h) \/ Fail(h)
      PROVE  Unexpired'
  <2>1. /\ stored' \subseteq stored /\ clock' = clock
        /\ \A g \in Handler \ {h} : req'[g] = req[g]
        /\ \/ req'[h] = Idle
           \/ req'[h].since = req[h].since /\ req[h].phase = "find"
    BY <1>3 DEF Find, Remove, Fail
  <2> QED BY <2>1 DEF Idle
<1>4. ASSUME NEW h \in Handler, NEW check \in BOOLEAN, NEW c \in Challenge,
             Receive(h, check, c)
      PROVE  Unexpired'
  BY <1>4 DEF Receive
<1>5. CASE Crash
  BY <1>5 DEF Crash, Idle
<1>6. CASE Tick
  BY <1>6 DEF Tick
<1>7. CASE UNCHANGED vars
  BY <1>7 DEF vars
<1> QED BY <1>1, <1>2, <1>3, <1>4, <1>5, <1>6, <1>7 DEF Next

\* An accepted check spends a challenge that had not expired when it began.
THEOREM AcceptedWasUnexpired == Spec => AcceptedUnexpired
<1>1. Init => Unexpired
  BY DEF Init, Unexpired, Idle
<1>2. TypeOK /\ Unexpired /\ [Next]_vars => Unexpired'
  BY UnexpiredStep
<1>3. TypeOK /\ Unexpired /\ [Next]_vars =>
        [\A h \in Handler :
           Remove(h) => \A r \in stored \ stored' : r.expire > req[h].since]_vars
  BY DEF Unexpired, Remove
<1> QED BY <1>1, <1>2, <1>3, TypeCorrect, PTL DEF Spec, AcceptedUnexpired

=============================================================================

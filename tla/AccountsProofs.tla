--------------------------- MODULE AccountsProofs ---------------------------
(***************************************************************************)
(* What holds of the user records for any number of users, addresses,      *)
(* passwords and requests in progress.                                     *)
(***************************************************************************)
EXTENDS Accounts, TLAPS

\* The parameters choose a password.
Chosen(params) == params.password \in Password

\* What a request may hold in each of its phases.
WellFormed(r, registered) ==
  /\ r \in Request
  /\ r.phase = "idle" => r = Idle
  /\ r.phase = "find" => r.uid = 0 /\ r.kind \in {"register", "login"}
  /\ (r.phase \in {"find", "hash"} /\ r.kind = "register") =>
       Chosen(r.params) /\ r.params.email \in Email /\ r.params.cost \in Cost /\ r.uid = 0
  /\ r.phase = "authenticate" =>
       \/ r.kind = "update"
       \/ r.kind = "password" /\ Chosen(r.params)
  /\ (r.phase = "hash" /\ r.kind = "password") =>
       Chosen(r.params) /\ r.copy \in User /\ r.uid \in registered
  /\ r.phase = "hash" => r.kind \in {"register", "password"}
  /\ r.phase = "save" => r.copy \in User /\ r.uid \in registered \cup {0}
  /\ r.phase = "sign" => r.copy \in User /\ r.uid \in registered

\* The inductive invariant: every registered user has a record, and every request
\* what its phase needs.
Inv ==
  /\ clock \in Nat /\ count \in 0 .. MaxUsers
  /\ users \in [Uid -> User \cup {NoUser}]
  /\ \A u \in Registered : users[u] \in User
  /\ req \in [Slot -> Request]
  /\ \A s \in Slot : WellFormed(req[s], Registered)
  /\ jwts \subseteq Jwt /\ crossed \subseteq Registered

\* No parameters at all are parameters.
LEMMA IdleType == Idle \in Request /\ NoParams \in Params /\ NoJwt \in Jwt \cup {NoJwt}
BY DEF Idle, Request, Phase, Kind, NoParams, Params

\* Registered users are numbered within the bound.
LEMMA Counting ==
  ASSUME count \in 0 .. MaxUsers
  PROVE  /\ count \in Nat /\ MaxUsers \in Nat /\ count <= MaxUsers
         /\ Registered \subseteq Uid
BY BoundAssumption DEF Registered, Uid

\* A slot that becomes free is well formed.
LEMMA IdleWellFormed == \A registered : WellFormed(Idle, registered)
BY IdleType DEF WellFormed, Idle

\* The record apply leaves, field by field.
LEMMA AppliedFields ==
  ASSUME NEW user \in User, NEW params \in Params
  PROVE  /\ Applied(user, params) \in User
         /\ Applied(user, params).password = user.password
<1> DEFINE cost == IF params.cost > 0 THEN params.cost ELSE user.cost
<1>1. cost \in Cost
  <2>1. params.cost \in Cost \cup {0} /\ user.cost \in Cost
    BY DEF User, Params
  <2>2. CASE params.cost = 0
    BY <2>1, <2>2
  <2>3. CASE params.cost \in Cost
    BY <2>1, <2>3
  <2> QED BY <2>1, <2>2, <2>3
<1>2. Applied(user, params) = [user EXCEPT !.cost = cost]
  BY DEF Applied
<1> HIDE DEF cost
<1> QED BY <1>1, <1>2 DEF User

\* So it is where a new password was set before.
LEMMA RehashedUser ==
  ASSUME NEW user \in User, NEW params \in Params, Chosen(params), NEW now \in Nat
  PROVE  Applied(Rehashed(user, params, now), params) \in User
<1>1. Rehashed(user, params, now) \in User
  BY DEF Rehashed, User, Params, Chosen
<1> QED BY <1>1, AppliedFields

\* One slot takes a well-formed request, the users staying as they are.
LEMMA SlotStep ==
  ASSUME Inv, NEW s \in Slot, NEW r, WellFormed(r, Registered),
         req' = [req EXCEPT ![s] = r], UNCHANGED <<clock, users, count, jwts, crossed>>
  PROVE  Inv'
<1>1. \A t \in Slot : WellFormed(req'[t], Registered)
  BY DEF Inv
<1>2. \A q : WellFormed(q, Registered') = WellFormed(q, Registered)
  BY DEF WellFormed, Registered
<1>3. req' \in [Slot -> Request]
  BY DEF Inv, WellFormed
<1> QED BY <1>1, <1>2, <1>3 DEF Inv, Registered, WellFormed

\* A request sent is well formed.
LEMMA ReceiveWellFormed ==
  ASSUME Inv, NEW s \in Slot,
         \/ ReceiveRegister(s) \/ ReceiveLogin(s) \/ ReceiveUpdate(s) \/ ReceivePassword(s)
  PROVE  Inv'
<1>1. PICK kind \in Kind, phase \in {"find", "authenticate"}, params \in Params,
           jwt \in Jwt \cup {NoJwt} :
        /\ Receive(s, kind, phase, params, jwt)
        /\ phase = "find" => kind \in {"register", "login"}
        /\ kind = "register" => /\ phase = "find" /\ Chosen(params)
                               /\ params.email \in Email /\ params.cost \in Cost
        /\ phase = "authenticate" =>
             \/ kind = "update"
             \/ kind = "password" /\ Chosen(params)
  <2>1. CASE ReceiveRegister(s)
    <3>1. PICK e \in Email, p \in Password, c \in Cost :
            Receive(s, "register", "find",
              [NoParams EXCEPT !.email = e, !.password = p, !.cost = c], NoJwt)
      BY <2>1 DEF ReceiveRegister
    <3> DEFINE q == [NoParams EXCEPT !.email = e, !.password = p, !.cost = c]
    <3>2. q \in Params /\ q.email = e /\ q.cost = c /\ Chosen(q)
      BY DEF NoParams, Params, Chosen
    <3> HIDE DEF q
    <3> QED BY <3>1, <3>2 DEF q, Kind
  <2>2. CASE ReceiveLogin(s)
    <3>1. PICK e \in Email, p \in Password :
            Receive(s, "login", "find", [NoParams EXCEPT !.email = e, !.current = p], NoJwt)
      BY <2>2 DEF ReceiveLogin
    <3> DEFINE q == [NoParams EXCEPT !.email = e, !.current = p]
    <3>2. q \in Params
      BY DEF NoParams, Params
    <3> HIDE DEF q
    <3> QED BY <3>1, <3>2 DEF q, Kind
  <2>3. CASE ReceiveUpdate(s)
    <3>1. PICK t \in jwts, c \in Cost \cup {0} :
            Receive(s, "update", "authenticate", [NoParams EXCEPT !.cost = c], t)
      BY <2>3 DEF ReceiveUpdate
    <3> DEFINE q == [NoParams EXCEPT !.cost = c]
    <3>2. q \in Params /\ t \in Jwt
      BY DEF NoParams, Params, Inv
    <3> HIDE DEF q
    <3> QED BY <3>1, <3>2 DEF q, Kind
  <2>4. CASE ReceivePassword(s)
    <3>1. PICK t \in jwts, old \in Password, new \in Password,
             e \in Email \cup {""}, c \in Cost \cup {0} :
            Receive(s, "password", "authenticate",
              [email |-> e, current |-> old, password |-> new, cost |-> c], t)
      BY <2>4 DEF ReceivePassword
    <3> DEFINE q == [email |-> e, current |-> old, password |-> new, cost |-> c]
    <3>2. q \in Params /\ Chosen(q) /\ t \in Jwt
      BY DEF NoParams, Params, Chosen, Inv
    <3> HIDE DEF q
    <3> QED BY <3>1, <3>2 DEF q, Kind
  <2> QED BY <2>1, <2>2, <2>3, <2>4
<1> DEFINE r == [Idle EXCEPT !.phase = phase, !.kind = kind, !.params = params, !.jwt = jwt]
<1>2. req' = [req EXCEPT ![s] = r] /\ UNCHANGED <<clock, users, count, jwts, crossed>>
  BY <1>1 DEF Receive
<1>3. WellFormed(r, Registered)
  <2>1. /\ r \in Request /\ r.phase = phase /\ r.kind = kind
        /\ r.params = params /\ r.uid = 0
    BY <1>1 DEF Idle, Request, Phase
  <2> HIDE DEF r
  <2> QED BY <1>1, <2>1 DEF WellFormed
<1> HIDE DEF r
<1> QED BY <1>2, <1>3, SlotStep

\* What follows from a request being well formed, in each phase it has.
LEMMA Phases ==
  ASSUME Inv, NEW s \in Slot
  PROVE  /\ WellFormed(req[s], Registered) /\ req[s] \in Request
         /\ req[s].params \in Params /\ req[s].jwt \in Jwt \cup {NoJwt}
BY DEF Inv, WellFormed, Request

\* Requests that only read, and those that save nothing yet, stay well formed.
LEMMA ReadingStep ==
  ASSUME Inv, NEW s \in Slot, FindUserByMail(s) \/ Authenticate(s) \/ Hash(s) \/ Fail(s)
  PROVE  Inv'
<1> DEFINE r == req[s]
<1>0. /\ WellFormed(r, Registered) /\ r \in Request /\ r.params \in Params
      /\ \A u \in Registered : users[u] \in User /\ u \in Uid
  <2>1. Registered \subseteq Uid
    BY Counting DEF Inv
  <2> QED BY <2>1, Phases DEF Inv
<1>u. UNCHANGED <<clock, users, count, jwts, crossed>>
  BY DEF FindUserByMail, Authenticate, Hash, Fail
<1> HIDE DEF r
<1>1. CASE Answer(s)
  BY <1>1, <1>u, IdleWellFormed, SlotStep DEF Answer
<1>2. CASE FindUserByMail(s) /\ ~Answer(s)
  <2>1. CASE r.kind = "register"
    <3> DEFINE q == [r EXCEPT !.phase = "hash"]
    <3>1. req' = [req EXCEPT ![s] = q] /\ r.phase = "find"
      BY <1>2, <2>1 DEF FindUserByMail, r
    <3>2. /\ q \in Request /\ q.phase = "hash" /\ q.kind = r.kind
          /\ q.params = r.params /\ q.uid = r.uid
      BY <1>0 DEF Request, Phase
    <3>3. WellFormed(q, Registered)
      <4> HIDE DEF q
      <4> QED BY <1>0, <2>1, <3>1, <3>2 DEF WellFormed
    <3> HIDE DEF q
    <3> QED BY <3>1, <3>3, <1>u, SlotStep
  <2>2. CASE r.kind # "register"
    <3>1. PICK u \in Registered :
            /\ req' = [req EXCEPT ![s] = [r EXCEPT !.phase = "sign", !.params = NoParams,
                                 !.uid = u, !.copy = users[u]]]
      BY <1>2, <2>2 DEF FindUserByMail, r
    <3> DEFINE q == [r EXCEPT !.phase = "sign", !.params = NoParams,
                                 !.uid = u, !.copy = users[u]]
    <3>2. q \in Request /\ q.phase = "sign" /\ q.uid = u /\ q.copy = users[u]
      BY <1>0, <3>1, IdleType DEF Request, Phase
    <3>3. WellFormed(q, Registered)
      <4> HIDE DEF q
      <4> QED BY <1>0, <3>1, <3>2 DEF WellFormed
    <3> HIDE DEF q
    <3> QED BY <3>1, <3>3, <1>u, SlotStep DEF q
  <2> QED BY <2>1, <2>2
<1>3. CASE Authenticate(s) /\ ~Answer(s)
  <2> DEFINE u == r.jwt.uid
  <2>1. r.phase = "authenticate" /\ Accepted(r.jwt) /\ u \in Registered
    BY <1>3 DEF Authenticate, Accepted, r
  <2>2. CASE r.kind = "update"
    <3> DEFINE a == Applied(users[u], r.params)
               q == [r EXCEPT !.phase = "save", !.params = NoParams, !.jwt = NoJwt,
                              !.uid = u, !.copy = a]
    <3>1. req' = [req EXCEPT ![s] = q]
      BY <1>3, <2>1, <2>2 DEF Authenticate, r
    <3>2. a \in User
      BY <1>0, <2>1, <2>2, AppliedFields DEF WellFormed
    <3> HIDE DEF a, u
    <3>3. q \in Request /\ q.phase = "save" /\ q.uid = u /\ q.copy = a
      BY <1>0, <2>1, <3>2, IdleType DEF Request, Phase
    <3> HIDE DEF q
    <3>4. WellFormed(q, Registered)
      BY <2>1, <3>2, <3>3 DEF WellFormed
    <3> QED BY <3>1, <3>4, <1>u, SlotStep
  <2>3. CASE r.kind # "update"
    <3> DEFINE q == [r EXCEPT !.phase = "hash", !.jwt = NoJwt, !.uid = u, !.copy = users[u]]
    <3>1. req' = [req EXCEPT ![s] = q]
      BY <1>3, <2>1, <2>3 DEF Authenticate, r
    <3>2. r.kind = "password" /\ Chosen(r.params)
      BY <1>0, <2>1, <2>3 DEF WellFormed
    <3> HIDE DEF u
    <3>3. /\ q \in Request /\ q.phase = "hash" /\ q.uid = u /\ q.copy = users[u]
          /\ q.kind = r.kind /\ q.params = r.params
      BY <1>0, <2>1 DEF Request, Phase
    <3> HIDE DEF q
    <3>4. WellFormed(q, Registered)
      BY <1>0, <2>1, <3>2, <3>3 DEF WellFormed
    <3> QED BY <3>1, <3>4, <1>u, SlotStep
  <2> QED BY <2>2, <2>3
<1>4. CASE Hash(s) /\ ~Answer(s)
  <2>0. r.phase = "hash" /\ clock \in Nat
    BY <1>4 DEF Hash, r, Inv
  <2>1. CASE r.kind = "register"
    <3> DEFINE a == NewUser(r.params, clock)
               q == [r EXCEPT !.phase = "save", !.params = NoParams, !.copy = a]
    <3>1. req' = [req EXCEPT ![s] = q]
      BY <1>4, <2>1 DEF Hash, r
    <3>2. a \in User /\ r.uid = 0
      BY <1>0, <2>0, <2>1 DEF WellFormed, Chosen, NewUser, User
    <3> HIDE DEF a
    <3>3. q \in Request /\ q.phase = "save" /\ q.uid = r.uid /\ q.copy = a
      BY <1>0, <3>2, IdleType DEF Request, Phase
    <3> HIDE DEF q
    <3>4. WellFormed(q, Registered)
      BY <3>2, <3>3 DEF WellFormed
    <3> QED BY <3>1, <3>4, <1>u, SlotStep
  <2>2. CASE r.kind # "register"
    <3> DEFINE a == Applied(Rehashed(r.copy, r.params, clock), r.params)
               q == [r EXCEPT !.phase = "save", !.params = NoParams, !.copy = a]
    <3>1. req' = [req EXCEPT ![s] = q]
      BY <1>4, <2>2 DEF Hash, r
    <3>2. r.kind = "password" /\ Chosen(r.params) /\ r.copy \in User /\ r.uid \in Registered
      BY <1>0, <2>0, <2>2 DEF WellFormed
    <3>3. a \in User
      BY <1>0, <2>0, <3>2, RehashedUser
    <3> HIDE DEF a
    <3>4. q \in Request /\ q.phase = "save" /\ q.uid = r.uid /\ q.copy = a
      BY <1>0, <3>3, IdleType DEF Request, Phase
    <3> HIDE DEF q
    <3>5. WellFormed(q, Registered)
      BY <3>2, <3>3, <3>4 DEF WellFormed
    <3> QED BY <3>1, <3>5, <1>u, SlotStep
  <2> QED BY <2>1, <2>2
<1> QED BY <1>1, <1>2, <1>3, <1>4 DEF Fail

\* Saving a copy and signing for it.
LEMMA WritingStep ==
  ASSUME Inv, NEW s \in Slot, Save(s) \/ Sign(s)
  PROVE  Inv'
<1> DEFINE r == req[s]
<1>0. /\ WellFormed(r, Registered) /\ r \in Request /\ count \in Nat
      /\ Registered \subseteq Uid
  BY Phases, Counting DEF Inv
<1>1. CASE Save(s)
  <2> DEFINE u == IF r.uid = 0 THEN count + 1 ELSE r.uid
  <2>1. /\ r.phase = "save" /\ u <= MaxUsers /\ UNCHANGED <<clock, jwts>>
    BY <1>1 DEF Save
  <2>2. r.copy \in User /\ r.uid \in Registered \cup {0}
    BY <1>0, <2>1 DEF WellFormed
  <2>3. u \in Uid
    BY <1>0, <2>1, <2>2 DEF Uid, Registered
  <2>4. CASE Taken(r.copy.email, u)
    BY <1>1, <2>4, IdleWellFormed, SlotStep DEF Save, Answer
  <2>5. CASE ~Taken(r.copy.email, u)
    <3> DEFINE q == [r EXCEPT !.phase = "sign", !.uid = u]
    <3>1. /\ users' = [users EXCEPT ![u] = r.copy]
          /\ count' = IF r.uid = 0 THEN u ELSE count
          /\ req' = [req EXCEPT ![s] = q]
      BY <1>1, <2>5 DEF Save
    <3> HIDE DEF r
    <3>2. Registered' = Registered \cup {u} /\ count' \in 0 .. MaxUsers
      <4>1. count \in Nat /\ MaxUsers \in Nat /\ count <= MaxUsers
        BY Counting DEF Inv
      <4>2. u \in 1 .. count \/ (u = count + 1 /\ count' = u)
        <5>1. CASE r.uid = 0
          <6>1. u = count + 1
            BY <5>1
          <6>2. count' = u
            BY <3>1, <5>1
          <6> HIDE DEF u
          <6> QED BY <6>1, <6>2
        <5>2. CASE r.uid # 0
          <6>1. u = r.uid
            BY <5>2
          <6>2. r.uid \in 1 .. count
            BY <2>2, <5>2 DEF Registered
          <6> HIDE DEF u
          <6> QED BY <6>1, <6>2
        <5> QED BY <5>1, <5>2
      <4>3. u \in 1 .. count => count' = count
        BY <3>1, <4>1
      <4> HIDE DEF u
      <4> QED BY <2>1, <4>1, <4>2, <4>3 DEF Registered
    <3> HIDE DEF u
    <3>3. /\ q \in Request /\ q.phase = "sign" /\ q.uid = u /\ q.copy = r.copy
      BY <1>0, <2>3 DEF Request, Phase
    <3>4. users' \in [Uid -> User \cup {NoUser}]
      BY <2>2, <2>3, <3>1 DEF Inv
    <3>5. \A v \in Registered' : users'[v] \in User
      BY <1>0, <2>2, <2>3, <3>1, <3>2 DEF Inv
    <3> HIDE DEF q
    <3>6. WellFormed(q, Registered')
      BY <2>2, <3>2, <3>3 DEF WellFormed
    <3>7. \A t \in Slot \ {s} : WellFormed(req[t], Registered') /\ req'[t] = req[t]
      <4>1. ASSUME NEW t \in Slot \ {s}
            PROVE  WellFormed(req'[t], Registered')
        <5>1. WellFormed(req[t], Registered) /\ req'[t] = req[t] /\ Registered \subseteq Registered'
          BY <3>1, <3>2 DEF Inv
        <5> QED BY <5>1 DEF WellFormed
      <4> QED BY <3>1, <4>1 DEF Inv
    <3>8. req' \in [Slot -> Request] /\ req'[s] = q
      BY <3>1, <3>3 DEF Inv
    <3>9. \A t \in Slot : WellFormed(req'[t], Registered')
      BY <3>6, <3>7, <3>8
    <3>10. crossed' \subseteq Registered'
      BY <1>1, <2>5, <3>2 DEF Save, Inv, r, u
    <3> QED BY <2>1, <3>2, <3>4, <3>5, <3>8, <3>9, <3>10 DEF Inv
  <2> QED BY <2>4, <2>5
<1>2. CASE Sign(s)
  <2> DEFINE t == [uid |-> r.uid, iat |-> clock, secret |-> r.copy.password]
  <2>1. t \in Jwt
    BY <1>0, <1>2 DEF Sign, WellFormed, User, Jwt, Inv
  <2>2. jwts' \subseteq Jwt
    BY <1>2, <2>1 DEF Sign, Inv
  <2>3. req' = [req EXCEPT ![s] = Idle] /\ UNCHANGED <<clock, users, count>>
    BY <1>2 DEF Sign, Answer
  <2>4. \A q : WellFormed(q, Registered) => WellFormed(q, Registered')
    BY <2>3 DEF WellFormed, Registered
  <2>5. \A v \in Slot : WellFormed(req'[v], Registered)
    BY <2>3, IdleWellFormed DEF Inv
  <2>6. req' \in [Slot -> Request]
    BY <2>3, IdleType DEF Inv
  <2>7. crossed' \subseteq Registered
    BY <1>0, <1>2 DEF Sign, WellFormed, Inv
  <2> QED BY <2>2, <2>3, <2>5, <2>6, <2>7 DEF Inv, WellFormed, Registered
<1> QED BY <1>1, <1>2

\* Inv is inductive.
LEMMA InvStep ==
  ASSUME Inv, [Next]_vars
  PROVE  Inv'
<1>1. CASE UNCHANGED vars
  BY <1>1 DEF vars, Inv, WellFormed, Registered
<1>2. CASE Tick
  <2>1. clock' \in Nat /\ UNCHANGED <<users, count, req, jwts, crossed>>
    BY <1>2 DEF Tick, Inv
  <2> QED BY <2>1 DEF Inv, Registered
<1>3. CASE Crash
  <2>1. req' = [s \in Slot |-> Idle] /\ UNCHANGED <<clock, users, count, jwts, crossed>>
    BY <1>3 DEF Crash
  <2>2. \A s \in Slot : WellFormed(req'[s], Registered)
    BY <2>1, IdleWellFormed
  <2> QED BY <2>1, <2>2, IdleType DEF Inv, WellFormed, Registered
<1> QED BY <1>1, <1>2, <1>3, ReceiveWellFormed, ReadingStep, WritingStep DEF Next

\* The user records, the requests and the JWTs keep their types, and with them
\* Inv holds.
THEOREM TypeCorrect == Spec => [](TypeOK /\ Inv)
<1>1. Init => Inv
  <2> SUFFICES ASSUME Init PROVE Inv
    OBVIOUS
  <2>1. Registered = {} /\ count \in 0 .. MaxUsers
    BY BoundAssumption DEF Init, Registered
  <2> QED BY <2>1, IdleWellFormed, IdleType DEF Init, Inv
<1>2. Inv /\ [Next]_vars => Inv'
  BY InvStep
<1>3. Inv => TypeOK
  BY Counting DEF Inv, TypeOK
<1> QED BY <1>1, <1>2, <1>3, PTL DEF Spec

\* No interleaving of registrations and changes of address gives two users one
\* address.
THEOREM AddressesUnique == Spec => []EmailsUnique
<1>1. Init => EmailsUnique
  BY DEF Init, EmailsUnique, Registered
<1>2. Inv /\ EmailsUnique /\ [Next]_vars => EmailsUnique'
  <2> SUFFICES ASSUME Inv, EmailsUnique, [Next]_vars PROVE EmailsUnique'
    OBVIOUS
  <2>1. ASSUME UNCHANGED <<users, count>>
        PROVE  EmailsUnique'
    BY <2>1 DEF EmailsUnique, Registered
  <2>2. ASSUME NEW s \in Slot, Save(s), ~UNCHANGED <<users, count>>
        PROVE  EmailsUnique'
    <3> DEFINE r == req[s]
               u == IF r.uid = 0 THEN count + 1 ELSE r.uid
    <3>1. /\ r.phase = "save" /\ ~Taken(r.copy.email, u) /\ u <= MaxUsers
          /\ users' = [users EXCEPT ![u] = r.copy]
          /\ count' = IF r.uid = 0 THEN u ELSE count
      BY <2>2 DEF Save
    <3>2. r.uid \in Registered \cup {0} /\ count \in Nat
      BY <3>1, Phases, Counting DEF WellFormed, Inv
    <3>3. Registered' = Registered \cup {u} /\ u \in Uid /\ Registered \subseteq Uid
      <4>1. count \in Nat /\ MaxUsers \in Nat /\ Registered \subseteq Uid
        BY Counting DEF Inv
      <4>2. u \in 1 .. count \/ (u = count + 1 /\ count' = u)
        <5>1. CASE r.uid = 0
          <6>1. u = count + 1
            BY <5>1
          <6>2. count' = u
            BY <3>1, <5>1
          <6> HIDE DEF u
          <6> QED BY <6>1, <6>2
        <5>2. CASE r.uid # 0
          <6>1. u = r.uid
            BY <5>2
          <6>2. r.uid \in 1 .. count
            BY <3>2, <5>2 DEF Registered
          <6> HIDE DEF u
          <6> QED BY <6>1, <6>2
        <5> QED BY <5>1, <5>2
      <4>3. u \in 1 .. count => count' = count
        BY <3>1, <4>1
      <4>4. u \in Nat
        BY <4>1, <4>2
      <4> HIDE DEF u
      <4> QED BY <3>1, <4>1, <4>2, <4>3, <4>4 DEF Registered, Uid
    <3> HIDE DEF r, u
    <3>4. /\ users'[u] = r.copy
          /\ \A v \in Registered \ {u} : users'[v] = users[v]
          /\ \A v \in Registered \ {u} : users[v].email # r.copy.email
      BY <3>1, <3>3 DEF Taken, Inv
    <3> QED BY <3>3, <3>4 DEF EmailsUnique
  <2> QED
    BY <2>1, <2>2
    DEF Next, vars, ReceiveRegister, ReceiveLogin, ReceiveUpdate, ReceivePassword,
        Receive, FindUserByMail, Authenticate, Hash, Sign, Fail, Crash, Tick
<1> QED BY <1>1, <1>2, TypeCorrect, PTL DEF Spec
-----------------------------------------------------------------------------
(* JWTs and passwords.                                                     *)

\* Nothing was issued for nobody, and nothing has a time to come.
Timely(store, tokens, registered, now) ==
  /\ \A t \in tokens : t.uid \in registered /\ t.iat <= now
  /\ \A u \in registered : store[u].changed <= now

Recent(r, now) == r.phase = "save" => r.copy.changed <= now

\* A copy of record u leaves its password alone; or changes it, and is younger
\* than what was issued for it.
Agrees(copy, u, store) ==
  copy.password = store[u].password /\ copy.changed = store[u].changed

Supersedes(copy, u, store, tokens) ==
  /\ store[u].changed <= copy.changed
  /\ \A t \in tokens : t.uid = u => t.iat <= copy.changed

\* The copy a request works on has the password of the stored record, until the
\* request changes it.
Current(r, store, tokens) ==
  /\ (r.phase = "hash" /\ r.kind = "password") => Agrees(r.copy, r.uid, store)
  /\ (r.phase = "save" /\ r.uid # 0) =>
       IF r.kind = "password" THEN Supersedes(r.copy, r.uid, store, tokens)
       ELSE Agrees(r.copy, r.uid, store)
  /\ r.phase = "sign" => r.copy.password = store[r.uid].password

\* The inductive invariant: where no request crossed a change of password, copies
\* are current.
JwtInv ==
  /\ Timely(users, jwts, Registered, clock)
  /\ \A s \in Slot : Recent(req[s], clock)
  /\ \A s \in Slot : req[s].uid \notin crossed => Current(req[s], users, jwts)
  /\ JwtOfCurrentPassword

\* A step that only moves one request on.
LEMMA JwtMoved ==
  ASSUME Inv, JwtInv, NEW s \in Slot, NEW r,
         req' = [req EXCEPT ![s] = r], UNCHANGED <<clock, users, count, jwts, crossed>>,
         Recent(r, clock), r.uid \notin crossed => Current(r, users, jwts)
  PROVE  JwtInv'
<1>1. req'[s] = r /\ \A t \in Slot \ {s} : req'[t] = req[t]
  BY DEF Inv
<1>2. Timely(users', jwts', Registered', clock') /\ JwtOfCurrentPassword'
  BY DEF JwtInv, Registered, JwtOfCurrentPassword, Accepted
<1>3. ASSUME NEW t \in Slot
      PROVE  /\ Recent(req'[t], clock')
             /\ req'[t].uid \notin crossed' => Current(req'[t], users', jwts')
  BY <1>1 DEF JwtInv
<1> QED BY <1>2, <1>3 DEF JwtInv

\* A request in an early phase has no copy yet.
LEMMA EarlyCurrent ==
  \A r, store, tokens, now :
    r.phase \in {"idle", "find", "authenticate"} => Recent(r, now) /\ Current(r, store, tokens)
BY DEF Recent, Current

\* apply leaves the time of the password alone.
LEMMA AppliedTime ==
  ASSUME NEW user \in User, NEW params
  PROVE  Applied(user, params).changed = user.changed
BY DEF Applied, User

\* A password change notes its time, and that stays.
LEMMA RehashedTime ==
  ASSUME NEW user \in User, NEW params \in Params, Chosen(params), NEW now \in Nat
  PROVE  Applied(Rehashed(user, params, now), params).changed = now
<1>1. Rehashed(user, params, now) \in User /\ Rehashed(user, params, now).changed = now
  BY DEF Rehashed, User, Params, Chosen
<1> QED BY <1>1, AppliedTime

\* A request that comes in, whichever it is.
LEMMA JwtReceived ==
  ASSUME Inv, JwtInv, NEW s \in Slot,
         NEW kind, NEW phase \in {"find", "authenticate"}, NEW params, NEW jwt,
         Receive(s, kind, phase, params, jwt)
  PROVE  JwtInv'
<1> DEFINE r == [Idle EXCEPT !.phase = phase, !.kind = kind, !.params = params, !.jwt = jwt]
<1>1. req' = [req EXCEPT ![s] = r] /\ UNCHANGED <<clock, users, count, jwts, crossed>>
  BY DEF Receive
<1>2. r.phase = phase
  BY DEF Idle
<1> HIDE DEF r
<1>3. Recent(r, clock) /\ Current(r, users, jwts)
  BY <1>2, EarlyCurrent
<1> QED BY <1>1, <1>3, JwtMoved

\* A request comes in with nothing done for it yet.
LEMMA ReceiveForms ==
  ASSUME NEW s \in Slot,
         \/ ReceiveRegister(s) \/ ReceiveLogin(s) \/ ReceiveUpdate(s) \/ ReceivePassword(s)
  PROVE  \/ \E kind, params, jwt : Receive(s, kind, "find", params, jwt)
         \/ \E kind, params, jwt : Receive(s, kind, "authenticate", params, jwt)
<1>1. CASE ReceiveRegister(s)
  <2>1. PICK e \in Email, p \in Password, c \in Cost :
          Receive(s, "register", "find",
            [NoParams EXCEPT !.email = e, !.password = p, !.cost = c], NoJwt)
    BY <1>1 DEF ReceiveRegister
  <2> QED BY <2>1
<1>2. CASE ReceiveLogin(s)
  <2>1. PICK e \in Email, p \in Password :
          Receive(s, "login", "find", [NoParams EXCEPT !.email = e, !.current = p], NoJwt)
    BY <1>2 DEF ReceiveLogin
  <2> QED BY <2>1
<1>3. CASE ReceiveUpdate(s)
  <2>1. PICK t \in jwts, c \in Cost \cup {0} :
          Receive(s, "update", "authenticate", [NoParams EXCEPT !.cost = c], t)
    BY <1>3 DEF ReceiveUpdate
  <2> QED BY <2>1
<1>4. CASE ReceivePassword(s)
  <2>1. PICK t \in jwts, old \in Password, new \in Password,
             e \in Email \cup {""}, c \in Cost \cup {0} :
          Receive(s, "password", "authenticate",
            [email |-> e, current |-> old, password |-> new, cost |-> c], t)
    BY <1>4 DEF ReceivePassword
  <2> DEFINE q == [email |-> e, current |-> old, password |-> new, cost |-> c]
  <2>2. Receive(s, "password", "authenticate", q, t)
    BY <2>1
  <2> HIDE DEF q
  <2>3. \E kind, params, jwt : Receive(s, kind, "authenticate", params, jwt)
    BY <2>2
  <2> QED BY <2>3
<1> QED BY <1>1, <1>2, <1>3, <1>4

\* A request that ends without having changed anything.
LEMMA JwtAnswer ==
  ASSUME Inv, JwtInv, NEW s \in Slot, Answer(s),
         UNCHANGED <<clock, users, count, jwts, crossed>>
  PROVE  JwtInv'
<1>1. Recent(Idle, clock) /\ Current(Idle, users, jwts)
  BY EarlyCurrent DEF Idle
<1> QED BY <1>1, JwtMoved DEF Answer

\* One that reads, or prepares what it will save.
LEMMA JwtReading ==
  ASSUME Inv, JwtInv, NEW s \in Slot,
         FindUserByMail(s) \/ Authenticate(s) \/ Hash(s) \/ Fail(s)
  PROVE  JwtInv'
<1> DEFINE r == req[s]
<1>0. /\ WellFormed(r, Registered) /\ r \in Request /\ r.params \in Params
      /\ \A u \in Registered : users[u] \in User
      /\ Recent(r, clock) /\ (r.uid \notin crossed => Current(r, users, jwts))
      /\ clock \in Nat /\ Timely(users, jwts, Registered, clock)
      /\ UNCHANGED <<clock, users, count, jwts, crossed>>
  BY Phases DEF Inv, JwtInv, FindUserByMail, Authenticate, Hash, Fail
<1> HIDE DEF r
<1>1. CASE Answer(s)
  BY <1>0, <1>1, JwtAnswer
<1>2. CASE FindUserByMail(s) /\ ~Answer(s)
  <2>1. CASE r.kind = "register"
    <3> DEFINE q == [r EXCEPT !.phase = "hash"]
    <3>1. req' = [req EXCEPT ![s] = q]
      BY <1>2, <2>1 DEF FindUserByMail, r
    <3>2. q.phase = "hash" /\ q.kind = "register"
      BY <1>0, <2>1 DEF Request
    <3> HIDE DEF q
    <3>3. Recent(q, clock) /\ Current(q, users, jwts)
      BY <3>2 DEF Recent, Current
    <3> QED BY <1>0, <3>1, <3>3, JwtMoved
  <2>2. CASE r.kind # "register"
    <3>1. PICK u \in Registered :
            req' = [req EXCEPT ![s] = [r EXCEPT !.phase = "sign", !.params = NoParams,
                                 !.uid = u, !.copy = users[u]]]
      BY <1>2, <2>2 DEF FindUserByMail, r
    <3> DEFINE q == [r EXCEPT !.phase = "sign", !.params = NoParams,
                                 !.uid = u, !.copy = users[u]]
    <3>2. q.phase = "sign" /\ q.uid = u /\ q.copy = users[u]
      BY <1>0 DEF Request
    <3>3. req' = [req EXCEPT ![s] = q]
      BY <3>1
    <3> HIDE DEF q
    <3>4. Recent(q, clock) /\ Current(q, users, jwts)
      BY <3>2 DEF Recent, Current
    <3> QED BY <1>0, <3>3, <3>4, JwtMoved
  <2> QED BY <2>1, <2>2
<1>3. CASE Authenticate(s) /\ ~Answer(s)
  <2> DEFINE u == r.jwt.uid
  <2>1. r.phase = "authenticate" /\ u \in Registered
    BY <1>3 DEF Authenticate, Accepted, r
  <2>2. CASE r.kind = "update"
    <3> DEFINE a == Applied(users[u], r.params)
               q == [r EXCEPT !.phase = "save", !.params = NoParams, !.jwt = NoJwt,
                              !.uid = u, !.copy = a]
    <3>1. req' = [req EXCEPT ![s] = q]
      BY <1>3, <2>1, <2>2 DEF Authenticate, r
    <3>2. Agrees(a, u, users)
      BY <1>0, <2>1, AppliedFields, AppliedTime DEF Agrees
    <3> HIDE DEF a, u
    <3>3. q.phase = "save" /\ q.uid = u /\ q.copy = a /\ q.kind = "update"
      BY <1>0, <2>2 DEF Request
    <3> HIDE DEF q
    <3>4. users[u].changed <= clock
      BY <1>0, <2>1 DEF Timely
    <3>5. Recent(q, clock) /\ Current(q, users, jwts)
      BY <3>2, <3>3, <3>4 DEF Recent, Current, Agrees
    <3> QED BY <1>0, <3>1, <3>5, JwtMoved
  <2>3. CASE r.kind # "update"
    <3> DEFINE q == [r EXCEPT !.phase = "hash", !.jwt = NoJwt, !.uid = u, !.copy = users[u]]
    <3>1. req' = [req EXCEPT ![s] = q]
      BY <1>3, <2>1, <2>3 DEF Authenticate, r
    <3> HIDE DEF u
    <3>2. q.phase = "hash" /\ q.uid = u /\ q.copy = users[u]
      BY <1>0 DEF Request
    <3> HIDE DEF q
    <3>3. Recent(q, clock) /\ Current(q, users, jwts)
      BY <3>2 DEF Recent, Current, Agrees
    <3> QED BY <1>0, <3>1, <3>3, JwtMoved
  <2> QED BY <2>2, <2>3
<1>4. CASE Hash(s) /\ ~Answer(s)
  <2>1. CASE r.kind = "register"
    <3> DEFINE a == NewUser(r.params, clock)
               q == [r EXCEPT !.phase = "save", !.params = NoParams, !.copy = a]
    <3>1. req' = [req EXCEPT ![s] = q] /\ r.phase = "hash"
      BY <1>4, <2>1 DEF Hash, r
    <3>2. a.changed = clock /\ r.uid = 0
      BY <1>0, <2>1, <3>1 DEF NewUser, WellFormed
    <3> HIDE DEF a
    <3>3. q.phase = "save" /\ q.uid = r.uid /\ q.copy = a
      BY <1>0 DEF Request
    <3> HIDE DEF q
    <3>4. Recent(q, clock) /\ Current(q, users, jwts)
      BY <1>0, <3>2, <3>3 DEF Recent, Current
    <3> QED BY <1>0, <3>1, <3>4, JwtMoved
  <2>2. CASE r.kind # "register"
    <3> DEFINE a == Applied(Rehashed(r.copy, r.params, clock), r.params)
               q == [r EXCEPT !.phase = "save", !.params = NoParams, !.copy = a]
    <3>1. req' = [req EXCEPT ![s] = q] /\ r.phase = "hash" /\ r.kind = "password"
      BY <1>4, <2>2 DEF Hash, r
    <3>2. Chosen(r.params) /\ r.copy \in User /\ r.uid \in Registered
      BY <1>0, <3>1 DEF WellFormed
    <3>3. a.changed = clock
      BY <1>0, <3>2, RehashedTime
    <3> HIDE DEF a
    <3>4. q.phase = "save" /\ q.uid = r.uid /\ q.copy = a /\ q.kind = "password"
      BY <1>0, <3>1 DEF Request
    <3> HIDE DEF q
    <3>5. Supersedes(a, r.uid, users, jwts)
      BY <1>0, <3>2, <3>3 DEF Supersedes, Timely
    <3>6. Recent(q, clock) /\ Current(q, users, jwts)
      BY <1>0, <3>3, <3>4, <3>5 DEF Recent, Current
    <3> QED BY <1>0, <3>1, <3>6, JwtMoved
  <2> QED BY <2>1, <2>2
<1> QED BY <1>1, <1>2, <1>3, <1>4 DEF Fail

\* What Save does to the records when the address is free.
LEMMA SavedRecord ==
  ASSUME Inv, NEW s \in Slot, Save(s), NEW u,
         u = IF req[s].uid = 0 THEN count + 1 ELSE req[s].uid,
         ~Taken(req[s].copy.email, u)
  PROVE  /\ u \in Uid /\ Registered' = Registered \cup {u}
         /\ req[s].uid = 0 => u \notin Registered
         /\ req[s].uid # 0 => u = req[s].uid
         /\ users'[u] = req[s].copy /\ \A v \in Registered \ {u} : users'[v] = users[v]
<1>1. /\ req[s].phase = "save" /\ u <= MaxUsers
      /\ users' = [users EXCEPT ![u] = req[s].copy]
      /\ count' = IF req[s].uid = 0 THEN u ELSE count
  BY DEF Save
<1>2. /\ req[s].uid \in Registered \cup {0}
      /\ count \in Nat /\ MaxUsers \in Nat /\ count <= MaxUsers /\ Registered \subseteq Uid
  BY <1>1, Phases, Counting DEF WellFormed, Inv
<1> DEFINE id == req[s].uid
<1>3. /\ id \in Registered \cup {0} /\ u = IF id = 0 THEN count + 1 ELSE id
      /\ count' = IF id = 0 THEN u ELSE count
  BY <1>1, <1>2
<1> HIDE DEF id
<1>4. CASE id = 0
  <2>1. u = count + 1 /\ count' = count + 1
    BY <1>3, <1>4
  <2> QED BY <1>1, <1>2, <1>4, <2>1 DEF Registered, Uid, Inv, id
<1>5. CASE id # 0
  <2>1. u = id /\ u \in Registered /\ count' = count
    BY <1>3, <1>5
  <2> QED BY <1>1, <1>2, <1>5, <2>1 DEF Registered, Inv, id
<1> QED BY <1>4, <1>5

\* A save leaves current what other requests work on, unless it crosses them.
LEMMA SavedCurrent ==
  ASSUME Inv, JwtInv, NEW s \in Slot, Save(s), NEW u,
         u = IF req[s].uid = 0 THEN count + 1 ELSE req[s].uid,
         ~Taken(req[s].copy.email, u), NEW t \in Slot \ {s}, req[t].uid \notin crossed'
  PROVE  Current(req[t], users', jwts)
<1> DEFINE v == req[t].uid
           copy == req[s].copy
<1>1. /\ v \notin crossed => Current(req[t], users, jwts)
      /\ v # u => v \notin crossed
      /\ crossed' = IF req[s].kind = "password" /\ Copies(s, u) # {} THEN crossed \cup {u}
                    ELSE IF req[s].kind = "password" /\ Settles(s, u) THEN crossed \ {u}
                    ELSE crossed
      /\ req[s].phase = "save"
  BY DEF Save, JwtInv
<1>2. /\ req[s].uid = 0 => u \notin Registered
      /\ req[s].uid # 0 => u = req[s].uid
      /\ users'[u] = copy /\ \A w \in Registered \ {u} : users'[w] = users[w]
  BY SavedRecord
<1>3. /\ req[t].phase = "hash" /\ req[t].kind = "password" => v \in Registered
      /\ req[t].phase = "save" => v \in Registered \cup {0}
      /\ req[t].phase = "sign" => v \in Registered
  BY Phases DEF WellFormed
<1> HIDE DEF v, copy
<1>4. CASE v # u
  BY <1>1, <1>2, <1>3, <1>4 DEF Current, Agrees, Supersedes, v
<1>5. CASE v = u /\ req[t].phase \in {"hash", "save", "sign"} /\ v \in Registered
  <2>1. t \in Copies(s, u)
    BY <1>5 DEF Copies, v
  <2>2. /\ req[s].kind # "password" /\ req[s].uid = u /\ u # 0
        /\ v \notin crossed /\ Current(req[t], users, jwts)
    BY <1>1, <1>2, <1>5, <2>1 DEF Registered, v
  <2>3. Current(req[s], users, jwts)
    BY <1>1, <1>5, <2>2 DEF JwtInv
  <2>4. Agrees(copy, u, users)
    BY <1>1, <2>2, <2>3 DEF Current, copy
  <2> QED BY <1>2, <1>5, <2>2, <2>4 DEF Current, Agrees, Supersedes, v
<1>6. CASE v = u /\ (req[t].phase \notin {"hash", "save", "sign"} \/ v \notin Registered)
  <2>1. req[t].phase = "save" => v = 0
    BY <1>3, <1>6
  <2> QED BY <1>3, <1>6, <2>1 DEF Current, v
<1> QED BY <1>4, <1>5, <1>6

\* A save refuses for ever what it refuses, and leaves accepted what was issued
\* for the password it saves, or in the second of its change.
LEMMA JwtSave ==
  ASSUME Inv, JwtInv, NEW s \in Slot, Save(s)
  PROVE  /\ JwtInv'
         /\ \A t \in jwts : Accepted(t)' /\ t.uid \notin crossed => Accepted(t)
<1> DEFINE u == IF req[s].uid = 0 THEN count + 1 ELSE req[s].uid
           copy == req[s].copy
<1>0. /\ req[s].phase = "save" /\ UNCHANGED <<clock, jwts>>
      /\ Timely(users, jwts, Registered, clock) /\ JwtOfCurrentPassword
      /\ WellFormed(req[s], Registered) /\ Recent(req[s], clock)
      /\ req[s].uid \notin crossed => Current(req[s], users, jwts)
      /\ \A t \in jwts : t \in Jwt /\ t.iat \in Nat
      /\ \A v \in Registered : users[v] \in User /\ users[v].changed \in Nat
      /\ crossed \subseteq Registered /\ 0 \notin Registered
  BY Phases DEF Save, JwtInv, Inv, User, Jwt, Registered
<1>1. CASE Taken(copy.email, u)
  <2>1. Answer(s) /\ UNCHANGED <<users, count, crossed>>
    BY <1>1 DEF Save
  <2>2. JwtInv'
    BY <1>0, <2>1, JwtAnswer
  <2> QED BY <1>0, <2>1, <2>2 DEF Accepted, Registered
<1>2. CASE ~Taken(copy.email, u)
  <2> DEFINE q == [req[s] EXCEPT !.phase = "sign", !.uid = u]
  <2>1. /\ req' = [req EXCEPT ![s] = q]
        /\ \A v : v \in crossed /\ v \notin crossed' => v = u /\ Settles(s, u)
    BY <1>2 DEF Save
  <2> HIDE DEF u
  <2>2. q.phase = "sign" /\ q.uid = u /\ q.copy = copy
    BY Phases DEF Request
  <2>3. req'[s] = q /\ \A t \in Slot \ {s} : req'[t] = req[t]
    BY <2>1 DEF Inv
  <2>4. /\ u \in Uid /\ Registered' = Registered \cup {u}
        /\ req[s].uid = 0 => u \notin Registered
        /\ req[s].uid # 0 => u = req[s].uid
        /\ users'[u] = copy /\ \A v \in Registered \ {u} : users'[v] = users[v]
    BY <1>2, SavedRecord DEF u
  <2>5. copy.changed \in Nat /\ copy.changed <= clock
    BY <1>0 DEF WellFormed, Recent, User
  <2>6. (u \in Registered /\ u \notin crossed) =>
          Agrees(copy, u, users) \/ Supersedes(copy, u, users, jwts)
    BY <1>0, <2>4 DEF Current
  <2>7. \A t \in Slot \ {s} : req[t].uid \notin crossed' => Current(req[t], users', jwts)
    BY <1>2, SavedCurrent DEF u
  <2> HIDE DEF q, copy
  <2>8. Recent(q, clock) /\ Current(q, users', jwts')
    BY <2>2, <2>4 DEF Recent, Current
  <2>9. Timely(users', jwts', Registered', clock')
    BY <1>0, <2>4, <2>5 DEF Timely
  <2>10. ASSUME NEW t \in jwts, Accepted(t)', t.uid \notin crossed
         PROVE  /\ Accepted(t)
                /\ t.secret = users'[t.uid].password \/ t.iat = users'[t.uid].changed
    <3>1. /\ t.uid \in Registered /\ t.iat >= users'[t.uid].changed /\ t.iat \in Nat
          /\ users[t.uid].changed \in Nat
          /\ Accepted(t) => \/ t.secret = users[t.uid].password
                            \/ t.iat = users[t.uid].changed
      BY <1>0, <2>10 DEF Timely, Accepted, JwtOfCurrentPassword
    <3>2. CASE t.uid # u
      <4>1. users'[t.uid] = users[t.uid]
        BY <2>4, <3>1, <3>2
      <4> QED BY <3>1, <4>1 DEF Accepted
    <3>3. CASE t.uid = u
      <4>1. /\ t.iat >= copy.changed /\ users'[t.uid] = copy
            /\ Agrees(copy, u, users) \/ Supersedes(copy, u, users, jwts)
        BY <2>4, <2>6, <2>10, <3>1, <3>3
      <4>2. t.iat >= users[u].changed
        BY <2>5, <3>1, <3>3, <4>1 DEF Agrees, Supersedes
      <4>3. Accepted(t)
        BY <3>1, <3>3, <4>2 DEF Accepted
      <4>4. Agrees(copy, u, users) \/ t.iat = copy.changed
        BY <2>5, <3>1, <3>3, <4>1 DEF Supersedes
      <4> QED BY <3>1, <3>3, <4>1, <4>3, <4>4 DEF Agrees
    <3> QED BY <3>2, <3>3
  <2>11. JwtOfCurrentPassword'
    <3>1. ASSUME NEW t \in jwts, Accepted(t)', t.uid \in crossed, t.uid \notin crossed'
          PROVE  t.iat = users'[t.uid].changed
      <4>1. /\ t.uid = u /\ t.iat <= copy.changed /\ users'[t.uid] = copy
            /\ t.iat \in Nat /\ t.iat >= users'[t.uid].changed
        BY <1>0, <2>1, <2>4, <3>1 DEF Settles, Accepted, copy
      <4> QED BY <2>5, <4>1
    <3> QED BY <1>0, <2>10, <3>1 DEF JwtOfCurrentPassword
  <2>12. JwtInv'
    <3>1. ASSUME NEW t \in Slot
          PROVE  /\ Recent(req'[t], clock')
                 /\ req'[t].uid \notin crossed' => Current(req'[t], users', jwts')
      BY <1>0, <2>3, <2>7, <2>8 DEF JwtInv
    <3> QED BY <2>9, <2>11, <3>1 DEF JwtInv
  <2> QED BY <2>10, <2>12
<1> QED BY <1>1, <1>2

\* A JWT is issued for the password stored, unless a change is about to be saved.
LEMMA JwtSign ==
  ASSUME Inv, JwtInv, NEW s \in Slot, Sign(s)
  PROVE  JwtInv'
<1> DEFINE u == req[s].uid
           new == [uid |-> u, iat |-> clock, secret |-> req[s].copy.password]
<1>1. /\ req[s].phase = "sign" /\ jwts' = jwts \cup {new}
      /\ req' = [req EXCEPT ![s] = Idle] /\ UNCHANGED <<clock, users, count>>
      /\ crossed' = IF Changes(s, u) # {} THEN crossed \cup {u} ELSE crossed
  BY DEF Sign, Answer
<1>2. /\ new.uid = u /\ new.iat = clock /\ new.secret = req[s].copy.password
      /\ u \in Registered /\ clock \in Nat
      /\ u \notin crossed => req[s].copy.password = users[u].password
  BY <1>1, Phases DEF WellFormed, JwtInv, Current, Inv
<1>3. req'[s] = Idle /\ \A t \in Slot \ {s} : req'[t] = req[t]
  BY <1>1 DEF Inv
<1>4. ASSUME NEW t \in Slot \ {s}, req[t].uid \notin crossed'
      PROVE  Current(req[t], users, jwts')
  <2>1. Current(req[t], users, jwts)
    BY <1>1, <1>4 DEF JwtInv
  <2>2. req[t].uid = u => ~(req[t].phase = "save" /\ req[t].kind = "password")
    BY <1>1, <1>4 DEF Changes, Copies
  <2> HIDE DEF new
  <2> QED BY <1>1, <1>2, <2>1, <2>2 DEF Current, Supersedes
<1> HIDE DEF new, u
<1>5. Timely(users', jwts', Registered', clock')
  BY <1>1, <1>2 DEF JwtInv, Timely, Registered
<1>6. JwtOfCurrentPassword'
  BY <1>1, <1>2 DEF JwtInv, JwtOfCurrentPassword, Accepted, Registered
<1>7. ASSUME NEW t \in Slot
      PROVE  /\ Recent(req'[t], clock')
             /\ req'[t].uid \notin crossed' => Current(req'[t], users', jwts')
  <2>1. Recent(Idle, clock') /\ Current(Idle, users', jwts')
    BY EarlyCurrent DEF Idle
  <2> QED BY <1>1, <1>3, <1>4, <2>1 DEF JwtInv
<1> QED BY <1>5, <1>6, <1>7 DEF JwtInv

\* Every step keeps all this, and refuses for ever what it refuses.
LEMMA JwtStep ==
  ASSUME Inv, JwtInv, [Next]_vars
  PROVE  /\ JwtInv'
         /\ \A t \in jwts : Accepted(t)' /\ t.uid \notin crossed => Accepted(t)
<1>1. ASSUME UNCHANGED <<users, count>>, JwtInv'
      PROVE  JwtInv' /\ \A t \in jwts : Accepted(t)' /\ t.uid \notin crossed => Accepted(t)
  BY <1>1 DEF Accepted, Registered
<1>2. CASE UNCHANGED vars
  <2>1. JwtInv'
    BY <1>2 DEF vars, JwtInv, Registered, JwtOfCurrentPassword, Accepted
  <2> QED BY <1>1, <1>2, <2>1 DEF vars
<1>3. CASE Tick
  <2>1. clock \in Nat /\ clock' = clock + 1 /\ UNCHANGED <<users, count, req, jwts, crossed>>
    BY <1>3 DEF Tick, Inv
  <2>2. \A n \in Nat : n <= clock => n <= clock'
    BY <2>1
  <2>3. /\ \A t \in jwts : t.iat \in Nat
        /\ \A v \in Registered : users[v].changed \in Nat
        /\ \A s \in Slot : req[s].phase = "save" => req[s].copy.changed \in Nat
    BY Phases DEF Inv, User, Jwt, WellFormed
  <2>4. Timely(users', jwts', Registered', clock')
    BY <2>1, <2>2, <2>3 DEF JwtInv, Timely, Registered
  <2>5. \A s \in Slot : Recent(req[s], clock')
    BY <2>2, <2>3 DEF JwtInv, Recent
  <2>6. JwtOfCurrentPassword'
    BY <2>1 DEF JwtInv, JwtOfCurrentPassword, Accepted, Registered
  <2>7. JwtInv'
    BY <2>1, <2>4, <2>5, <2>6 DEF JwtInv
  <2> QED BY <1>1, <2>1, <2>7
<1>4. CASE Crash
  <2>1. req' = [s \in Slot |-> Idle] /\ UNCHANGED <<clock, users, count, jwts, crossed>>
    BY <1>4 DEF Crash
  <2>2. \A s \in Slot : req'[s] = Idle /\ Recent(Idle, clock) /\ Current(Idle, users, jwts)
    BY <2>1, EarlyCurrent DEF Idle
  <2>3. JwtInv'
    BY <2>1, <2>2 DEF JwtInv, JwtOfCurrentPassword, Accepted, Registered
  <2> QED BY <1>1, <2>1, <2>3
<1>5. ASSUME NEW s \in Slot,
             \/ ReceiveRegister(s) \/ ReceiveLogin(s) \/ ReceiveUpdate(s) \/ ReceivePassword(s)
             \/ FindUserByMail(s) \/ Authenticate(s) \/ Hash(s) \/ Sign(s) \/ Fail(s)
      PROVE  JwtInv' /\ \A t \in jwts : Accepted(t)' /\ t.uid \notin crossed => Accepted(t)
  <2>1. UNCHANGED <<users, count>>
    BY <1>5
    DEF ReceiveRegister, ReceiveLogin, ReceiveUpdate, ReceivePassword, Receive,
        FindUserByMail, Authenticate, Hash, Sign, Fail
  <2>2. JwtInv'
    BY <1>5, ReceiveForms, JwtReceived, JwtReading, JwtSign
  <2> QED BY <1>1, <2>1, <2>2
<1> QED BY <1>2, <1>3, <1>4, <1>5, JwtSave DEF Next

\* It all holds at the start.
LEMMA JwtStart == Init => JwtInv
<1> SUFFICES ASSUME Init PROVE JwtInv
  OBVIOUS
<1>1. Registered = {} /\ jwts = {}
  BY DEF Init, Registered
<1>2. \A s \in Slot : req[s] = Idle /\ Recent(Idle, clock) /\ Current(Idle, users, jwts)
  BY EarlyCurrent DEF Init, Idle
<1> QED BY <1>1, <1>2 DEF JwtInv, Timely, JwtOfCurrentPassword

\* In any interleaving, and whatever fails, a JWT that is accepted was issued for the
\* current password or in the second of its change, unless another request of that
\* user crossed a change of password and none has changed it uncrossed since.
THEOREM AcceptedJwtIsCurrent == Spec => []JwtOfCurrentPassword
<1>1. Inv /\ JwtInv /\ [Next]_vars => JwtInv'
  BY JwtStep
<1>2. JwtInv => JwtOfCurrentPassword
  BY DEF JwtInv
<1> QED BY <1>1, <1>2, JwtStart, TypeCorrect, PTL DEF Spec

\* Nor does one come back that was refused.
THEOREM RevokedJwtStays == Spec => RevokedStaysRevoked
<1>1. Inv /\ JwtInv /\ [Next]_vars => JwtInv'
  BY JwtStep
<1>2. Inv /\ JwtInv /\ [Next]_vars =>
        [\A t \in jwts : ~Accepted(t) /\ t.uid \notin crossed => ~Accepted(t)']_vars
  BY JwtStep
<1> QED BY <1>1, <1>2, JwtStart, TypeCorrect, PTL DEF Spec, RevokedStaysRevoked

-----------------------------------------------------------------------------
(* Where one request follows the other.                                    *)

OneAtATime ==
  \A s, t \in Slot : s = t \/ req[s].phase = "idle" \/ req[t].phase = "idle"

Uncrossed == OneAtATime /\ crossed = {}

\* A request at work is the only one, and has no other to cross.
LEMMA UncrossedStep ==
  ASSUME ~Overlap, Inv, Uncrossed, [Next]_vars
  PROVE  Uncrossed'
<1>1. ASSUME NEW s \in Slot, \A t \in Slot \ {s} : req'[t] = req[t],
             req[s].phase # "idle" \/ \A t \in Slot : req[t].phase = "idle",
             crossed' = {}
      PROVE  Uncrossed'
  BY <1>1 DEF Uncrossed, OneAtATime
<1>2. ASSUME NEW s \in Slot, NEW kind, NEW phase, NEW params, NEW jwt,
             Receive(s, kind, phase, params, jwt)
      PROVE  Uncrossed'
  BY <1>1, <1>2 DEF Receive, Inv, Uncrossed
<1>3. ASSUME NEW s \in Slot, FindUserByMail(s) \/ Authenticate(s) \/ Hash(s) \/ Fail(s)
      PROVE  Uncrossed'
  <2>1. /\ req[s].phase # "idle" /\ crossed' = crossed
        /\ \E r : req' = [req EXCEPT ![s] = r]
    BY <1>3 DEF FindUserByMail, Authenticate, Hash, Fail, Answer
  <2> QED BY <1>1, <2>1 DEF Inv, Uncrossed
<1>4. ASSUME NEW s \in Slot, Save(s) \/ Sign(s)
      PROVE  Uncrossed'
  <2>1. /\ req[s].phase # "idle" /\ \E r : req' = [req EXCEPT ![s] = r]
        /\ crossed' \subseteq crossed \/ \E u : Copies(s, u) # {} \/ Changes(s, u) # {}
    BY <1>4 DEF Save, Sign, Answer
  <2>2. \A u : Copies(s, u) = {} /\ Changes(s, u) = {}
    BY <2>1 DEF Copies, Changes, Uncrossed, OneAtATime
  <2> QED BY <1>1, <2>1, <2>2 DEF Inv, Uncrossed
<1>5. CASE Crash
  BY <1>5 DEF Crash, Uncrossed, OneAtATime, Idle
<1>6. CASE Tick \/ UNCHANGED vars
  BY <1>6 DEF Tick, vars, Uncrossed, OneAtATime
<1> QED BY <1>2, <1>3, <1>4, <1>5, <1>6, ReceiveForms DEF Next

\* With one request after the other nothing is crossed: the exceptions above take
\* two requests of a user that overlap.
THEOREM NothingCrossed == ASSUME ~Overlap PROVE Spec => [](crossed = {})
<1>1. Init => Uncrossed
  BY DEF Init, Uncrossed, OneAtATime, Idle
<1>2. Inv /\ Uncrossed /\ [Next]_vars => Uncrossed'
  BY UncrossedStep
<1>3. Uncrossed => crossed = {}
  BY DEF Uncrossed
<1> QED BY <1>1, <1>2, <1>3, TypeCorrect, PTL DEF Spec

=============================================================================

------------------------------ MODULE Accounts ------------------------------
(***************************************************************************)
(* The user records and the JWTs of the API versions before sessions:      *)
(* registration, login, the update of a user and of its password.  A       *)
(* request works on the copy of the record that FindUserByMail or the      *)
(* middleware gave it and saves the whole copy; other requests run between *)
(* its calls of the database and while it hashes a password.               *)
(*                                                                         *)
(* Time is counted in seconds, as in iat and PasswordUpdatedAt.  A         *)
(* password stands for itself and for its hash.  Of the fields clients may *)
(* send with either update (pw_cost, pw_nonce, pw_salt, version), all      *)
(* optional and applied one by one, one stands for them.                   *)
(***************************************************************************)
EXTENDS Integers, FiniteSets

CONSTANTS
  Email,     \* addresses
  Password,  \* passwords
  Cost,      \* values of pw_cost, standing for all apply() sets
  Slot,      \* requests the server handles at a time
  Overlap,   \* whether requests may overlap
  Faulty,    \* whether database calls fail and the server crashes
  MaxUsers,  \* bound of a run: users registered in all
  MaxJwts,   \* bound of a run: no request is sent once so many were issued
  MaxClock   \* bound of a run: the clock stops there

ASSUME ParameterAssumption ==
  Cost \subseteq Nat \ {0} /\ "" \notin Email \cup Password

ASSUME BoundAssumption ==
  /\ MaxUsers \in Nat /\ MaxJwts \in Nat /\ MaxClock \in Nat
  /\ {Overlap, Faulty} \subseteq BOOLEAN

VARIABLES
  clock,  \* the server's wall clock, in seconds
  users,  \* users[u]: the stored record of user u
  count,  \* how many users are registered
  req,    \* req[s]: the request in progress
  jwts,   \* the JWTs issued
  crossed \* users whose password was changed while another request worked on a
          \* copy of the record, or was issued a JWT before the change was saved,
          \* and not since without any of this

vars == <<clock, users, count, req, jwts, crossed>>

Uid == 1 .. MaxUsers

\* changed: PasswordUpdatedAt.
User == [email : Email, password : Password, cost : Cost, changed : Nat]
NoUser == [email |-> "", password |-> "", cost |-> 0, changed |-> 0]

\* secret is not in the token: the password of the record it was issued for.
Jwt == [uid : Uid, iat : Nat, secret : Password]
NoJwt == [uid |-> 0, iat |-> 0, secret |-> ""]

\* What the client sends; "" and 0 stand for a parameter left out.
Params == [email : Email \cup {""}, current : Password \cup {""},
           password : Password \cup {""}, cost : Cost \cup {0}]

NoParams == [email |-> "", current |-> "", password |-> "", cost |-> 0]

Kind == {"none", "register", "login", "update", "password"}

Phase == {"idle", "find", "authenticate", "hash", "save", "sign"}

\* uid and copy: the record the request works on, 0 when it is not stored yet.
\* What is not looked at any more is forgotten.
Request == [phase : Phase, kind : Kind, params : Params, jwt : Jwt \cup {NoJwt},
            uid : Uid \cup {0}, copy : User \cup {NoUser}]

Idle == [phase |-> "idle", kind |-> "none", params |-> NoParams, jwt |-> NoJwt,
         uid |-> 0, copy |-> NoUser]

-----------------------------------------------------------------------------
(* The decisions of the service.                                           *)

Registered == 1 .. count

\* Variants a mistake in the code would give, for showing that the properties
\* below depend on it; no specification uses them.
NeverTaken(email, u) == FALSE

AppliedUnasked(user, params) == [user EXCEPT !.cost = params.cost]

AppliedForgettingTime(user, params) ==
  [user EXCEPT !.cost = IF params.cost > 0 THEN params.cost ELSE user.cost,
               !.changed = IF params.password = "" THEN 0 ELSE user.changed]

RehashedOnly(user, params, now) ==
  [user EXCEPT !.password = params.password,
               !.email = IF params.email # "" THEN params.email ELSE user.email]

\* The unique index on the e-mail address of users.
Taken(email, u) == \E v \in Registered \ {u} : users[v].email = email

\* JWT: the token is refused when it is older than the password.
Accepted(t) == t.uid \in Registered /\ t.iat >= users[t.uid].changed

\* apply: the parameters given, no others.
Applied(user, params) ==
  [user EXCEPT !.cost = IF params.cost > 0 THEN params.cost ELSE user.cost]

\* password(): the new password, and the new address if there is one.
Rehashed(user, params, now) ==
  [user EXCEPT !.password = params.password, !.changed = now,
               !.email = IF params.email # "" THEN params.email ELSE user.email]

\* register(): the record to be stored.
NewUser(params, now) ==
  [email |-> params.email, password |-> params.password,
   cost |-> params.cost, changed |-> now]

-----------------------------------------------------------------------------

Init ==
  /\ clock = 1
  /\ users = [u \in Uid |-> NoUser]
  /\ count = 0
  /\ req = [s \in Slot |-> Idle]
  /\ jwts = {} /\ crossed = {}

Answer(s) == req' = [req EXCEPT ![s] = Idle]

\* Requests other than s that work on a copy of the record of user u; and those
\* about to save a new password for it, whose time they have noted.
Copies(s, u) == {t \in Slot \ {s} : req[t].uid = u /\ req[t].phase \in {"hash", "save", "sign"}}

Changes(s, u) == {t \in Copies(s, u) : req[t].phase = "save" /\ req[t].kind = "password"}

\* A change of u's password by request s that nothing crosses, and none of whose
\* JWTs is later, leaves no trace of those before it.
Settles(s, u) ==
  /\ Copies(s, u) = {}
  /\ \A t \in jwts : t.uid = u => t.iat <= req[s].copy.changed

\* A request comes in; only the middleware reads its JWT.
Receive(s, kind, phase, params, jwt) ==
  /\ req[s].phase = "idle"
  /\ Overlap \/ \A t \in Slot : req[t].phase = "idle"
  /\ Cardinality(jwts) < MaxJwts
  /\ req' = [req EXCEPT ![s] = [Idle EXCEPT !.phase = phase, !.kind = kind,
                                            !.params = params, !.jwt = jwt]]
  /\ UNCHANGED <<clock, users, count, jwts, crossed>>

ReceiveRegister(s) ==
  \E e \in Email, p \in Password, c \in Cost :
    Receive(s, "register", "find",
            [NoParams EXCEPT !.email = e, !.password = p, !.cost = c], NoJwt)

ReceiveLogin(s) ==
  \E e \in Email, p \in Password :
    Receive(s, "login", "find", [NoParams EXCEPT !.email = e, !.current = p], NoJwt)

ReceiveUpdate(s) ==
  \E t \in jwts, c \in Cost \cup {0} :
    Receive(s, "update", "authenticate", [NoParams EXCEPT !.cost = c], t)

ReceivePassword(s) ==
  \E t \in jwts, old \in Password, new \in Password,
     e \in Email \cup {""}, c \in Cost \cup {0} :
    Receive(s, "password", "authenticate",
            [email |-> e, current |-> old, password |-> new, cost |-> c], t)

\* register() and login() look the address up; login() compares the password.
FindUserByMail(s) ==
  LET r == req[s]
      found == {u \in Registered : users[u].email = r.params.email}
  IN /\ r.phase = "find"
     /\ \/ /\ r.kind = "register" /\ found = {}
           /\ req' = [req EXCEPT ![s] = [r EXCEPT !.phase = "hash"]]
        \/ /\ r.kind = "register" /\ found # {}
           /\ Answer(s)
        \/ /\ r.kind = "login" /\ \A u \in found : users[u].password # r.params.current
           /\ Answer(s)
        \/ /\ r.kind = "login"
           /\ \E u \in found :
                /\ users[u].password = r.params.current
                /\ req' = [req EXCEPT ![s] =
                     [r EXCEPT !.phase = "sign", !.params = NoParams,
                               !.uid = u, !.copy = users[u]]]
     /\ UNCHANGED <<clock, users, count, jwts, crossed>>

\* The middleware reads the user of the JWT; update() applies its parameters.
Authenticate(s) ==
  LET r == req[s]
      u == r.jwt.uid
  IN /\ r.phase = "authenticate"
     /\ IF Accepted(r.jwt)
        THEN req' = [req EXCEPT ![s] =
               IF r.kind = "update"
               THEN [r EXCEPT !.phase = "save", !.params = NoParams, !.jwt = NoJwt,
                              !.uid = u, !.copy = Applied(users[u], r.params)]
               ELSE [r EXCEPT !.phase = "hash", !.jwt = NoJwt, !.uid = u, !.copy = users[u]]]
        ELSE Answer(s)
     /\ UNCHANGED <<clock, users, count, jwts, crossed>>

\* register() and password() hash the new password and note the time; the
\* current password is compared with the copy.
Hash(s) ==
  LET r == req[s]
  IN /\ r.phase = "hash"
     /\ \/ /\ r.kind = "register"
           /\ req' = [req EXCEPT ![s] =
                [r EXCEPT !.phase = "save", !.params = NoParams,
                          !.copy = NewUser(r.params, clock)]]
        \/ /\ r.kind = "password" /\ r.copy.password = r.params.current
           /\ req' = [req EXCEPT ![s] =
                [r EXCEPT !.phase = "save", !.params = NoParams,
                          !.copy = Applied(Rehashed(r.copy, r.params, clock), r.params)]]
        \/ /\ r.kind = "password" /\ r.copy.password # r.params.current
           /\ Answer(s)
     /\ UNCHANGED <<clock, users, count, jwts, crossed>>

\* Save writes the copy, unless the address is another user's.
Save(s) ==
  LET r == req[s]
      u == IF r.uid = 0 THEN count + 1 ELSE r.uid
  IN /\ r.phase = "save"
     /\ u <= MaxUsers
     /\ IF Taken(r.copy.email, u)
        THEN Answer(s) /\ UNCHANGED <<users, count, crossed>>
        ELSE /\ users' = [users EXCEPT ![u] = r.copy]
             /\ count' = IF r.uid = 0 THEN u ELSE count
             /\ crossed' = IF r.kind = "password" /\ Copies(s, u) # {} THEN crossed \cup {u}
                           ELSE IF r.kind = "password" /\ Settles(s, u) THEN crossed \ {u}
                           ELSE crossed
             /\ req' = [req EXCEPT ![s] = [r EXCEPT !.phase = "sign", !.uid = u]]
     /\ UNCHANGED <<clock, jwts>>

\* SuccessfulAuthentication: CreateJWT, and the response.
Sign(s) ==
  LET r == req[s]
  IN /\ r.phase = "sign"
     /\ jwts' = jwts \cup {[uid |-> r.uid, iat |-> clock, secret |-> r.copy.password]}
     /\ crossed' = IF Changes(s, r.uid) # {} THEN crossed \cup {r.uid} ELSE crossed
     /\ Answer(s)
     /\ UNCHANGED <<clock, users, count>>

\* A database call fails, and the request with it.
Fail(s) ==
  /\ Faulty /\ req[s].phase # "idle"
  /\ Answer(s)
  /\ UNCHANGED <<clock, users, count, jwts, crossed>>

\* The server stops: every request in progress is gone.
Crash ==
  /\ Faulty
  /\ req' = [s \in Slot |-> Idle]
  /\ UNCHANGED <<clock, users, count, jwts, crossed>>

Tick ==
  /\ clock < MaxClock
  /\ clock' = clock + 1
  /\ UNCHANGED <<users, count, req, jwts, crossed>>

Next ==
  \/ \E s \in Slot :
       \/ ReceiveRegister(s) \/ ReceiveLogin(s) \/ ReceiveUpdate(s) \/ ReceivePassword(s)
       \/ FindUserByMail(s) \/ Authenticate(s) \/ Hash(s) \/ Save(s) \/ Sign(s) \/ Fail(s)
  \/ Crash \/ Tick

Spec == Init /\ [][Next]_vars

-----------------------------------------------------------------------------
(* Properties.                                                             *)

\* Every variable keeps the shape its comment gives it.
TypeOK ==
  /\ clock \in Nat /\ count \in 0 .. MaxUsers
  /\ users \in [Uid -> User \cup {NoUser}]
  /\ req \in [Slot -> Request]
  /\ jwts \subseteq Jwt /\ crossed \subseteq Uid

\* No two users have the same address: of two registrations that both found it
\* free, or a registration and a change of address, Save refuses the second.
EmailsUnique ==
  \A u, v \in Registered : u # v => users[u].email # users[v].email

\* An accepted JWT was issued for the current password or, both being counted
\* in seconds, in the second of its last change (JWT, CreateJWT, password); unless
\* a request that copied the record before crossed a change: its Save brings the
\* old password and time back, its CreateJWT is for the old password.  The next
\* change that nothing crosses puts an end to that: whatever a login that had
\* looked the user up before was issued is refused from then on.
JwtOfCurrentPassword ==
  \A t \in jwts :
    Accepted(t) /\ t.uid \notin crossed =>
      t.secret = users[t.uid].password \/ t.iat = users[t.uid].changed

\* A JWT once refused is refused for ever, with the same exception: where the
\* record was put back, what it let in again is out after the next such change.
RevokedStaysRevoked ==
  [][\A t \in jwts : ~Accepted(t) /\ t.uid \notin crossed => ~Accepted(t)']_vars

=============================================================================

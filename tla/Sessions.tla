------------------------------ MODULE Sessions ------------------------------
(***************************************************************************)
(* The sessions of one account: sign-in, the checks of the Session         *)
(* middleware, refresh, logout, the termination of sessions, and updates   *)
(* of the user, which hand out the current session again.  Each call       *)
(* of the database is atomic and the requests in progress interleave       *)
(* between the calls.  An access token and the refresh token drawn with it *)
(* are one number, which the server never draws twice; sessions are        *)
(* numbered in the order of their creation, 0 being none.                  *)
(*                                                                         *)
(* A client may have several requests in progress (Parallel), whose        *)
(* responses arrive in any order; it gives up waiting for one without the  *)
(* server noticing.                                                        *)
(***************************************************************************)
EXTENDS Integers, FiniteSets, FiniteSetsExt

CONSTANTS
  Device,       \* clients of the account
  Slot,         \* requests the server handles at a time
  AccessLife,   \* accessTokenExpirationTime
  RefreshLife,  \* refreshTokenExpirationTime
  Overlap,      \* whether requests may overlap
  Parallel,     \* whether also those of one client may
  Lossy,        \* whether responses are lost and the server stops
  Faulty,       \* whether database calls fail
  Jwt,          \* whether clients also hold a JWT of an older API version
  MaxSessions,  \* bound of a run: sessions created in all
  MaxSignIns,   \* bound of a run: no client signs in once so many sessions were
                \* created or are being created
  MaxToken,     \* bound of a run: no token is asked for from there on
  MaxClock      \* bound of a run: the clock stops there

ASSUME SessionAssumption ==
  /\ {AccessLife, RefreshLife, MaxSessions, MaxSignIns, MaxToken, MaxClock} \subseteq Nat
  /\ {Overlap, Parallel, Lossy, Faulty, Jwt} \subseteq BOOLEAN

VARIABLES
  clock,     \* the server's wall clock
  sessions,  \* sessions[i]: the stored session i
  opened,    \* how many sessions were created
  drawn,     \* how many tokens were drawn
  req,       \* req[s]: the request in progress
  held,      \* held[d]: the session and the tokens device d goes by
  doubt,     \* doubt[d]: whether d has reasons to doubt held[d]: it gave up a
             \* refresh, two refreshes of its session met, or an update handed it
             \* tokens again when it no longer held them
  ended,     \* sessions a client was told are terminated
  mishaps    \* what went wrong so far: a session was ended while its "refresh", or
             \* a "termination" it asked for, was between two calls of the database;
             \* a failing "logout" passed for a success

vars == <<clock, sessions, opened, drawn, req, held, doubt, ended, mishaps>>

Sid == 1 .. MaxSessions

\* A stored session; token 0 is that of no session.
Session == [token : Nat, expire : Nat]
None == [token |-> 0, expire |-> 0]

Pair == [sid : Nat, token : Nat]
NoPair == [sid |-> 0, token |-> 0]

Kind == {"none", "signin", "refresh", "list", "delete", "deleteAll", "logout", "update"}

Phase == {"idle", "validate", "identify", "handle", "remove", "sweep", "create",
          "find", "renew", "respond", "panicked"}

\* The session a request is authenticated with (0 with a JWT) or refreshes, and
\* its tokens; target and told: the session to delete, those the client will
\* hold for terminated; todo: what is left of FindSessionsByUserID; expire:
\* read by FindSessionByTokens; met: whether two refreshes found the session
\* before either was answered; grant: the pair in the response.
Request == [phase : Phase, kind : Kind, device : Device \cup {"nobody"},
            awaited : BOOLEAN, sid : Nat, token : Nat, target : Nat,
            todo : SUBSET Nat, told : SUBSET Nat, expire : Nat,
            met : BOOLEAN, grant : Pair]

Idle == [phase |-> "idle", kind |-> "none", device |-> "nobody",
         awaited |-> FALSE, sid |-> 0, token |-> 0, target |-> 0,
         todo |-> {}, told |-> {}, expire |-> 0, met |-> FALSE, grant |-> NoPair]

-----------------------------------------------------------------------------
(* The session manager.                                                    *)

Exists(i) == i \in Sid /\ sessions[i].token # 0

\* A variant a mistake in the code would give, as those below.
MatchesUnlessFound(i, token) == i \in Sid /\ sessions[i].token \in {0, token}

\* FindSessionByAccessToken and FindSessionByTokens.
Matches(i, token) == Exists(i) /\ sessions[i].token = token

Expired(expire) == expire < clock

AccessExpired(expire) == expire - RefreshLife + AccessLife < clock

\* Variants a mistake in the code would give, for showing that the properties
\* below depend on it; no specification uses them.
ExtendedOnly(old, token, now) ==
  [token |-> IF old = 0 THEN token ELSE old, expire |-> now + RefreshLife]

ExpiredAtBirth(old, token, now) == [token |-> token, expire |-> now - RefreshLife]

OtherActive(i) == {j \in Sid : Exists(j) /\ j # i /\ ~Expired(sessions[j].expire)}

MayDeleteAny(r) == TRUE

GrantedAgain(r, token) == [sid |-> r.sid, token |-> r.token]

\* Validate, which the middleware runs twice for a request.
Valid(i, token) ==
  /\ Matches(i, token)
  /\ ~Expired(sessions[i].expire) /\ ~AccessExpired(sessions[i].expire)

\* Regenerate: what replaces a session whose old tokens a client sent.
Renewed(old, token, now) == [token |-> token, expire |-> now + RefreshLife]

\* FindSessionsByUserID, for a request authenticated with session i, which
\* the loop of DeleteAll skips.
Others(i) == {j \in Sid : Exists(j) /\ j # i}

\* Delete refuses the session it is asked with.
MayDelete(r) == r.target # r.sid

\* The pair a response hands over.
Granted(r, token) == [sid |-> r.sid, token |-> token]

-----------------------------------------------------------------------------

Init ==
  /\ clock = 0
  /\ sessions = [i \in Sid |-> None]
  /\ opened = 0 /\ drawn = 0
  /\ req = [s \in Slot |-> Idle]
  /\ held = [d \in Device |-> NoPair]
  /\ doubt = [d \in Device |-> FALSE]
  /\ ended = {} /\ mishaps = {}

server == <<clock, sessions, opened, drawn>>
history == <<ended, mishaps>>
client == <<held, doubt, history>>

Waiting(d) == \E s \in Slot : req[s].awaited /\ req[s].device = d

\* The request goes on to another phase, or is answered.
Goto(s, phase) == LET r == req[s] IN req' = [req EXCEPT ![s] = [r EXCEPT !.phase = phase]]

Answer(s) == req' = [req EXCEPT ![s] = Idle]

\* The response has a pair in it, for a client that still waits for it.
Respond(s, pair) ==
  LET r == req[s]
  IN req' = [req EXCEPT ![s] = IF r.awaited THEN [r EXCEPT !.phase = "respond", !.grant = pair]
                               ELSE Idle]

\* The client, when it still waits, takes the pair over.
HandOver(s, pair, doubtful) ==
  LET r == req[s]
  IN /\ held' = IF r.awaited THEN [held EXCEPT ![r.device] = pair] ELSE held
     /\ doubt' = IF r.awaited THEN [doubt EXCEPT ![r.device] = doubtful] ELSE doubt

\* Request t found its session i there and relies on it.
Refreshes(t, i) == req[t].sid = i /\ req[t].phase = "renew"

Terminates(t, i) ==
  /\ req[t].sid = i
  /\ \/ req[t].phase \in {"remove", "sweep"}
     \/ req[t].phase = "handle" /\ req[t].kind \in {"delete", "deleteAll"}

\* What goes wrong when request s ends session i.
Harm(s, i) == {m \in {"refresh", "termination"} :
                 \E t \in Slot \ {s} : IF m = "refresh" THEN Refreshes(t, i) ELSE Terminates(t, i)}

\* Request s ends session i.
End(s, i) ==
  /\ sessions' = [sessions EXCEPT ![i] = None]
  /\ mishaps' = mishaps \cup Harm(s, i)

CanSend(d, s) ==
  /\ req[s].phase = "idle" /\ (Parallel \/ ~Waiting(d))
  /\ Overlap \/ \A t \in Slot : req[t].phase = "idle"

NewRequest(d, kind, phase, pair, target) ==
  [Idle EXCEPT !.phase = phase, !.kind = kind, !.device = d, !.awaited = TRUE,
               !.sid = pair.sid, !.token = pair.token, !.target = target]

\* Device d sends its password.
AskSession(d, s) ==
  /\ CanSend(d, s)
  /\ opened < MaxSessions /\ drawn < MaxToken
  /\ opened + Cardinality({t \in Slot : req[t].phase = "create"}) < MaxSignIns
  /\ req' = [req EXCEPT ![s] = NewRequest(d, "signin", "create", NoPair, 0)]
  /\ UNCHANGED <<server, client>>

\* Device d sends both tokens to have them replaced.
AskRefresh(d, s) ==
  /\ CanSend(d, s)
  /\ held[d] # NoPair /\ drawn < MaxToken
  /\ req' = [req EXCEPT ![s] = NewRequest(d, "refresh", "find", held[d], 0)]
  /\ UNCHANGED <<server, client>>

\* Device d sends a request that goes through the Session middleware, with its
\* access token, or with a JWT, which names no session.
Ask(d, s, kind, target) ==
  /\ CanSend(d, s)
  /\ \/ /\ held[d] # NoPair
        /\ req' = [req EXCEPT ![s] = NewRequest(d, kind, "validate", held[d], target)]
     \/ /\ Jwt
        /\ req' = [req EXCEPT ![s] = NewRequest(d, kind, "handle", NoPair, target)]
  /\ UNCHANGED <<server, client>>

\* CreateSession.
Create(s) ==
  LET i == opened + 1
      token == drawn + 1
  IN /\ req[s].phase = "create"
     /\ i <= MaxSessions
     /\ sessions' = [sessions EXCEPT ![i] = Renewed(0, token, clock)]
     /\ opened' = i /\ drawn' = token
     /\ Respond(s, [sid |-> i, token |-> token])
     /\ UNCHANGED <<clock, client>>

\* The middleware finds the session, then finds it again for the user.
Check(s) ==
  LET r == req[s]
  IN /\ r.phase \in {"validate", "identify"}
     /\ IF Valid(r.sid, r.token)
        THEN Goto(s, IF r.phase = "validate" THEN "identify" ELSE "handle")
        ELSE Answer(s)
     /\ UNCHANGED <<server, client>>

\* GET /sessions marks the current session, which a JWT has not.
List(s) ==
  /\ req[s].phase = "handle" /\ req[s].kind = "list"
  /\ IF req[s].sid = 0 /\ \E i \in Sid : Exists(i) /\ sessions[i].expire > clock
     THEN Goto(s, "panicked") ELSE Answer(s)
  /\ UNCHANGED <<server, client>>

\* POST /logout, with a JWT nothing but an answer.  When the session is gone the
\* answer is an error; any other failure of the call passes for a success.
Logout(s) ==
  LET r == req[s]
  IN /\ r.phase = "handle" /\ r.kind = "logout"
     /\ \/ /\ Exists(r.sid)
           /\ End(s, r.sid)
           /\ ended' = ended \cup {r.sid}
           /\ HandOver(s, NoPair, FALSE)
        \/ ~Exists(r.sid) /\ UNCHANGED <<sessions, client>>
        \/ /\ Faulty /\ r.sid # 0
           /\ ended' = ended \cup {r.sid}
           /\ mishaps' = mishaps \cup {"logout"}
           /\ HandOver(s, NoPair, FALSE)
           /\ sessions' = sessions
     /\ Answer(s)
     /\ UNCHANGED <<clock, opened, drawn>>

\* POST /auth/update and /auth/change_pw end with SuccessfulAuthentication: the
\* session the middleware found, some time ago, is handed out again with the
\* tokens it had then; with a JWT a session is created.
Reauthenticate(s) ==
  LET r == req[s]
  IN /\ r.phase = "handle" /\ r.kind = "update"
     /\ IF r.sid = 0
        THEN Goto(s, "create") ELSE Respond(s, Granted(r, r.token))
     /\ UNCHANGED <<server, client>>

\* DELETE /sessions/:id up to FindSessionByUserID.
Delete(s) ==
  LET r == req[s]
  IN /\ r.phase = "handle" /\ r.kind = "delete"
     /\ IF r.sid = 0 THEN Goto(s, "panicked")
        ELSE IF MayDelete(r) /\ Exists(r.target) THEN Goto(s, "remove")
        ELSE Answer(s)
     /\ UNCHANGED <<server, client>>

\* ... and its second call; the session may be gone meanwhile.
Remove(s) ==
  LET i == req[s].target
  IN /\ req[s].phase = "remove"
     /\ IF Exists(i)
        THEN End(s, i) /\ ended' = ended \cup {i}
        ELSE UNCHANGED <<sessions, history>>
     /\ Answer(s)
     /\ UNCHANGED <<clock, opened, drawn, held, doubt>>

\* DELETE /sessions: the sessions are listed ...
DeleteAll(s) ==
  LET r == req[s]
  IN /\ r.phase = "handle" /\ r.kind = "deleteAll"
     /\ req' = [req EXCEPT ![s] =
          IF r.sid = 0 /\ Others(0) # {} THEN [r EXCEPT !.phase = "panicked"]
          ELSE [r EXCEPT !.phase = "sweep", !.todo = Others(r.sid),
                         !.told = 1 .. opened \ {r.sid}]]
     /\ UNCHANGED <<server, client>>

\* ... and deleted one after the other, until one is not found.
Sweep(s) ==
  LET r == req[s]
      i == Min(r.todo)
  IN /\ r.phase = "sweep" /\ r.todo # {}
     /\ IF Exists(i)
        THEN /\ End(s, i)
             /\ req' = [req EXCEPT ![s] = [r EXCEPT !.todo = r.todo \ {i}]]
        ELSE UNCHANGED <<sessions, mishaps>> /\ Answer(s)
     /\ UNCHANGED <<clock, opened, drawn, held, doubt, ended>>

SweptAll(s) ==
  /\ req[s].phase = "sweep" /\ req[s].todo = {}
  /\ ended' = ended \cup req[s].told
  /\ Answer(s)
  /\ UNCHANGED <<server, held, doubt, mishaps>>

\* The refreshes of session i, other than s, that found it and are not answered.
Meeting(s, i) ==
  {t \in Slot \ {s} : /\ req[t].kind = "refresh" /\ req[t].sid = i
                       /\ req[t].phase \in {"renew", "respond"}}

\* POST /sessions/refresh up to FindSessionByTokens.
Refresh(s) ==
  LET r == req[s]
  IN /\ r.phase = "find"
     /\ IF Matches(r.sid, r.token)
        THEN req' = [t \in Slot |->
               IF t = s
               THEN [r EXCEPT !.phase = "renew", !.expire = sessions[r.sid].expire,
                              !.met = Meeting(s, r.sid) # {}]
               ELSE [req[t] EXCEPT !.met = @ \/ t \in Meeting(s, r.sid)]]
        ELSE Answer(s)
     /\ UNCHANGED <<server, client>>

\* Regenerate: Save writes the session whether or not it is still there.
Regenerate(s) ==
  LET r == req[s]
      token == drawn + 1
  IN /\ r.phase = "renew"
     /\ IF Expired(r.expire)
        THEN UNCHANGED <<sessions, drawn>> /\ Answer(s)
        ELSE /\ sessions' = [sessions EXCEPT ![r.sid] = Renewed(r.token, token, clock)]
             /\ drawn' = token
             /\ Respond(s, Granted(r, token))
     /\ UNCHANGED <<clock, opened, client>>

\* The client has reasons to doubt the pair it is handed.
Doubtful(r) ==
  \/ r.kind = "refresh" /\ r.met
  \/ /\ r.kind = "update" /\ r.sid # 0
     /\ doubt[r.device] \/ held[r.device] # [sid |-> r.sid, token |-> r.token]

\* A response with a pair arrives.
Deliver(s) ==
  /\ req[s].phase = "respond"
  /\ HandOver(s, req[s].grant, Doubtful(req[s]))
  /\ Answer(s)
  /\ UNCHANGED <<server, history>>

\* The Recover middleware answers 500.
Recover(s) ==
  /\ req[s].phase = "panicked"
  /\ Answer(s)
  /\ UNCHANGED <<server, client>>

\* A database call fails and the request with it (Logout knows better).
Fail(s) ==
  /\ Faulty
  /\ req[s].phase \notin {"idle", "respond", "panicked"}
  /\ req[s].phase = "handle" => req[s].kind # "logout"
  /\ Answer(s)
  /\ UNCHANGED <<server, client>>

\* A client stops waiting, or its response is lost; the handler goes on.
GiveUp(s) ==
  LET r == req[s]
  IN /\ Lossy /\ r.awaited
     /\ req' = [req EXCEPT ![s] = [r EXCEPT !.awaited = FALSE]]
     /\ doubt' = [doubt EXCEPT ![r.device] = doubt[r.device] \/ r.kind = "refresh"]
     /\ UNCHANGED <<server, held, history>>

\* The server stops: every request in progress is gone, and given up.
Crash ==
  /\ Lossy
  /\ req' = [s \in Slot |-> Idle]
  /\ doubt' = [d \in Device |-> doubt[d] \/ \E s \in Slot :
                 req[s].kind = "refresh" /\ req[s].awaited /\ req[s].device = d]
  /\ UNCHANGED <<server, held, history>>

Tick ==
  /\ clock < MaxClock
  /\ clock' = clock + 1
  /\ UNCHANGED <<sessions, opened, drawn, req, client>>

Handle(s) ==
  \/ Create(s) \/ Check(s) \/ List(s) \/ Logout(s) \/ Reauthenticate(s) \/ Delete(s) \/ Remove(s)
  \/ DeleteAll(s) \/ Sweep(s) \/ SweptAll(s) \/ Refresh(s) \/ Regenerate(s)
  \/ Deliver(s) \/ Recover(s) \/ Fail(s)

Send(d, s) ==
  \/ AskSession(d, s) \/ AskRefresh(d, s)
  \/ \E kind \in {"list", "logout", "deleteAll", "update"} : Ask(d, s, kind, 0)
  \/ \E i \in 1 .. opened : Ask(d, s, "delete", i)

Next ==
  \/ \E s \in Slot : Handle(s) \/ GiveUp(s) \/ \E d \in Device : Send(d, s)
  \/ Crash \/ Tick

Spec == Init /\ [][Next]_vars

-----------------------------------------------------------------------------
(* Properties.                                                             *)

\* Every variable keeps the shape its comment gives it.
TypeOK ==
  /\ {clock, drawn} \subseteq Nat /\ opened \in 0 .. MaxSessions
  /\ sessions \in [Sid -> Session]
  /\ req \in [Slot -> Request]
  /\ held \in [Device -> Pair] /\ doubt \in [Device -> BOOLEAN]
  /\ ended \subseteq Nat /\ mishaps \subseteq {"refresh", "termination", "logout"}

\* Tokens that stopped being those of a session (refreshed, terminated) never
\* are again, although Regenerate's Save may bring the session itself back.
RetiredTokensDead ==
  [][\A token \in 1 .. drawn :
       (\A i \in Sid : sessions[i].token # token)
       => (\A i \in Sid : sessions'[i].token # token)]_vars

\* Sessions are opened, renewed and ended as those of SessionRegistry, whatever
\* of Refresh, Regenerate and the deletions comes between two calls of another: a
\* session comes back only after one was ended under its own refresh.
Registry == INSTANCE SessionRegistry
              WITH token <- [i \in Sid |-> sessions[i].token],
                   void <- "refresh" \in mishaps

RegistrySpec == Registry!Spec

\* A client that was handed tokens and waits for nothing can use them as long as
\* its session exists, whatever its requests and those of others overlap with and
\* whatever responses are lost, unless it gave up a refresh (session_handler.go:111),
\* two refreshes of its session had both found it (:81), or an update handed it
\* tokens again (user_20200115.go:52) when it held others by then; a refresh that
\* met no other, or a sign-in, answered after that settles it.
HolderAccepted ==
  \A d \in Device :
    (held[d] # NoPair /\ ~Waiting(d) /\ ~doubt[d] /\ Exists(held[d].sid))
    => sessions[held[d].sid].token = held[d].token

\* A session a client was told is terminated stays so (session_handler.go:121
\* and :157, auth_handler.go:207).
TerminatedStays == \A i \in ended : ~Exists(i)

\* It does unless a session was ended between the two calls of its own refresh
\* (manager.go:155), or a failing logout passed for a success (auth_handler.go:212):
\* however else requests overlap and fail, nothing brings one back.
EndedForGood == TerminatedStays \/ mishaps \cap {"refresh", "logout"} # {}

\* Terminating other sessions never signs the last client out: only Logout leaves
\* the account without a session, unless two requests terminate the sessions of
\* each other (session_handler.go:138 and :165).
SomeoneStays ==
  [][(\E i \in Sid : Exists(i)) /\ (\A i \in Sid : sessions'[i].token = 0)
     => "termination" \in mishaps' \/ \E s \in Slot : Logout(s)]_vars

=============================================================================

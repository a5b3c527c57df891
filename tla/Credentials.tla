----------------------------- MODULE Credentials -----------------------------
(***************************************************************************)
(* The credentials file of sfc and the session it stands for.  Commands    *)
(* of sfc run at the same time in one directory: login, logout, and those  *)
(* that work with the server after refreshing the session when it is about *)
(* to expire.  A command reads the file, talks to the server and writes    *)
(* the file in separate steps and may be cut short between them.           *)
(*                                                                         *)
(* As in Sessions, a refresh finds the session in one call of the database *)
(* and saves it in another, and the middleware accepts a logout before the *)
(* session is deleted; an access token and its refresh token are one       *)
(* number.                                                                 *)
(***************************************************************************)
EXTENDS Integers

CONSTANTS
  Process,      \* commands running at a time
  AccessLife,   \* accessTokenExpirationTime of the server
  RefreshLife,  \* refreshTokenExpirationTime of the server
  Margin,       \* how long before it expires a token is refreshed, an hour
  MaxSessions,  \* bound of a run: sessions created in all
  MaxToken,     \* bound of a run: tokens drawn in all
  MaxClock      \* bound of a run: the clock stops there

ASSUME LifeAssumption ==
  {AccessLife, RefreshLife, Margin, MaxSessions, MaxToken, MaxClock} \subseteq Nat

VARIABLES
  clock,    \* the time, the same for sfc and the server
  session,  \* session[i]: session i on the server
  opened,   \* how many sessions were created
  drawn,    \* how many tokens were drawn
  file,     \* the file .standardfile of the directory
  proc,     \* proc[p]: the command in progress
  gone,     \* sessions whose logout succeeded
  cut,      \* whether a save was cut short, or met another
  mishaps   \* what went wrong with which sessions: "twice", a refresh was saved
            \* with another under way; "ended" and "unsaved", one ended while it
            \* was being refreshed, or its tokens were not yet in the file;
            \* "logout", a failing deletion passed for a success

vars == <<clock, session, opened, drawn, file, proc, gone, cut, mishaps>>

Sid == 1 .. MaxSessions

\* A session of the server, or none (token 0).
Session == [token : Nat, expire : Nat]
None == [token |-> 0, expire |-> 0]

\* libsf.Session; sid is inside the tokens.  NoPair goes with a JWT.
Pair == [sid : Sid \cup {0}, token : Nat, expire : Nat]
NoPair == [sid |-> 0, token |-> 0, expire |-> 0]

\* The file is whole, truncated to nothing, or holds the rest of two writes.
File == [state : {"absent", "empty", "broken", "whole"}, pair : Pair]
NoFile == [state |-> "absent", pair |-> NoPair]

\* During "renew" and "end" the server handles a refresh, a logout.
Phase == {"idle", "refresh", "renew", "save", "write", "logout", "end", "remove"}

\* pair: cfg.Session; linked: whether the file being written is still in the
\* directory; awaited: whether the command is there to receive the response.
Command == [phase : Phase, login : BOOLEAN, pair : Pair, linked : BOOLEAN,
            awaited : BOOLEAN]
Idle == [phase |-> "idle", login |-> FALSE, pair |-> NoPair, linked |-> FALSE,
         awaited |-> TRUE]

Mishaps == [{"twice", "ended", "unsaved", "logout"} -> SUBSET (Sid \cup {0})]

-----------------------------------------------------------------------------

Defined(pair) == pair.token # 0

Access(pair) == pair.expire - RefreshLife + AccessLife

\* Refresh: the access token expires within the margin.
AccessExpired(pair, now) == now + Margin > Access(pair)

Exists(i) == i \in Sid /\ session[i].token # 0

\* The server still knows the tokens.
Current(pair) == Exists(pair.sid) /\ session[pair.sid].token = pair.token

\* The Session middleware accepts the access token.
Valid(pair) == Current(pair) /\ pair.expire >= clock /\ Access(pair) >= clock

\* The sessions that commands in one of the phases are about.
Busy(phases) == {proc[p].pair.sid : p \in {q \in Process : proc[q].phase \in phases}}

\* Variants a mistake in the code would give, for showing that the properties
\* below depend on it; no specification uses them.
RefreshedUnsaved(r, pair) == Idle

RefusedIgnored(r) == [r EXCEPT !.phase = "remove"]

DrawnExpired(token, now) == [token |-> token, expire |-> now - RefreshLife]

DrawnOnce(token, now) == [token |-> 1, expire |-> now + RefreshLife]

\* What the server stores for tokens it draws.
Drawn(token, now) == [token |-> token, expire |-> now + RefreshLife]

\* Login of the client has answered: the pair, if it is one, is to be saved.
Saving(pair) == [Idle EXCEPT !.phase = "save", !.login = TRUE, !.pair = pair]

\* Another command begins with the session in the file.
Loaded(phase) == [Idle EXCEPT !.phase = phase, !.pair = file.pair]

\* RefreshSession succeeded: cfg.Session is replaced and the file saved next.
Refreshed(r, pair) == [r EXCEPT !.phase = "save", !.pair = pair]

\* Logout of the client failed: the command ends with the error.
Refused(r) == Idle

-----------------------------------------------------------------------------

Init ==
  /\ clock = 0
  /\ session = [i \in Sid |-> None]
  /\ opened = 0 /\ drawn = 0
  /\ file = NoFile
  /\ proc = [p \in Process |-> Idle]
  /\ gone = {} /\ cut = FALSE
  /\ mishaps = [m \in {"twice", "ended", "unsaved", "logout"} |-> {}]

server == <<session, opened, drawn>>

Goto(p, phase) == proc' = [proc EXCEPT ![p] = [proc[p] EXCEPT !.phase = phase]]

Stop(p) == proc' = [proc EXCEPT ![p] = Idle]

\* The response reaches the command, if that is still there.
Respond(p, r) == proc' = [proc EXCEPT ![p] = IF proc[p].awaited THEN r ELSE Idle]

Blame(m, i) == mishaps' = [mishaps EXCEPT ![m] = @ \cup {i}]

\* The server deletes session i.
Ending(i) ==
  /\ session' = [session EXCEPT ![i] = None]
  /\ mishaps' = [mishaps EXCEPT !["ended"] = @ \cup ({i} \cap Busy({"renew"})),
                                !["unsaved"] = @ \cup ({i} \cap Busy({"save", "write"}))]

\* sfc login: the server opens a session, or only issues a JWT.
Login(p) ==
  LET i == opened + 1
      token == drawn + 1
      stored == Drawn(token, clock)
  IN /\ proc[p].phase = "idle"
     /\ \/ /\ opened < MaxSessions /\ drawn < MaxToken
           /\ session' = [session EXCEPT ![i] = stored]
           /\ opened' = i /\ drawn' = token
           /\ proc' = [proc EXCEPT ![p] =
                Saving([sid |-> i, token |-> token, expire |-> stored.expire])]
        \/ /\ proc' = [proc EXCEPT ![p] = Saving(NoPair)]
           /\ UNCHANGED server
     /\ UNCHANGED <<clock, file, gone, cut, mishaps>>

\* The other commands begin with Load (which ends them unless the file is
\* whole); logout needs a session.
Load(p) ==
  /\ proc[p].phase = "idle" /\ file.state = "whole"
  /\ \E phase \in {"refresh", "logout"} :
       /\ phase = "logout" => Defined(file.pair)
       /\ proc' = [proc EXCEPT ![p] = Loaded(phase)]
  /\ UNCHANGED <<clock, server, file, gone, cut, mishaps>>

\* Refresh: nothing to do, or the server looks for the tokens it is sent.  What a
\* command does after that touches neither the file nor its session.
Refresh(p) ==
  LET r == proc[p]
  IN /\ r.phase = "refresh"
     /\ \/ /\ Defined(r.pair) => ~AccessExpired(r.pair, clock)
           /\ Stop(p)
        \/ /\ Defined(r.pair) /\ AccessExpired(r.pair, clock)
           /\ ~Current(r.pair)
           /\ Stop(p)
        \/ /\ Defined(r.pair) /\ AccessExpired(r.pair, clock)
           /\ Current(r.pair) /\ drawn < MaxToken
           /\ Goto(p, "renew")
     /\ UNCHANGED <<clock, server, file, gone, cut, mishaps>>

\* Regenerate: the session found, which expires as its tokens say, is saved with
\* new ones, whether or not it is still there.
Regenerate(p) ==
  LET r == proc[p]
      i == r.pair.sid
      token == drawn + 1
      stored == Drawn(token, clock)
  IN /\ r.phase = "renew"
     /\ \/ /\ r.pair.expire < clock
           /\ Stop(p)
           /\ UNCHANGED <<server, cut, mishaps>>
        \/ /\ r.pair.expire >= clock
           /\ session' = [session EXCEPT ![i] = stored]
           /\ drawn' = token /\ opened' = opened
           /\ Respond(p, Refreshed(r, [sid |-> i, token |-> token, expire |-> stored.expire]))
           /\ cut' = (cut \/ ~r.awaited)
           /\ IF \E q \in Process \ {p} : proc[q].phase = "renew" /\ proc[q].pair.sid = i
              THEN Blame("twice", i) ELSE mishaps' = mishaps
     /\ UNCHANGED <<clock, file, gone>>

\* Save, once it has the passphrase: os.Create truncates the file ...
Create(p) ==
  /\ proc[p].phase = "save"
  /\ file' = [state |-> "empty", pair |-> NoPair]
  /\ proc' = [proc EXCEPT ![p] = [proc[p] EXCEPT !.phase = "write", !.linked = TRUE]]
  /\ cut' = (cut \/ \E q \in Process : proc[q].phase = "write")
  /\ UNCHANGED <<clock, server, gone, mishaps>>

\* ... and Write fills it.  Over a longer text, written meanwhile, it leaves the
\* end of that; in a file removed meanwhile nobody finds it.
Write(p) ==
  LET r == proc[p]
  IN /\ r.phase = "write"
     /\ \/ /\ r.linked
           /\ \E state \in {"whole", "broken"} :
                /\ file.state = "empty" => state = "whole"
                /\ file' = [state |-> state, pair |-> r.pair]
        \/ ~r.linked /\ file' = file
     /\ Stop(p)
     /\ UNCHANGED <<clock, server, gone, cut, mishaps>>

\* sfc logout: the server accepts the access token or refuses it ...
Logout(p) ==
  LET r == proc[p]
  IN /\ r.phase = "logout"
     /\ \/ Valid(r.pair) /\ Goto(p, "end")
        \/ ~Valid(r.pair) /\ proc' = [proc EXCEPT ![p] = Refused(r)]
     /\ UNCHANGED <<clock, server, file, gone, cut, mishaps>>

\* ... and deletes the session.  It answers with an error when the session is
\* gone; any other failure of the call passes for a success.
End(p) ==
  LET r == proc[p]
      i == r.pair.sid
  IN /\ r.phase = "end"
     /\ \/ /\ Exists(i)
           /\ Ending(i)
           /\ Respond(p, [r EXCEPT !.phase = "remove"])
        \/ /\ ~Exists(i)
           /\ Respond(p, Refused(r))
           /\ UNCHANGED <<session, mishaps>>
        \/ /\ Blame("logout", i)
           /\ Respond(p, [r EXCEPT !.phase = "remove"])
           /\ session' = session
     /\ UNCHANGED <<clock, opened, drawn, file, gone, cut>>

\* ... and the file is removed.
Remove(p) ==
  /\ proc[p].phase = "remove"
  /\ file' = NoFile
  /\ gone' = gone \cup {proc[p].pair.sid}
  /\ proc' = [q \in Process |-> IF q = p THEN Idle ELSE [proc[q] EXCEPT !.linked = FALSE]]
  /\ UNCHANGED <<clock, server, cut, mishaps>>

\* A command is interrupted, fails to get the response of the server or the
\* passphrase, or cannot write: it ends there.  What the server has begun goes on.
Kill(p) ==
  LET r == proc[p]
  IN /\ r.phase # "idle" /\ r.awaited
     /\ proc' = [proc EXCEPT ![p] =
          IF r.phase \in {"renew", "end"} THEN [r EXCEPT !.awaited = FALSE] ELSE Idle]
     /\ cut' = (cut \/ r.phase = "write" \/ (r.phase = "save" /\ ~r.login))
     /\ UNCHANGED <<clock, server, file, gone, mishaps>>

\* A call of the database fails, and the refresh with it.
Fail(p) ==
  /\ proc[p].phase = "renew"
  /\ Stop(p)
  /\ UNCHANGED <<clock, server, file, gone, cut, mishaps>>

\* Another client of the account terminates a session.
Terminate(i) ==
  /\ Exists(i)
  /\ Ending(i)
  /\ UNCHANGED <<clock, opened, drawn, file, proc, gone, cut>>

Tick ==
  /\ clock < MaxClock
  /\ clock' = clock + 1
  /\ UNCHANGED <<server, file, proc, gone, cut, mishaps>>

Next ==
  \/ \E p \in Process :
       \/ Login(p) \/ Load(p) \/ Refresh(p) \/ Regenerate(p) \/ Create(p) \/ Write(p)
       \/ Logout(p) \/ End(p) \/ Remove(p) \/ Kill(p) \/ Fail(p)
  \/ \E i \in Sid : Terminate(i)
  \/ Tick

Spec == Init /\ [][Next]_vars

-----------------------------------------------------------------------------
(* Properties.                                                             *)

\* Every variable keeps the shape its comment gives it.
TypeOK ==
  /\ clock \in Nat /\ drawn \in Nat /\ opened \in 0 .. MaxSessions
  /\ session \in [Sid -> Session]
  /\ file \in File
  /\ proc \in [Process -> Command]
  /\ gone \subseteq Sid \cup {0} /\ cut \in BOOLEAN /\ mishaps \in Mishaps

\* However commands overlap, the file holds the tokens of its session as the
\* server knows them, or a command is about to save those: only a save cut
\* short, or two at once, and a session two commands refreshed at once, leave a
\* file no command can use (config.go, Refresh and Save; session_handler.go:81
\* and manager.go:155).
FileUsable ==
  ~cut =>
    /\ file.state = "whole" /\ Exists(file.pair.sid) =>
         \/ Current(file.pair)
         \/ \E p \in Process : /\ proc[p].phase = "save" /\ ~proc[p].login
                               /\ proc[p].pair.sid = file.pair.sid
                               /\ Current(proc[p].pair)
         \/ file.pair.sid \in mishaps["twice"]
    /\ file.state \in {"empty", "broken"} => \E p \in Process : proc[p].phase = "write"

\* To the commands the server is a SessionRegistry, as Sessions is one: whatever
\* they do, a session comes back only after one was ended under its refresh.
Registry == INSTANCE SessionRegistry
              WITH token <- [i \in Sid |-> session[i].token],
                   void <- mishaps["ended"] # {}

RegistrySpec == Registry!Spec

\* The sessions that sfc logout removed the file for, those aside whose deletion
\* failed without a word (auth_handler.go:212).
LoggedOut == gone \ mishaps["logout"]

\* A session that logout has ended comes back only when it was ended while the
\* server refreshed it for another command, and gets back into the file only
\* then or when that command had yet to save it (logout.go, manager.go:155).
LogoutEnds ==
  \A i \in LoggedOut :
    /\ Exists(i) => i \in mishaps["ended"]
    /\ file.state = "whole" /\ file.pair.sid = i
         => i \in mishaps["ended"] \cup mishaps["unsaved"]

=============================================================================

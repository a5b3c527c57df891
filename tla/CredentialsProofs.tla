-------------------------- MODULE CredentialsProofs --------------------------
(***************************************************************************)
(* What holds of the credentials file for any number of commands, sessions *)
(* and tokens, whatever the lives of tokens are.                           *)
(***************************************************************************)
EXTENDS Credentials, TLAPS

USE DEF server

\* p is about to put the tokens of a session into the file.
Saver(p) == proc[p].phase \in {"save", "write"} /\ proc[p].pair.sid # 0

Renews(p, i) == proc[p].phase = "renew" /\ proc[p].pair.sid = i

\* No token and no session is in anybody's hands before it is drawn, opened; what
\* the server handles, and what logout ended, is a session.
Known ==
  /\ file.pair.token <= drawn /\ file.pair.sid <= opened
  /\ \A p \in Process : proc[p].pair.token <= drawn /\ proc[p].pair.sid <= opened
  /\ \A p \in Process : Saver(p) => proc[p].pair.token > 0
  /\ \A p \in Process : proc[p].phase \in {"renew", "end", "remove"} => proc[p].pair.sid > 0
  /\ gone \subseteq 1 .. opened

\* What is about to be saved nobody else has, in particular not the file.  Unless
\* its session was refreshed twice at once, it is current as long as the session
\* exists, and no other refresh of that is under way.
SavingAlone ==
  \A p \in Process : Saver(p) =>
    /\ file.pair.token # proc[p].pair.token
    /\ \A q \in Process \ {p} : proc[q].pair.token # proc[p].pair.token
    /\ proc[p].pair.sid \notin mishaps["twice"] =>
         /\ Exists(proc[p].pair.sid) => Current(proc[p].pair)
         /\ \A q \in Process : ~Renews(q, proc[p].pair.sid)

\* The session of a refresh under way is there, or was ended under it.
RenewalFound ==
  \A p \in Process : proc[p].phase = "renew" =>
    Exists(proc[p].pair.sid) \/ proc[p].pair.sid \in mishaps["ended"]

\* Session i is over and stays so.
Over(i) ==
  /\ i \notin mishaps["ended"] => ~Exists(i) /\ \A p \in Process : ~Renews(p, i)
  /\ i \notin mishaps["ended"] \cup mishaps["unsaved"] =>
       \A p \in Process : Saver(p) => proc[p].pair.sid # i

\* A logout in progress or past has ended its session, or failed without a word.
LogoutsOver ==
  /\ \A p \in Process : proc[p].phase = "remove" =>
       proc[p].pair.sid \in mishaps["logout"] \/ Over(proc[p].pair.sid)
  /\ \A i \in LoggedOut :
       /\ Over(i)
       /\ i \notin mishaps["ended"] \cup mishaps["unsaved"] => file.pair.sid # i

\* Until a save is cut short or meets another, only one is writing, and the
\* file is empty for it or was removed meanwhile.
OneWriter ==
  ~cut =>
    /\ \A p, q \in Process :
         proc[p].phase = "write" /\ proc[q].phase = "write" => p = q
    /\ \A p \in Process : proc[p].phase = "write" =>
         IF proc[p].linked THEN file.state = "empty" ELSE file.state = "absent"

\* login is over once it has saved.
LoginSaves ==
  \A p \in Process : proc[p].login => proc[p].phase \in {"save", "write"}

SaveInv == Known /\ SavingAlone /\ RenewalFound /\ LogoutsOver

FileInv == OneWriter /\ LoginSaves /\ FileUsable

-----------------------------------------------------------------------------
(* Types.                                                                  *)

\* The pair of a session just given tokens is one.
LEMMA PairType ==
  ASSUME NEW i \in Sid, NEW token \in Nat, NEW now \in Nat
  PROVE  /\ Drawn(token, now) \in Session
         /\ [sid |-> i, token |-> token, expire |-> Drawn(token, now).expire] \in Pair
BY LifeAssumption DEF Drawn, Session, Pair

\* A command that moves on, ends, begins or takes a pair over is one.
LEMMA CommandType ==
  /\ \A r \in Command, phase \in Phase : [r EXCEPT !.phase = phase] \in Command
  /\ \A r \in Command, pair \in Pair : Refreshed(r, pair) \in Command
  /\ \A r \in Command, b \in BOOLEAN :
       [r EXCEPT !.linked = b] \in Command /\ [r EXCEPT !.awaited = b] \in Command
  /\ \A r \in Command, phase \in Phase, b \in BOOLEAN :
       [r EXCEPT !.phase = phase, !.linked = b] \in Command
  /\ \A pair \in Pair : Saving(pair) \in Command
  /\ Idle \in Command /\ NoPair \in Pair /\ None \in Session /\ NoFile \in File
  /\ \A r : Refused(r) \in Command
BY DEF Command, Idle, NoPair, Pair, None, Session, Phase, NoFile, File, Saving, Refreshed,
       Refused

\* A session known by its tokens is one of those there can be.
LEMMA CurrentSid ==
  ASSUME TypeOK, NEW pair, Current(pair)
  PROVE  pair.sid \in Sid /\ pair.sid # 0
BY DEF Current, Exists, Sid

\* A response makes the command what it says, or finds it gone.
LEMMA RespondForms ==
  ASSUME TypeOK, NEW p \in Process, NEW r, Respond(p, r)
  PROVE  /\ \A q \in Process \ {p} : proc'[q] = proc[q]
         /\ proc'[p] = IF proc[p].awaited THEN r ELSE Idle
         /\ r \in Command => proc' \in [Process -> Command]
BY CommandType DEF Respond, TypeOK

\* More sessions that something went wrong with.
LEMMA MishapsGrow ==
  ASSUME TypeOK, NEW i \in Sid \cup {0}
  PROVE  /\ \A m \in DOMAIN mishaps : Blame(m, i) =>
              /\ mishaps' \in Mishaps /\ mishaps'[m] = mishaps[m] \cup {i}
              /\ \A n \in DOMAIN mishaps : n # m => mishaps'[n] = mishaps[n]
         /\ Ending(i) =>
              /\ mishaps' \in Mishaps
              /\ mishaps'["ended"] = mishaps["ended"] \cup ({i} \cap Busy({"renew"}))
              /\ mishaps'["unsaved"] = mishaps["unsaved"] \cup ({i} \cap Busy({"save", "write"}))
              /\ mishaps'["twice"] = mishaps["twice"] /\ mishaps'["logout"] = mishaps["logout"]
         /\ DOMAIN mishaps = {"twice", "ended", "unsaved", "logout"}
BY DEF TypeOK, Mishaps, Blame, Ending

\* Every step of a command, of the server and of its clock keeps the types.
LEMMA TypeStep ==
  ASSUME TypeOK, [Next]_vars
  PROVE  TypeOK'
<1>0. /\ proc \in [Process -> Command] /\ session \in [Sid -> Session]
      /\ \A q \in Process : /\ proc[q] \in Command /\ proc[q].pair \in Pair
                            /\ proc[q].pair.sid \in Sid \cup {0}
      /\ file.pair \in Pair
      /\ Phase = {"idle", "refresh", "renew", "save", "write", "logout", "end", "remove"}
  BY DEF TypeOK, Command, Pair, File, Phase
<1>1. CASE UNCHANGED vars
  BY <1>1 DEF vars, TypeOK
<1>2. ASSUME NEW p \in Process, Login(p)
      PROVE  TypeOK'
  <2>1. CASE UNCHANGED server
    <3>1. proc' \in [Process -> Command]
      <4>1. proc' = [proc EXCEPT ![p] = Saving(NoPair)]
        BY <1>2, <2>1 DEF Login, TypeOK
      <4> QED BY <4>1, <1>0, CommandType
    <3> QED BY <1>2, <2>1, <3>1 DEF Login, TypeOK
  <2>2. CASE opened < MaxSessions /\ opened' = opened + 1 /\ drawn' = drawn + 1
    <3>1. opened + 1 \in Sid /\ drawn + 1 \in Nat /\ clock \in Nat
      BY <2>2, LifeAssumption DEF TypeOK, Sid
    <3> DEFINE stored == Drawn(drawn + 1, clock)
               pair == [sid |-> opened + 1, token |-> drawn + 1, expire |-> stored.expire]
    <3>2. stored \in Session /\ pair \in Pair
      BY <3>1, PairType
    <3>3. /\ session' = [session EXCEPT ![opened + 1] = stored]
          /\ proc' = [proc EXCEPT ![p] = Saving(pair)]
      BY <1>2, <2>2 DEF Login, TypeOK
    <3> HIDE DEF stored, pair
    <3>4. session' \in [Sid -> Session] /\ proc' \in [Process -> Command]
      BY <1>0, <3>2, <3>3, CommandType
    <3> QED BY <1>2, <2>2, <3>1, <3>4 DEF Login, TypeOK, Sid
  <2> QED BY <1>2, <2>1, <2>2 DEF Login
<1>3. ASSUME NEW p \in Process, Load(p)
      PROVE  TypeOK'
  <2>1. \A phase \in {"refresh", "logout"} : Loaded(phase) \in Command
    BY <1>0 DEF Loaded, Command, Idle
  <2>2. proc' \in [Process -> Command]
    BY <1>0, <1>3, <2>1 DEF Load
  <2> QED BY <1>3, <2>2 DEF Load, TypeOK
<1>4. ASSUME NEW p \in Process, Refresh(p) \/ Logout(p)
      PROVE  TypeOK'
  <2>1. Goto(p, "renew") \/ Goto(p, "end") \/ Stop(p)
    BY <1>4 DEF Refresh, Logout, Refused, Stop
  <2>2. \A phase \in {"renew", "end"} : Goto(p, phase) => proc' \in [Process -> Command]
    <3>1. \A phase \in {"renew", "end"} : [proc[p] EXCEPT !.phase = phase] \in Command
      BY <1>0, CommandType
    <3> QED BY <1>0, <3>1 DEF Goto
  <2>3. Stop(p) => proc' \in [Process -> Command]
    BY <1>0, CommandType DEF Stop
  <2> QED BY <1>4, <2>1, <2>2, <2>3 DEF Refresh, Logout, TypeOK
<1>5. ASSUME NEW p \in Process, Regenerate(p)
      PROVE  TypeOK'
  <2>1. CASE UNCHANGED <<session, opened, drawn, cut, mishaps>> /\ Stop(p)
    <3>1. proc' \in [Process -> Command]
      BY <1>0, <2>1, CommandType DEF Stop
    <3> QED BY <1>5, <2>1, <3>1 DEF Regenerate, TypeOK
  <2>2. CASE drawn' = drawn + 1
    <3> DEFINE i == proc[p].pair.sid
               stored == Drawn(drawn + 1, clock)
               pair == [sid |-> i, token |-> drawn + 1, expire |-> stored.expire]
    <3>1. drawn + 1 \in Nat /\ clock \in Nat /\ i \in Sid \cup {0}
      BY <1>0 DEF TypeOK
    <3>2. stored \in Session /\ pair \in Pair
      BY <3>1, LifeAssumption DEF Drawn, Session, Pair
    <3>3. /\ session' = [session EXCEPT ![i] = stored]
          /\ Respond(p, Refreshed(proc[p], pair))
          /\ Blame("twice", i) \/ mishaps' = mishaps
          /\ cut' = (cut \/ ~proc[p].awaited)
      BY <1>5, <2>2 DEF Regenerate, TypeOK
    <3> HIDE DEF stored, pair, i
    <3>4. session' \in [Sid -> Session] /\ proc' \in [Process -> Command]
      BY <1>0, <3>2, <3>3, CommandType, RespondForms
    <3>5. mishaps' \in Mishaps /\ cut' \in BOOLEAN
      BY <3>1, <3>3, MishapsGrow DEF TypeOK, Command
    <3> QED BY <1>5, <2>2, <3>1, <3>4, <3>5 DEF Regenerate, TypeOK
  <2> QED BY <1>5, <2>1, <2>2 DEF Regenerate
<1>6. ASSUME NEW p \in Process, Create(p)
      PROVE  TypeOK'
  <2>1. file' \in File /\ cut' \in BOOLEAN
    BY <1>6, CommandType DEF Create, File, TypeOK
  <2>2. proc' \in [Process -> Command]
    BY <1>0, <1>6, CommandType DEF Create
  <2> QED BY <1>6, <2>1, <2>2 DEF Create, TypeOK
<1>7. ASSUME NEW p \in Process, Write(p)
      PROVE  TypeOK'
  <2>1. file' \in File
    BY <1>0, <1>7 DEF Write, File, TypeOK
  <2>2. proc' \in [Process -> Command]
    BY <1>0, <1>7, CommandType DEF Write, Stop
  <2> QED BY <1>7, <2>1, <2>2 DEF Write, TypeOK
<1>8. ASSUME NEW p \in Process, Kill(p) \/ Fail(p)
      PROVE  TypeOK'
  <2>1. proc' \in [Process -> Command] /\ cut' \in BOOLEAN
    BY <1>0, <1>8, CommandType DEF Kill, Fail, Stop, TypeOK
  <2> QED BY <1>8, <2>1 DEF Kill, Fail, TypeOK
<1>9. ASSUME NEW p \in Process, End(p)
      PROVE  TypeOK'
  <2> DEFINE i == proc[p].pair.sid
  <2>1. /\ i \in Sid \cup {0}
        /\ Respond(p, [proc[p] EXCEPT !.phase = "remove"]) \/ Respond(p, Refused(proc[p]))
        /\ session' = session \/ session' = [session EXCEPT ![i] = None]
        /\ Ending(i) \/ Blame("logout", i) \/ mishaps' = mishaps
    BY <1>0, <1>9 DEF End, Ending
  <2>2. proc' \in [Process -> Command] /\ session' \in [Sid -> Session]
    BY <1>0, <2>1, CommandType, RespondForms
  <2>3. mishaps' \in Mishaps
    BY <2>1, MishapsGrow DEF TypeOK
  <2> QED BY <1>9, <2>2, <2>3 DEF End, TypeOK
<1>10. ASSUME NEW p \in Process, Remove(p)
       PROVE  TypeOK'
  <2>1. proc' \in [Process -> Command]
    BY <1>0, <1>10, CommandType DEF Remove
  <2> QED BY <1>0, <1>10, <2>1, CommandType DEF Remove, TypeOK
<1>11. ASSUME NEW i \in Sid, Terminate(i)
       PROVE  TypeOK'
  <2>1. mishaps' \in Mishaps /\ session' \in [Sid -> Session]
    BY <1>0, <1>11, CommandType, MishapsGrow DEF Terminate, Ending
  <2> QED BY <1>11, <2>1 DEF Terminate, TypeOK
<1>12. CASE Tick
  BY <1>12 DEF Tick, TypeOK
<1> QED BY <1>1, <1>2, <1>3, <1>4, <1>5, <1>6, <1>7, <1>8, <1>9, <1>10, <1>11, <1>12 DEF Next

\* The types of Credentials are invariant.
THEOREM TypeCorrect == Spec => []TypeOK
<1>1. Init => TypeOK
  <2> SUFFICES ASSUME Init PROVE TypeOK
    OBVIOUS
  <2>1. session \in [Sid -> Session] /\ proc \in [Process -> Command] /\ file \in File
    BY CommandType DEF Init
  <2>2. opened \in 0 .. MaxSessions /\ mishaps \in Mishaps
    BY LifeAssumption DEF Init, Mishaps
  <2> QED BY <2>1, <2>2 DEF Init, TypeOK
<1>2. TypeOK /\ [Next]_vars => TypeOK'
  BY TypeStep
<1> QED BY <1>1, <1>2, PTL DEF Spec

-----------------------------------------------------------------------------
(* Who saves what, and what a logout has ended.                            *)

\* What the types give of the parts the invariants speak of.
LEMMA Shapes ==
  ASSUME TypeOK
  PROVE  /\ proc \in [Process -> Command] /\ session \in [Sid -> Session]
         /\ file.pair.token \in Nat /\ file.pair.sid \in Nat
         /\ \A q \in Process : proc[q].pair.token \in Nat /\ proc[q].pair.sid \in Nat
         /\ opened \in Nat /\ drawn \in Nat
         /\ NoPair.token = 0 /\ NoPair.sid = 0 /\ None.token = 0 /\ NoFile.pair = NoPair
         /\ Idle.phase = "idle" /\ Idle.pair = NoPair /\ Idle.login = FALSE
BY DEF TypeOK, File, Command, Pair, Sid, NoPair, None, Idle, NoFile

\* What went wrong is not forgotten.
Remembered ==
  \A m \in {"twice", "ended", "unsaved", "logout"} : mishaps[m] \subseteq mishaps'[m]

\* A step that only lets commands begin, end or move on, the server find a session
\* or accept its token, and a logout fail without a word, leaves all this as it is.
LEMMA QuietStep ==
  ASSUME TypeOK, SaveInv, UNCHANGED <<session, opened, drawn, gone>>, Remembered,
         file'.pair \in {file.pair, NoPair},
         \A q \in Process :
           /\ proc'[q].pair \in {proc[q].pair, file.pair, NoPair}
           /\ Saver(q)' => Saver(q) /\ proc'[q].pair = proc[q].pair
           /\ proc'[q].phase = "renew" =>
                /\ proc'[q].pair = proc[q].pair
                /\ proc[q].phase = "renew" \/ (Current(proc[q].pair) /\ ~Saver(q))
           /\ proc'[q].phase = "end" =>
                /\ proc'[q].pair = proc[q].pair
                /\ proc[q].phase = "end" \/ Current(proc[q].pair)
           /\ proc'[q].phase = "remove" =>
                /\ proc'[q].pair = proc[q].pair
                /\ \/ proc[q].phase = "remove"
                   \/ proc[q].phase = "end" /\ proc[q].pair.sid \in mishaps'["logout"]
  PROVE  SaveInv'
<1> USE DEF SaveInv
<1>0. /\ file.pair.token \in Nat /\ file.pair.sid \in Nat /\ opened \in Nat /\ drawn \in Nat
      /\ \A q \in Process : proc[q].pair.token \in Nat /\ proc[q].pair.sid \in Nat
      /\ NoPair.token = 0 /\ NoPair.sid = 0
  BY Shapes
<1>1. \A i : Exists(i)' <=> Exists(i)
  BY DEF Exists
<1>2. \A pair : Current(pair) => pair.sid \in Nat /\ pair.sid > 0 /\ Exists(pair.sid)
  BY CurrentSid DEF Sid, Current
<1>3. Known'
  <2>1. file'.pair.token <= drawn /\ file'.pair.sid <= opened
    BY <1>0 DEF Known
  <2>2. ASSUME NEW q \in Process
        PROVE  /\ proc'[q].pair.token <= drawn /\ proc'[q].pair.sid <= opened
               /\ Saver(q)' => proc'[q].pair.token > 0
               /\ proc'[q].phase \in {"renew", "end", "remove"} => proc'[q].pair.sid > 0
    <3>1. proc'[q].pair.token <= drawn /\ proc'[q].pair.sid <= opened
      BY <1>0 DEF Known
    <3>2. Saver(q)' => proc'[q].pair.token > 0
      BY DEF Known
    <3>3. proc'[q].phase \in {"renew", "end", "remove"} => proc'[q].pair.sid > 0
      BY <1>2 DEF Known
    <3> QED BY <3>1, <3>2, <3>3
  <2> QED BY <2>1, <2>2 DEF Known
<1>4. SavingAlone'
  <2> SUFFICES ASSUME NEW p \in Process, Saver(p)'
               PROVE  /\ file'.pair.token # proc'[p].pair.token
                      /\ \A q \in Process \ {p} : proc'[q].pair.token # proc'[p].pair.token
                      /\ proc'[p].pair.sid \notin mishaps'["twice"] =>
                           /\ Exists(proc[p].pair.sid)' => Current(proc[p].pair)'
                           /\ \A q \in Process : ~Renews(q, proc[p].pair.sid)'
    BY DEF SavingAlone
  <2>1. Saver(p) /\ proc'[p].pair = proc[p].pair
    OBVIOUS
  <2>2. proc[p].pair.token > 0
    BY <2>1 DEF Known
  <2>3. /\ file'.pair.token # proc'[p].pair.token
        /\ \A q \in Process \ {p} : proc'[q].pair.token # proc'[p].pair.token
    BY <1>0, <2>1, <2>2 DEF SavingAlone
  <2>4. ASSUME proc[p].pair.sid \notin mishaps'["twice"]
        PROVE  /\ Exists(proc[p].pair.sid)' => Current(proc[p].pair)'
               /\ \A q \in Process : ~Renews(q, proc[p].pair.sid)'
    <3>1. proc[p].pair.sid \notin mishaps["twice"]
      BY <2>4 DEF Remembered
    <3>2. Exists(proc[p].pair.sid) => Current(proc[p].pair)
      BY <2>1, <3>1 DEF SavingAlone
    <3>3. ASSUME NEW q \in Process, Renews(q, proc[p].pair.sid)'
          PROVE  FALSE
      <4>1. ~Renews(q, proc[p].pair.sid)
        BY <2>1, <3>1 DEF SavingAlone
      <4>2. /\ Current(proc[q].pair) /\ ~Saver(q)
            /\ proc[q].pair.sid = proc[p].pair.sid
        BY <3>3, <4>1 DEF Renews
      <4>3. proc[q].pair.token = proc[p].pair.token
        BY <1>2, <3>2, <4>2 DEF Current
      <4> QED BY <2>1, <4>2, <4>3 DEF SavingAlone
    <3> QED BY <1>1, <3>2, <3>3 DEF Current
  <2> QED BY <2>1, <2>3, <2>4
<1>5. RenewalFound'
  BY <1>1, <1>2 DEF RenewalFound, Remembered
<1>6. ASSUME NEW i, Over(i)
      PROVE  Over(i)'
  <2>1. i \notin mishaps'["ended"] => i \notin mishaps["ended"]
    BY DEF Remembered
  <2>2. i \notin mishaps'["unsaved"] => i \notin mishaps["unsaved"]
    BY DEF Remembered
  <2>3. ASSUME i \notin mishaps'["ended"]
        PROVE  ~Exists(i)' /\ \A q \in Process : ~Renews(q, i)'
    BY <1>1, <1>2, <1>6, <2>1, <2>3 DEF Over, Renews
  <2>4. ASSUME i \notin mishaps'["ended"] \cup mishaps'["unsaved"], NEW q \in Process, Saver(q)'
        PROVE  proc'[q].pair.sid # i
    BY <1>6, <2>1, <2>2, <2>4 DEF Over
  <2> QED BY <2>3, <2>4 DEF Over
<1>7. LogoutsOver'
  <2>1. LoggedOut' \subseteq LoggedOut /\ \A i \in LoggedOut : i # 0
    BY <1>0 DEF LoggedOut, Remembered, Known
  <2>2. ASSUME NEW p \in Process, proc'[p].phase = "remove"
        PROVE  proc'[p].pair.sid \in mishaps'["logout"] \/ Over(proc[p].pair.sid)'
    BY <1>6, <2>2 DEF LogoutsOver, Remembered
  <2>3. ASSUME NEW i \in LoggedOut'
        PROVE  /\ Over(i)'
               /\ i \notin mishaps'["ended"] \cup mishaps'["unsaved"] => file'.pair.sid # i
    BY <1>0, <1>6, <2>1 DEF LogoutsOver, Remembered
  <2> QED BY <2>2, <2>3 DEF LogoutsOver
<1> QED BY <1>3, <1>4, <1>5, <1>7

\* The server ends session i, maybe for the logout of a command.
LEMMA EndStep ==
  ASSUME TypeOK, SaveInv, NEW i \in Sid, Exists(i), Ending(i),
         UNCHANGED <<opened, drawn, file, gone>>,
         \A q \in Process :
           \/ proc'[q].phase = proc[q].phase /\ proc'[q].pair = proc[q].pair
           \/ proc'[q] = Idle
           \/ /\ proc[q].phase = "end" /\ proc'[q].phase = "remove"
              /\ proc'[q].pair = proc[q].pair /\ proc[q].pair.sid = i
  PROVE  SaveInv'
<1> USE DEF SaveInv
<1>0. /\ opened \in Nat /\ drawn \in Nat /\ session \in [Sid -> Session]
      /\ NoPair.token = 0 /\ NoPair.sid = 0 /\ None.token = 0
      /\ Idle.phase = "idle" /\ Idle.pair = NoPair
  BY Shapes
<1>1. /\ mishaps'["ended"] = mishaps["ended"] \cup ({i} \cap Busy({"renew"}))
      /\ mishaps'["unsaved"] = mishaps["unsaved"] \cup ({i} \cap Busy({"save", "write"}))
      /\ mishaps'["twice"] = mishaps["twice"] /\ mishaps'["logout"] = mishaps["logout"]
  BY MishapsGrow
<1>2. \A j : Exists(j)' => Exists(j) /\ session'[j] = session[j] /\ j # i
  BY <1>0 DEF Ending, Exists
<1>3. \A j : Exists(j) /\ j # i => Exists(j)'
  BY <1>0 DEF Ending, Exists
<1>4. \A q \in Process : /\ Saver(q)' => Saver(q) /\ proc'[q].pair = proc[q].pair
                        /\ \A j : Renews(q, j)' => Renews(q, j)
                        /\ proc'[q].pair \in {proc[q].pair, NoPair}
  BY <1>0 DEF Saver, Renews
<1>5. Known'
  <2>1. ASSUME NEW q \in Process
        PROVE  /\ proc'[q].pair.token <= drawn /\ proc'[q].pair.sid <= opened
               /\ Saver(q)' => proc'[q].pair.token > 0
               /\ proc'[q].phase \in {"renew", "end", "remove"} => proc'[q].pair.sid > 0
    BY <1>0, <1>4 DEF Known
  <2> QED BY <2>1 DEF Known
<1>6. SavingAlone'
  <2> SUFFICES ASSUME NEW p \in Process, Saver(p)'
               PROVE  /\ file'.pair.token # proc'[p].pair.token
                      /\ \A q \in Process \ {p} : proc'[q].pair.token # proc'[p].pair.token
                      /\ proc'[p].pair.sid \notin mishaps'["twice"] =>
                           /\ Exists(proc[p].pair.sid)' => Current(proc[p].pair)'
                           /\ \A q \in Process : ~Renews(q, proc[p].pair.sid)'
    BY DEF SavingAlone
  <2>1. Saver(p) /\ proc'[p].pair = proc[p].pair /\ proc[p].pair.token > 0
    BY <1>4 DEF Known
  <2>2. \A q \in Process \ {p} : proc'[q].pair.token # proc'[p].pair.token
    BY <1>0, <1>4, <2>1 DEF SavingAlone
  <2>3. ASSUME proc[p].pair.sid \notin mishaps["twice"]
        PROVE  /\ Exists(proc[p].pair.sid)' => Current(proc[p].pair)'
               /\ \A q \in Process : ~Renews(q, proc[p].pair.sid)'
    <3>1. /\ Exists(proc[p].pair.sid) => Current(proc[p].pair)
          /\ \A q \in Process : ~Renews(q, proc[p].pair.sid)
      BY <2>1, <2>3 DEF SavingAlone
    <3>2. Exists(proc[p].pair.sid)' => Current(proc[p].pair)'
      BY <1>2, <2>1, <3>1 DEF Current
    <3> QED BY <1>4, <3>1, <3>2
  <2> QED BY <1>1, <2>1, <2>2, <2>3 DEF SavingAlone
<1>7. RenewalFound'
  <2> SUFFICES ASSUME NEW q \in Process, proc'[q].phase = "renew"
               PROVE  Exists(proc[q].pair.sid)' \/ proc'[q].pair.sid \in mishaps'["ended"]
    BY DEF RenewalFound
  <2>1. proc[q].phase = "renew" /\ proc'[q].pair = proc[q].pair
    BY <1>0
  <2>2. proc[q].pair.sid = i => i \in Busy({"renew"})
    BY <2>1 DEF Busy
  <2> QED BY <1>1, <1>3, <2>1, <2>2 DEF RenewalFound
<1>8. ASSUME NEW j, Over(j) \/ j = i
      PROVE  Over(j)'
  <2>1. ASSUME j \notin mishaps'["ended"]
        PROVE  ~Exists(j)' /\ \A q \in Process : ~Renews(q, j)'
    <3>1. CASE Over(j)
      BY <1>1, <1>2, <1>4, <2>1, <3>1 DEF Over
    <3>2. CASE j = i
      <4>1. \A q \in Process : ~Renews(q, i)
        BY <1>1, <2>1, <3>2 DEF Renews, Busy
      <4> QED BY <1>2, <1>4, <3>2, <4>1
    <3> QED BY <1>8, <3>1, <3>2
  <2>2. ASSUME j \notin mishaps'["ended"] \cup mishaps'["unsaved"], NEW q \in Process, Saver(q)'
        PROVE  proc'[q].pair.sid # j
    <3>1. Saver(q) /\ proc'[q].pair = proc[q].pair
      BY <1>4, <2>2
    <3>2. CASE Over(j)
      BY <1>1, <2>2, <3>1, <3>2 DEF Over
    <3>3. CASE j = i
      BY <1>1, <2>2, <3>1, <3>3 DEF Saver, Busy
    <3> QED BY <1>8, <3>2, <3>3
  <2> QED BY <2>1, <2>2 DEF Over
<1>9. LogoutsOver'
  <2>1. LoggedOut' = LoggedOut
    BY <1>1 DEF LoggedOut
  <2>2. ASSUME NEW p \in Process, proc'[p].phase = "remove"
        PROVE  proc'[p].pair.sid \in mishaps'["logout"] \/ Over(proc[p].pair.sid)'
    <3>1. proc'[p].pair = proc[p].pair /\ (proc[p].phase = "remove" \/ proc[p].pair.sid = i)
      BY <1>0, <2>2
    <3> QED BY <1>1, <1>8, <3>1 DEF LogoutsOver
  <2>3. ASSUME NEW j \in LoggedOut
        PROVE  /\ Over(j)'
               /\ j \notin mishaps'["ended"] \cup mishaps'["unsaved"] => file'.pair.sid # j
    BY <1>1, <1>8 DEF LogoutsOver
  <2> QED BY <2>1, <2>2, <2>3 DEF LogoutsOver
<1> QED BY <1>5, <1>6, <1>7, <1>9

\* Session i, which no logout has ended for good, is saved with new tokens, and
\* command p, if it is there, handed them.
LEMMA DrawStep ==
  ASSUME TypeOK, SaveInv, NEW p \in Process, NEW i \in Sid, i \in 1 .. opened',
         opened' \in {opened, opened + 1}, drawn' = drawn + 1,
         UNCHANGED <<file, gone>>, Remembered,
         session'[i].token = drawn + 1,
         \A j \in Sid \ {i} : session'[j] = session[j],
         \A q \in Process \ {p} : proc'[q] = proc[q],
         \/ proc'[p] = Idle
         \/ /\ proc'[p].phase = "save" /\ proc'[p].pair.sid = i
            /\ proc'[p].pair.token = drawn + 1,
         \A q \in Process \ {p} :
           Renews(q, i) \/ (Saver(q) /\ proc[q].pair.sid = i) => i \in mishaps'["twice"],
         Over(i) /\ (i \in gone \/ \E q \in Process : proc[q].phase = "remove" /\ proc[q].pair.sid = i)
           => i \in mishaps["ended"]
  PROVE  SaveInv'
<1> USE DEF SaveInv
<1>0. /\ file.pair.token \in Nat /\ file.pair.sid \in Nat /\ opened \in Nat /\ drawn \in Nat
      /\ \A q \in Process : proc[q].pair.token \in Nat /\ proc[q].pair.sid \in Nat
      /\ NoPair.token = 0 /\ NoPair.sid = 0
      /\ Idle.phase = "idle" /\ Idle.pair = NoPair
  BY Shapes
<1>1. Exists(i)' /\ \A j : j # i => (Exists(j)' <=> Exists(j))
  <2>1. Exists(i)'
    BY <1>0 DEF Exists
  <2>2. ASSUME NEW j, j # i
        PROVE  Exists(j)' <=> Exists(j)
    BY <2>2 DEF Exists
  <2> QED BY <2>1, <2>2
<1>2. /\ file.pair.token <= drawn /\ file.pair.sid <= opened
      /\ \A q \in Process : proc[q].pair.token <= drawn /\ proc[q].pair.sid <= opened
  BY DEF Known
<1>3. Known'
  <2>1. file.pair.token <= drawn + 1 /\ file.pair.sid <= opened' /\ gone \subseteq 1 .. opened'
    BY <1>0, <1>2 DEF Known
  <2>2. ASSUME NEW q \in Process
        PROVE  /\ proc'[q].pair.token <= drawn + 1 /\ proc'[q].pair.sid <= opened'
               /\ Saver(q)' => proc'[q].pair.token > 0
               /\ proc'[q].phase \in {"renew", "end", "remove"} => proc'[q].pair.sid > 0
    <3>1. CASE q = p
      <4>1. CASE proc'[p] = Idle
        BY <1>0, <3>1, <4>1 DEF Saver
      <4>2. CASE /\ proc'[p].phase = "save" /\ proc'[p].pair.sid = i
                 /\ proc'[p].pair.token = drawn + 1
        BY <1>0, <3>1, <4>2
      <4> QED BY <4>1, <4>2
    <3>2. CASE q # p
      <4>1. proc'[q] = proc[q]
        BY <3>2
      <4>2. proc[q].pair.token <= drawn + 1 /\ proc[q].pair.sid <= opened'
        BY <1>0, <1>2
      <4> QED BY <4>1, <4>2 DEF Known, Saver
    <3> QED BY <3>1, <3>2
  <2> QED BY <2>1, <2>2 DEF Known
<1>4. SavingAlone'
  <2> SUFFICES ASSUME NEW q \in Process, Saver(q)'
               PROVE  /\ file'.pair.token # proc'[q].pair.token
                      /\ \A o \in Process \ {q} : proc'[o].pair.token # proc'[q].pair.token
                      /\ proc'[q].pair.sid \notin mishaps'["twice"] =>
                           /\ Exists(proc[q].pair.sid)' => Current(proc[q].pair)'
                           /\ \A o \in Process : ~Renews(o, proc[q].pair.sid)'
    BY DEF SavingAlone
  <2>1. CASE q = p
    <3>1. /\ proc'[p].phase = "save" /\ proc'[p].pair.sid = i
          /\ proc'[p].pair.token = drawn + 1
      BY <1>0, <2>1 DEF Saver
    <3>2. \A o \in Process \ {p} : proc'[o].pair.token # drawn + 1
      BY <1>0, <1>2
    <3>3. file.pair.token # drawn + 1
      BY <1>0, <1>2
    <3>4. Current(proc[p].pair)'
      BY <1>1, <3>1 DEF Current
    <3>5. ASSUME i \notin mishaps'["twice"], NEW o \in Process
          PROVE  ~Renews(o, proc[p].pair.sid)'
      <4>1. CASE o = p
        BY <3>1, <4>1 DEF Renews
      <4>2. CASE o # p
        BY <3>1, <3>5, <4>2 DEF Renews
      <4> QED BY <4>1, <4>2
    <3> QED BY <2>1, <3>1, <3>2, <3>3, <3>4, <3>5
  <2>2. CASE q # p
    <3>1. Saver(q) /\ proc'[q] = proc[q] /\ proc[q].pair.token > 0
      BY <2>2 DEF Saver, Known
    <3>2. \A o \in Process \ {q} : proc'[o].pair.token # proc[q].pair.token
      <4>1. proc'[p].pair.token # proc[q].pair.token
        BY <1>0, <1>2, <3>1
      <4> QED BY <3>1, <4>1 DEF SavingAlone
    <3>3. ASSUME proc[q].pair.sid \notin mishaps'["twice"]
          PROVE  /\ Exists(proc[q].pair.sid)' => Current(proc[q].pair)'
                 /\ \A o \in Process : ~Renews(o, proc[q].pair.sid)'
      <4>1. proc[q].pair.sid # i /\ proc[q].pair.sid \notin mishaps["twice"]
        BY <2>2, <3>1, <3>3 DEF Remembered
      <4>2. /\ Exists(proc[q].pair.sid) => Current(proc[q].pair)
            /\ \A o \in Process : ~Renews(o, proc[q].pair.sid)
        BY <3>1, <4>1 DEF SavingAlone
      <4>3. Exists(proc[q].pair.sid)' => Current(proc[q].pair)'
        BY <1>1, <3>1, <4>1, <4>2 DEF Current, Exists
      <4>4. \A o \in Process : ~Renews(o, proc[q].pair.sid)'
        <5>1. ~Renews(p, proc[q].pair.sid)'
          BY <1>0 DEF Renews
        <5> QED BY <3>1, <4>2, <5>1 DEF Renews
      <4> QED BY <4>3, <4>4
    <3> QED BY <3>1, <3>2, <3>3 DEF SavingAlone
  <2> QED BY <2>1, <2>2
<1>5. RenewalFound'
  <2> SUFFICES ASSUME NEW q \in Process, proc'[q].phase = "renew"
               PROVE  Exists(proc[q].pair.sid)' \/ proc'[q].pair.sid \in mishaps'["ended"]
    BY DEF RenewalFound
  <2>1. proc'[q] = proc[q]
    BY <1>0
  <2> QED BY <1>1, <2>1 DEF RenewalFound, Remembered
<1>6. ASSUME NEW j, Over(j), j # i \/ j \in mishaps["ended"]
      PROVE  Over(j)'
  <2>1. j \in mishaps["ended"] => j \in mishaps'["ended"]
    BY DEF Remembered
  <2>2. CASE j \in mishaps'["ended"]
    BY <2>2 DEF Over
  <2>3. CASE j \notin mishaps'["ended"]
    <3>1. j # i /\ j \notin mishaps["ended"]
      BY <1>6, <2>1, <2>3
    <3>2. ~Exists(j)' /\ \A q \in Process : ~Renews(q, j)'
      <4>1. \A q \in Process : ~Renews(q, j)
        BY <1>6, <3>1 DEF Over
      <4>2. ~Renews(p, j)'
        BY <1>0 DEF Renews
      <4> QED BY <1>1, <1>6, <3>1, <4>1, <4>2 DEF Over, Renews
    <3>3. ASSUME j \notin mishaps'["unsaved"], NEW q \in Process, Saver(q)'
          PROVE  proc'[q].pair.sid # j
      <4>1. j \notin mishaps["unsaved"]
        BY <3>3 DEF Remembered
      <4>2. CASE q = p
        BY <1>0, <3>1, <3>3, <4>2 DEF Saver
      <4>3. CASE q # p
        BY <1>6, <3>1, <3>3, <4>1, <4>3 DEF Over, Saver
      <4> QED BY <4>2, <4>3
    <3> QED BY <3>2, <3>3 DEF Over
  <2> QED BY <2>2, <2>3
<1>7. LogoutsOver'
  <2>1. LoggedOut' \subseteq LoggedOut /\ LoggedOut \subseteq gone
    BY DEF LoggedOut, Remembered
  <2>2. ASSUME NEW q \in Process, proc'[q].phase = "remove"
        PROVE  proc'[q].pair.sid \in mishaps'["logout"] \/ Over(proc[q].pair.sid)'
    <3>1. proc'[q] = proc[q]
      BY <1>0, <2>2
    <3>2. CASE proc[q].pair.sid \in mishaps["logout"]
      BY <3>1, <3>2 DEF Remembered
    <3>3. CASE Over(proc[q].pair.sid)
      <4> DEFINE j == proc[q].pair.sid
      <4>1. j # i \/ j \in mishaps["ended"]
        BY <2>2, <3>1, <3>3
      <4>2. Over(j)' => Over(proc[q].pair.sid)'
        OBVIOUS
      <4>3. \A k : Over(k) /\ (k # i \/ k \in mishaps["ended"]) => Over(k)'
        BY <1>6
      <4>4. \A k : k = proc'[q].pair.sid /\ Over(k)' => Over(proc[q].pair.sid)'
        BY DEF Over, Renews, Exists
      <4> QED BY <3>1, <3>3, <4>1, <4>3, <4>4
    <3> QED BY <2>2, <3>1, <3>2, <3>3 DEF LogoutsOver
  <2>3. ASSUME NEW j \in LoggedOut'
        PROVE  /\ Over(j)'
               /\ j \notin mishaps'["ended"] \cup mishaps'["unsaved"] => file'.pair.sid # j
    BY <1>6, <2>1 DEF LogoutsOver, Remembered
  <2> QED BY <2>2, <2>3 DEF LogoutsOver
<1> QED BY <1>3, <1>4, <1>5, <1>7

\* Writing the file: it is the writer's own tokens that get into it.
LEMMA WriteStep ==
  ASSUME TypeOK, SaveInv, NEW p \in Process, Write(p)
  PROVE  SaveInv'
<1> USE DEF SaveInv
<1>0. /\ opened \in Nat /\ drawn \in Nat /\ proc \in [Process -> Command]
      /\ file.pair.token \in Nat /\ file.pair.sid \in Nat
      /\ NoPair.token = 0 /\ NoPair.sid = 0
      /\ Idle.phase = "idle" /\ Idle.pair = NoPair
  BY Shapes
<1>1. /\ \A q \in Process \ {p} : proc'[q] = proc[q]
      /\ proc'[p] = Idle
  BY <1>0 DEF Write, Stop
<1>2. /\ UNCHANGED <<session, opened, drawn, gone, mishaps>>
      /\ file'.pair \in {file.pair, proc[p].pair} /\ proc[p].phase = "write"
  BY DEF Write
<1>3. \A q \in Process : /\ Saver(q)' => Saver(q) /\ q # p /\ proc'[q] = proc[q]
                        /\ \A j : Renews(q, j)' => Renews(q, j)
  BY <1>0, <1>1 DEF Saver, Renews
<1>4. \A j : Exists(j)' <=> Exists(j)
  BY <1>2 DEF Exists
<1>5. Known'
  <2>1. file'.pair.token <= drawn /\ file'.pair.sid <= opened
    BY <1>2 DEF Known
  <2>2. ASSUME NEW q \in Process
        PROVE  /\ proc'[q].pair.token <= drawn /\ proc'[q].pair.sid <= opened
               /\ Saver(q)' => proc'[q].pair.token > 0
               /\ proc'[q].phase \in {"renew", "end", "remove"} => proc'[q].pair.sid > 0
    BY <1>0, <1>1, <1>3 DEF Known
  <2> QED BY <1>2, <2>1, <2>2 DEF Known
<1>6. SavingAlone'
  <2> SUFFICES ASSUME NEW q \in Process, Saver(q)'
               PROVE  /\ file'.pair.token # proc'[q].pair.token
                      /\ \A o \in Process \ {q} : proc'[o].pair.token # proc'[q].pair.token
                      /\ proc'[q].pair.sid \notin mishaps'["twice"] =>
                           /\ Exists(proc[q].pair.sid)' => Current(proc[q].pair)'
                           /\ \A o \in Process : ~Renews(o, proc[q].pair.sid)'
    BY DEF SavingAlone
  <2>1. Saver(q) /\ q # p /\ proc'[q] = proc[q] /\ proc[q].pair.token > 0
    BY <1>3 DEF Known
  <2>2. /\ file'.pair.token # proc[q].pair.token
        /\ \A o \in Process \ {q} : proc'[o].pair.token # proc[q].pair.token
    BY <1>0, <1>1, <1>2, <2>1 DEF SavingAlone
  <2>3. proc[q].pair.sid \notin mishaps["twice"] =>
          /\ Exists(proc[q].pair.sid) => Current(proc[q].pair)
          /\ \A o \in Process : ~Renews(o, proc[q].pair.sid)
    BY <2>1 DEF SavingAlone
  <2> QED BY <1>2, <1>3, <1>4, <2>1, <2>2, <2>3 DEF Current
<1>7. RenewalFound'
  BY <1>0, <1>1, <1>2, <1>4 DEF RenewalFound
<1>8. ASSUME NEW i, Over(i)
      PROVE  Over(i)'
  BY <1>2, <1>3, <1>4, <1>8 DEF Over
<1>9. LogoutsOver'
  <2>1. LoggedOut' = LoggedOut /\ \A i \in LoggedOut : i # 0
    BY <1>2 DEF LoggedOut, Known
  <2>2. ASSUME NEW q \in Process, proc'[q].phase = "remove"
        PROVE  proc'[q].pair.sid \in mishaps'["logout"] \/ Over(proc[q].pair.sid)'
    BY <1>0, <1>1, <1>2, <1>8, <2>2 DEF LogoutsOver
  <2>3. ASSUME NEW i \in LoggedOut, i \notin mishaps["ended"] \cup mishaps["unsaved"]
        PROVE  file'.pair.sid # i
    <3>1. proc[p].pair.sid # i
      BY <1>2, <2>1, <2>3 DEF LogoutsOver, Over, Saver
    <3> QED BY <1>2, <2>3, <3>1 DEF LogoutsOver
  <2> QED BY <1>2, <1>8, <2>1, <2>2, <2>3 DEF LogoutsOver
<1> QED BY <1>5, <1>6, <1>7, <1>9

\* The removal of the file at the end of a logout.
LEMMA RemoveStep ==
  ASSUME TypeOK, SaveInv, NEW p \in Process, Remove(p)
  PROVE  SaveInv'
<1> USE DEF SaveInv
<1>0. /\ opened \in Nat /\ drawn \in Nat /\ proc \in [Process -> Command]
      /\ \A q \in Process : proc[q].pair.token \in Nat /\ proc[q].pair.sid \in Nat
      /\ NoPair.token = 0 /\ NoPair.sid = 0 /\ NoFile.pair = NoPair
      /\ Idle.phase = "idle" /\ Idle.pair = NoPair
  BY Shapes
<1>1. /\ \A q \in Process \ {p} : /\ proc'[q].pair = proc[q].pair
                                /\ proc'[q].phase = proc[q].phase
      /\ proc'[p] = Idle
  BY <1>0 DEF Remove, Command
<1>2. /\ UNCHANGED <<session, opened, drawn, mishaps>> /\ file' = NoFile
      /\ gone' = gone \cup {proc[p].pair.sid} /\ proc[p].phase = "remove"
  BY DEF Remove
<1>3. \A q \in Process : /\ Saver(q)' => Saver(q) /\ q # p
                        /\ \A j : Renews(q, j)' => Renews(q, j)
  BY <1>0, <1>1 DEF Saver, Renews
<1>4. \A j : Exists(j)' <=> Exists(j)
  BY <1>2 DEF Exists
<1>5. Known'
  <2>1. ASSUME NEW q \in Process
        PROVE  /\ proc'[q].pair.token <= drawn /\ proc'[q].pair.sid <= opened
               /\ Saver(q)' => proc'[q].pair.token > 0
               /\ proc'[q].phase \in {"renew", "end", "remove"} => proc'[q].pair.sid > 0
    BY <1>0, <1>1, <1>3 DEF Known
  <2>2. proc[p].pair.sid \in 1 .. opened
    BY <1>0, <1>2 DEF Known
  <2>3. file'.pair.token <= drawn /\ file'.pair.sid <= opened /\ gone' \subseteq 1 .. opened
    <3>1. gone' \subseteq 1 .. opened
      BY <1>2, <2>2 DEF Known
    <3>2. file'.pair.token = 0 /\ file'.pair.sid = 0
      BY <1>0, <1>2
    <3> QED BY <1>0, <3>1, <3>2
  <2> QED BY <1>2, <2>1, <2>3 DEF Known
<1>6. SavingAlone'
  <2> SUFFICES ASSUME NEW q \in Process, Saver(q)'
               PROVE  /\ file'.pair.token # proc'[q].pair.token
                      /\ \A o \in Process \ {q} : proc'[o].pair.token # proc'[q].pair.token
                      /\ proc'[q].pair.sid \notin mishaps'["twice"] =>
                           /\ Exists(proc[q].pair.sid)' => Current(proc[q].pair)'
                           /\ \A o \in Process : ~Renews(o, proc[q].pair.sid)'
    BY DEF SavingAlone
  <2>1. Saver(q) /\ q # p /\ proc'[q].pair = proc[q].pair /\ proc[q].pair.token > 0
    BY <1>1, <1>3 DEF Known
  <2>2. \A o \in Process \ {q} : proc'[o].pair.token # proc[q].pair.token
    BY <1>0, <1>1, <2>1 DEF SavingAlone
  <2>3. proc[q].pair.sid \notin mishaps["twice"] =>
          /\ Exists(proc[q].pair.sid) => Current(proc[q].pair)
          /\ \A o \in Process : ~Renews(o, proc[q].pair.sid)
    BY <2>1 DEF SavingAlone
  <2> QED BY <1>0, <1>2, <1>3, <1>4, <2>1, <2>2, <2>3 DEF Current
<1>7. RenewalFound'
  BY <1>0, <1>1, <1>2, <1>4 DEF RenewalFound
<1>8. ASSUME NEW i, Over(i)
      PROVE  Over(i)'
  BY <1>1, <1>2, <1>3, <1>4, <1>8 DEF Over
<1>9. LogoutsOver'
  <2>1. ASSUME NEW q \in Process, proc'[q].phase = "remove"
        PROVE  proc'[q].pair.sid \in mishaps'["logout"] \/ Over(proc[q].pair.sid)'
    BY <1>0, <1>1, <1>2, <1>8, <2>1 DEF LogoutsOver
  <2>2. ASSUME NEW i \in LoggedOut'
        PROVE  Over(i)' /\ file'.pair.sid # i
    <3>1. i \in gone' /\ i \notin mishaps["logout"] /\ i > 0
      BY <1>0, <1>2, <2>2 DEF LoggedOut, Known
    <3>2. Over(i)
      BY <1>2, <3>1 DEF LogoutsOver, LoggedOut
    <3> QED BY <1>0, <1>2, <1>8, <3>1, <3>2
  <2> QED BY <2>1, <2>2 DEF LogoutsOver
<1> QED BY <1>5, <1>6, <1>7, <1>9

\* No step brings a session back that a logout has ended, nor gives a command the
\* tokens another is about to save, but for what went wrong.
LEMMA SaveStep ==
  ASSUME TypeOK, SaveInv, [Next]_vars
  PROVE  SaveInv'
<1> USE DEF SaveInv
<1>0. /\ proc \in [Process -> Command] /\ session \in [Sid -> Session]
      /\ Idle.phase = "idle" /\ Idle.pair = NoPair /\ NoPair.sid = 0 /\ NoPair.token = 0
      /\ drawn \in Nat /\ opened \in Nat /\ NoFile.pair = NoPair
      /\ \A q \in Process : proc[q].pair.sid \in Nat
  BY Shapes
<1>00. mishaps' = mishaps => Remembered
  BY DEF Remembered
<1>1. CASE UNCHANGED vars
  BY <1>1, <1>00, QuietStep DEF vars, Saver
<1>2. ASSUME NEW p \in Process, Login(p)
      PROVE  SaveInv'
  <2>1. CASE UNCHANGED server
    <3>1. /\ \A q \in Process \ {p} : proc'[q] = proc[q]
          /\ proc'[p].pair = NoPair /\ proc'[p].phase = "save"
      <4>1. proc' = [proc EXCEPT ![p] = Saving(NoPair)]
        BY <1>0, <1>2, <2>1 DEF Login
      <4> QED BY <1>0, <4>1 DEF Saving, Idle
    <3>2. UNCHANGED <<session, opened, drawn, gone, file, mishaps>>
      BY <1>2, <2>1 DEF Login
    <3> QED BY <1>0, <1>00, <3>1, <3>2, QuietStep DEF Saver
  <2>2. CASE opened < MaxSessions /\ opened' = opened + 1 /\ drawn' = drawn + 1
    <3> DEFINE i == opened + 1
               stored == Drawn(drawn + 1, clock)
               pair == [sid |-> i, token |-> drawn + 1, expire |-> stored.expire]
               r == Saving(pair)
    <3>1. i \in Sid /\ i \in 1 .. opened'
      BY <1>0, <2>2, LifeAssumption DEF Sid
    <3>2. session' = [session EXCEPT ![i] = stored] /\ proc' = [proc EXCEPT ![p] = r]
      BY <1>2, <2>2, <1>0 DEF Login
    <3>3. /\ r.phase = "save" /\ r.pair.sid = i /\ r.pair.token = drawn + 1
          /\ session'[i].token = drawn + 1
      BY <1>0, <3>1, <3>2 DEF Saving, Idle, Drawn
    <3>4. /\ \A q \in Process : proc[q].pair.sid # i
          /\ i \notin gone
      BY <1>0 DEF Known
    <3>5. /\ UNCHANGED <<file, gone>> /\ Remembered
          /\ \A j \in Sid \ {i} : session'[j] = session[j]
          /\ \A q \in Process \ {p} : proc'[q] = proc[q]
          /\ proc'[p] = r
      BY <1>0, <1>00, <1>2, <3>2 DEF Login
    <3> HIDE DEF i, r
    <3>6. opened' \in {opened, opened + 1} /\ drawn' = drawn + 1
      BY <2>2
    <3>7. \A q \in Process : ~Renews(q, i) /\ proc[q].pair.sid # i
      BY <3>4 DEF Renews
    <3> QED BY <3>1, <3>3, <3>4, <3>5, <3>6, <3>7, DrawStep
  <2> QED BY <1>2, <2>1, <2>2 DEF Login
<1>3. ASSUME NEW p \in Process, Load(p)
      PROVE  SaveInv'
  <2>1. /\ \A q \in Process \ {p} : proc'[q] = proc[q]
        /\ proc'[p].pair = file.pair /\ proc'[p].phase \in {"refresh", "logout"}
    BY <1>0, <1>3 DEF Load, Loaded, Idle
  <2>2. UNCHANGED <<session, opened, drawn, gone, file, mishaps>>
    BY <1>3 DEF Load
  <2> QED BY <1>00, <2>1, <2>2, QuietStep DEF Saver
<1>4. ASSUME NEW p \in Process, Refresh(p) \/ Logout(p)
      PROVE  SaveInv'
  <2>1. /\ \A q \in Process \ {p} : proc'[q] = proc[q]
        /\ \/ proc'[p] = Idle
           \/ /\ proc'[p].pair = proc[p].pair /\ proc'[p].phase \in {"renew", "end"}
              /\ Current(proc[p].pair)
    BY <1>0, <1>4 DEF Refresh, Logout, Refused, Stop, Goto, Command, Valid
  <2>2. UNCHANGED <<session, opened, drawn, gone, file, mishaps>>
    BY <1>4 DEF Refresh, Logout
  <2>3. ~Saver(p)
    BY <1>4 DEF Refresh, Logout, Saver
  <2> QED BY <1>0, <1>00, <2>1, <2>2, <2>3, QuietStep DEF Saver
<1>5. ASSUME NEW p \in Process, Regenerate(p)
      PROVE  SaveInv'
  <2>0. proc[p].phase = "renew" /\ UNCHANGED <<file, gone>>
    BY <1>5 DEF Regenerate
  <2>1. CASE UNCHANGED <<session, opened, drawn, mishaps>> /\ Stop(p)
    <3>1. /\ \A q \in Process \ {p} : proc'[q] = proc[q]
          /\ proc'[p] = Idle
      BY <1>0, <2>1 DEF Stop
    <3> QED BY <1>0, <1>00, <2>0, <2>1, <3>1, QuietStep DEF Saver
  <2>2. CASE drawn' = drawn + 1
    <3> DEFINE i == proc[p].pair.sid
               stored == Drawn(drawn + 1, clock)
               pair == [sid |-> i, token |-> drawn + 1, expire |-> stored.expire]
               r == Refreshed(proc[p], pair)
    <3>1. /\ session' = [session EXCEPT ![i] = stored] /\ opened' = opened
          /\ Respond(p, r)
          /\ IF \E q \in Process \ {p} : proc[q].phase = "renew" /\ proc[q].pair.sid = i
             THEN Blame("twice", i) ELSE mishaps' = mishaps
      BY <1>0, <1>5, <2>2 DEF Regenerate
    <3>2. i \in 1 .. opened /\ i \in Sid
      <4>1. i \in 1 .. opened
        BY <1>0, <2>0 DEF Known
      <4> QED BY <4>1, LifeAssumption DEF Sid, TypeOK
    <3>3. /\ r.phase = "save" /\ r.pair.sid = i /\ r.pair.token = drawn + 1
          /\ session'[i].token = drawn + 1
          /\ \A j \in Sid \ {i} : session'[j] = session[j]
      BY <1>0, <3>1, <3>2 DEF Refreshed, Command, Drawn
    <3>4. /\ \A q \in Process \ {p} : proc'[q] = proc[q]
          /\ proc'[p] = r \/ proc'[p] = Idle
      BY <3>1, RespondForms
    <3>5. Remembered /\ ((\E q \in Process \ {p} : Renews(q, i)) => i \in mishaps'["twice"])
      BY <3>1, <3>2, MishapsGrow DEF Remembered, Renews
    <3>6. \A q \in Process : Saver(q) /\ proc[q].pair.sid = i => i \in mishaps["twice"]
      BY <2>0 DEF SavingAlone, Renews
    <3>7. Over(i) => i \in mishaps["ended"]
      BY <2>0 DEF Over, Renews
    <3>8. \A q \in Process \ {p} :
            Renews(q, i) \/ (Saver(q) /\ proc[q].pair.sid = i) => i \in mishaps'["twice"]
      BY <3>5, <3>6 DEF Remembered
    <3> HIDE DEF i, r
    <3>9. i \in 1 .. opened' /\ opened' \in {opened, opened + 1}
      BY <3>1, <3>2
    <3> QED BY <2>0, <2>2, <3>2, <3>3, <3>4, <3>5, <3>7, <3>8, <3>9, DrawStep
  <2> QED BY <1>5, <2>1, <2>2 DEF Regenerate
<1>6. ASSUME NEW p \in Process, Create(p)
      PROVE  SaveInv'
  <2>1. /\ \A q \in Process \ {p} : proc'[q] = proc[q]
        /\ proc'[p].pair = proc[p].pair /\ proc'[p].phase = "write"
        /\ proc[p].phase = "save" /\ file'.pair = NoPair
        /\ UNCHANGED <<session, opened, drawn, gone, mishaps>>
    BY <1>0, <1>6 DEF Create, Command
  <2> QED BY <1>00, <2>1, QuietStep DEF Saver
<1>7. ASSUME NEW p \in Process, Write(p)
      PROVE  SaveInv'
  BY <1>7, WriteStep
<1>8. ASSUME NEW p \in Process, Kill(p) \/ Fail(p)
      PROVE  SaveInv'
  <2>1. /\ \A q \in Process \ {p} : proc'[q] = proc[q]
        /\ \/ proc'[p] = Idle
           \/ proc'[p].pair = proc[p].pair /\ proc'[p].phase = proc[p].phase
        /\ UNCHANGED <<session, opened, drawn, gone, file, mishaps>>
    <3>1. CASE Fail(p)
      BY <1>0, <3>1 DEF Fail, Stop
    <3>2. CASE Kill(p)
      <4>1. proc[p] \in Command
        BY <1>0
      <4> QED BY <1>0, <3>2, <4>1 DEF Kill, Command
    <3> QED BY <1>8, <3>1, <3>2
  <2> QED BY <1>0, <1>00, <2>1, QuietStep DEF Saver
<1>9. ASSUME NEW p \in Process, End(p)
      PROVE  SaveInv'
  <2> DEFINE i == proc[p].pair.sid
             r == [proc[p] EXCEPT !.phase = "remove"]
  <2>0. /\ proc[p].phase = "end" /\ UNCHANGED <<opened, drawn, file, gone>>
        /\ i \in Sid \cup {0} /\ r.phase = "remove" /\ r.pair = proc[p].pair
    BY <1>0, <1>9 DEF End, Command, Pair
  <2>1. CASE Exists(i) /\ Ending(i) /\ Respond(p, r)
    <3>1. /\ \A q \in Process \ {p} : proc'[q] = proc[q]
          /\ proc'[p] = r \/ proc'[p] = Idle
      BY <2>1, RespondForms
    <3>2. i \in Sid
      BY <2>1 DEF Exists
    <3> HIDE DEF i, r
    <3>3. \A q \in Process :
            \/ proc'[q].phase = proc[q].phase /\ proc'[q].pair = proc[q].pair
            \/ proc'[q] = Idle
            \/ /\ proc[q].phase = "end" /\ proc'[q].phase = "remove"
               /\ proc'[q].pair = proc[q].pair /\ proc[q].pair.sid = i
      BY <2>0, <3>1 DEF i
    <3> QED BY <2>0, <2>1, <3>2, <3>3, EndStep
  <2>2. CASE Respond(p, Refused(proc[p])) /\ UNCHANGED <<session, mishaps>>
    <3>1. /\ \A q \in Process \ {p} : proc'[q] = proc[q]
          /\ proc'[p] = Idle
      BY <2>2, RespondForms DEF Refused
    <3> QED BY <1>0, <1>00, <2>0, <2>2, <3>1, QuietStep DEF Saver
  <2>3. CASE Blame("logout", i) /\ Respond(p, r) /\ session' = session
    <3>1. /\ \A q \in Process \ {p} : proc'[q] = proc[q]
          /\ proc'[p] = r \/ proc'[p] = Idle
      BY <2>3, RespondForms
    <3>2. Remembered /\ i \in mishaps'["logout"]
      BY <2>0, <2>3, MishapsGrow DEF Remembered
    <3> HIDE DEF r
    <3> QED BY <1>0, <2>0, <2>3, <3>1, <3>2, QuietStep DEF Saver
  <2> QED BY <1>9, <2>1, <2>2, <2>3 DEF End
<1>10. ASSUME NEW p \in Process, Remove(p)
       PROVE  SaveInv'
  BY <1>10, RemoveStep
<1>11. ASSUME NEW i \in Sid, Terminate(i)
       PROVE  SaveInv'
  BY <1>11, EndStep DEF Terminate
<1>12. CASE Tick
  BY <1>00, <1>12, QuietStep DEF Tick, Saver
<1> QED BY <1>1, <1>2, <1>3, <1>4, <1>5, <1>6, <1>7, <1>8, <1>9, <1>10, <1>11, <1>12 DEF Next

\* A session that sfc logout has ended comes back only if it was ended while the
\* server refreshed it, and into the file only then or if its new tokens had yet
\* to be saved: for any number of commands at a time.
THEOREM LogoutIsFinal == Spec => []LogoutEnds
<1>1. Init => SaveInv
  BY DEF Init, SaveInv, Known, SavingAlone, RenewalFound, LogoutsOver, LoggedOut, Saver, Idle,
         NoPair, NoFile
<1>2. TypeOK /\ SaveInv /\ [Next]_vars => SaveInv'
  BY SaveStep
<1>3. SaveInv => LogoutEnds
  BY DEF SaveInv, LogoutsOver, Over, LogoutEnds
<1> QED BY <1>1, <1>2, <1>3, TypeCorrect, PTL DEF Spec

-----------------------------------------------------------------------------
(* What is in the file.                                                    *)

\* A step that leaves the file alone, and with it every command about to save,
\* and gives the session of the file no other tokens.
LEMMA QuietFile ==
  ASSUME TypeOK, FileInv, UNCHANGED file, ~cut' => ~cut, Remembered,
         Exists(file.pair.sid)' =>
           Exists(file.pair.sid) /\ session'[file.pair.sid] = session[file.pair.sid],
         \A q \in Process :
           /\ proc'[q].phase = "write" => proc[q].phase = "write" /\ proc'[q].linked = proc[q].linked
           /\ ~cut' /\ proc[q].phase = "write" => proc'[q].phase = "write"
           /\ ~cut' /\ proc[q].phase = "save" /\ ~proc[q].login =>
                proc'[q].phase = "save" /\ ~proc'[q].login /\ proc'[q].pair = proc[q].pair
           /\ proc'[q].login => proc'[q].phase \in {"save", "write"}
  PROVE  FileInv'
<1> USE DEF FileInv
<1>1. OneWriter'
  BY DEF OneWriter
<1>2. LoginSaves'
  BY DEF LoginSaves
<1>3. FileUsable'
  <2> SUFFICES ASSUME ~cut'
               PROVE  FileUsable'
    BY DEF FileUsable
  <2>1. ASSUME file.state = "whole", Exists(file.pair.sid)'
        PROVE  \/ Current(file.pair)'
               \/ \E q \in Process : /\ proc'[q].phase = "save" /\ ~proc'[q].login
                                     /\ proc'[q].pair.sid = file.pair.sid
                                     /\ Current(proc[q].pair)'
               \/ file.pair.sid \in mishaps'["twice"]
    <3>1. CASE Current(file.pair)
      BY <2>1, <3>1 DEF Current
    <3>2. ASSUME NEW q \in Process, proc[q].phase = "save", ~proc[q].login,
                 proc[q].pair.sid = file.pair.sid, Current(proc[q].pair)
          PROVE  /\ proc'[q].phase = "save" /\ ~proc'[q].login
                 /\ proc'[q].pair.sid = file.pair.sid /\ Current(proc[q].pair)'
      BY <2>1, <3>2 DEF Current
    <3>3. CASE file.pair.sid \in mishaps["twice"]
      BY <3>3 DEF Remembered
    <3> QED BY <2>1, <3>1, <3>2, <3>3 DEF FileUsable
  <2>2. ASSUME file.state \in {"empty", "broken"}
        PROVE  \E q \in Process : proc'[q].phase = "write"
    BY <2>2 DEF FileUsable
  <2> QED BY <2>1, <2>2 DEF FileUsable
<1> QED BY <1>1, <1>2, <1>3

\* Only a save cut short or two at once, and a session refreshed twice at once,
\* leave a file nobody can use.
LEMMA FileStep ==
  ASSUME TypeOK, SaveInv, FileInv, [Next]_vars
  PROVE  FileInv'
<1> USE DEF FileInv
<1>0. /\ file.pair.sid \in Nat /\ proc \in [Process -> Command]
      /\ session \in [Sid -> Session] /\ opened \in Nat /\ drawn \in Nat
      /\ Idle.phase = "idle" /\ Idle.login = FALSE /\ None.token = 0
      /\ \A q \in Process : proc[q].pair.sid \in Nat
  BY Shapes
<1>00. mishaps' = mishaps => Remembered
  BY DEF Remembered
<1>000. ASSUME NEW i, session' = session \/ session' = [session EXCEPT ![i] = None]
        PROVE  Exists(file.pair.sid)' =>
                 \/ Exists(file.pair.sid) /\ session'[file.pair.sid] = session[file.pair.sid]
                 \/ file' # file
  <2>1. CASE session' = session /\ file' = file
    BY <2>1 DEF Exists
  <2>2. CASE session' = [session EXCEPT ![i] = None] /\ file' = file
    BY <1>0, <2>2 DEF Exists
  <2> QED BY <1>000, <2>1, <2>2
<1>1. CASE UNCHANGED vars
  BY <1>00, <1>1, QuietFile DEF vars, Exists, LoginSaves
<1>2. ASSUME NEW p \in Process, Login(p)
      PROVE  FileInv'
  <2>1. /\ UNCHANGED <<file, cut, mishaps>> /\ proc[p].phase = "idle"
        /\ \A q \in Process \ {p} : proc'[q] = proc[q]
        /\ proc'[p].phase = "save"
    <3>1. PICK pair : proc' = [proc EXCEPT ![p] = Saving(pair)]
      BY <1>2 DEF Login
    <3> QED BY <1>0, <1>2, <3>1 DEF Login, Saving, Idle
  <2>2. UNCHANGED session \/ \E x : session' = [session EXCEPT ![opened + 1] = x]
    BY <1>2 DEF Login
  <2>3. file.pair.sid # opened + 1
    BY <1>0 DEF SaveInv, Known
  <2>4. Exists(file.pair.sid)' =>
          Exists(file.pair.sid) /\ session'[file.pair.sid] = session[file.pair.sid]
    BY <1>0, <2>1, <2>2, <2>3 DEF Exists
  <2> QED BY <1>00, <2>1, <2>4, QuietFile DEF LoginSaves
<1>3. ASSUME NEW p \in Process, Load(p)
      PROVE  FileInv'
  <2>1. /\ \A q \in Process \ {p} : proc'[q] = proc[q]
        /\ proc[p].phase = "idle" /\ proc'[p].phase \in {"refresh", "logout"}
        /\ ~proc'[p].login /\ UNCHANGED <<session, file, cut, mishaps>>
    BY <1>0, <1>3 DEF Load, Loaded, Idle
  <2> QED BY <1>00, <2>1, QuietFile DEF Exists, LoginSaves
<1>4. ASSUME NEW p \in Process, Refresh(p) \/ Logout(p)
      PROVE  FileInv'
  <2>1. /\ UNCHANGED <<session, file, cut, mishaps>> /\ proc[p].phase \in {"refresh", "logout"}
        /\ ~proc[p].login
    BY <1>4 DEF Refresh, Logout, LoginSaves
  <2>2. /\ \A q \in Process \ {p} : proc'[q] = proc[q]
        /\ proc'[p].phase \in {"idle", "renew", "end"} /\ ~proc'[p].login
    BY <1>0, <1>4, <2>1 DEF Refresh, Logout, Refused, Stop, Goto, Command
  <2> QED BY <1>00, <2>1, <2>2, QuietFile DEF Exists, LoginSaves
<1>5. ASSUME NEW p \in Process, Regenerate(p)
      PROVE  FileInv'
  <2>0. /\ proc[p].phase = "renew" /\ UNCHANGED file
        /\ ~proc[p].login
    BY <1>5 DEF Regenerate, LoginSaves
  <2>1. CASE UNCHANGED <<session, opened, drawn, cut, mishaps>> /\ Stop(p)
    <3>1. /\ \A q \in Process \ {p} : proc'[q] = proc[q]
          /\ proc'[p] = Idle
      BY <1>0, <2>1 DEF Stop
    <3> QED BY <1>0, <1>00, <2>0, <2>1, <3>1, QuietFile DEF Exists, LoginSaves
  <2>2. CASE drawn' = drawn + 1
    <3> DEFINE i == proc[p].pair.sid
               stored == Drawn(drawn + 1, clock)
               pair == [sid |-> i, token |-> drawn + 1, expire |-> stored.expire]
               r == Refreshed(proc[p], pair)
    <3>1. /\ session' = [session EXCEPT ![i] = stored]
          /\ Respond(p, r) /\ cut' = (cut \/ ~proc[p].awaited)
          /\ Blame("twice", i) \/ mishaps' = mishaps
      BY <1>0, <1>5, <2>2 DEF Regenerate
    <3>2. i \in 1 .. opened /\ i \in Sid
      <4>1. i \in 1 .. opened
        BY <1>0, <2>0 DEF SaveInv, Known
      <4> QED BY <4>1, LifeAssumption DEF Sid, TypeOK
    <3>3. /\ r.phase = "save" /\ ~r.login /\ r.pair = pair
          /\ session'[i].token = drawn + 1
          /\ \A j : j # i => session'[j] = session[j]
      BY <1>0, <2>0, <3>1, <3>2 DEF Refreshed, Command, Drawn
    <3>4. /\ \A q \in Process \ {p} : proc'[q] = proc[q]
          /\ proc'[p] = IF proc[p].awaited THEN r ELSE Idle
      BY <3>1, RespondForms
    <3>5. Remembered
      BY <1>00, <3>1, <3>2, MishapsGrow DEF Remembered
    <3>6. CASE file.pair.sid = i
      <4>1. ASSUME ~cut'
            PROVE  proc'[p] = r /\ Current(proc[p].pair)'
        <5>1. proc'[p] = r
          BY <3>1, <3>4, <4>1
        <5>2. proc'[p].pair.sid = i /\ proc'[p].pair.token = drawn + 1
          BY <3>3, <5>1
        <5> QED BY <1>0, <3>2, <3>3, <5>1, <5>2 DEF Current, Exists
      <4>2. FileUsable'
        <5> SUFFICES ASSUME ~cut'
                     PROVE  FileUsable'
          BY DEF FileUsable
        <5>1. ~cut /\ \A q \in Process : proc[q].phase = "write" => proc'[q].phase = "write"
          BY <2>0, <3>1, <3>4
        <5>2. /\ proc'[p].phase = "save" /\ ~proc'[p].login
              /\ proc'[p].pair.sid = file'.pair.sid /\ Current(proc[p].pair)'
          BY <2>0, <3>3, <3>6, <4>1
        <5> QED BY <2>0, <5>1, <5>2 DEF FileUsable
      <4>3. \A q \in Process : proc'[q].phase = "write" =>
              q # p /\ proc'[q] = proc[q]
        BY <1>0, <3>3, <3>4
      <4>4. OneWriter'
        BY <2>0, <3>1, <4>3 DEF OneWriter
      <4>5. LoginSaves'
        BY <1>0, <3>3, <3>4 DEF LoginSaves
      <4> QED BY <4>2, <4>4, <4>5
    <3>7. CASE file.pair.sid # i
      <4> HIDE DEF r, i
      <4> QED BY <1>0, <2>0, <3>1, <3>3, <3>4, <3>5, <3>7, QuietFile DEF Exists, LoginSaves
    <3> QED BY <3>6, <3>7
  <2> QED BY <1>5, <2>1, <2>2 DEF Regenerate
<1>6. ASSUME NEW p \in Process, Create(p)
      PROVE  FileInv'
  <2>1. /\ \A q \in Process \ {p} : proc'[q] = proc[q]
        /\ proc'[p].phase = "write" /\ proc'[p].linked /\ file'.state = "empty"
        /\ ~cut' => \A q \in Process : proc[q].phase # "write"
    BY <1>0, <1>6 DEF Create, Command
  <2> QED BY <2>1 DEF OneWriter, LoginSaves, FileUsable
<1>7. ASSUME NEW p \in Process, Write(p)
      PROVE  FileInv'
  <2>1. /\ \A q \in Process \ {p} : proc'[q] = proc[q]
        /\ proc[p].phase = "write" /\ proc'[p] = Idle /\ UNCHANGED <<session, cut, mishaps>>
    BY <1>0, <1>7 DEF Write, Stop
  <2>2. LoginSaves'
    BY <1>0, <2>1 DEF LoginSaves
  <2>3. ~cut' => \A q \in Process : proc'[q].phase # "write"
    BY <1>0, <2>1 DEF OneWriter
  <2>4. OneWriter'
    BY <2>3 DEF OneWriter
  <2>5. ASSUME ~cut', proc[p].linked
        PROVE  FileUsable'
    <3>1. file' = [state |-> "whole", pair |-> proc[p].pair]
      BY <1>7, <2>1, <2>5 DEF Write, OneWriter
    <3>2. Exists(proc[p].pair.sid) =>
            Current(proc[p].pair) \/ proc[p].pair.sid \in mishaps["twice"]
      BY <2>1 DEF SaveInv, SavingAlone, Saver, Exists, Sid
    <3> QED BY <2>1, <3>1, <3>2 DEF FileUsable, Current, Exists
  <2>6. ASSUME ~cut', ~proc[p].linked
        PROVE  FileUsable'
    <3>1. file' = file /\ file.state = "absent"
      BY <1>7, <2>1, <2>6 DEF Write, OneWriter
    <3> QED BY <3>1 DEF FileUsable
  <2> QED BY <2>2, <2>4, <2>5, <2>6 DEF FileUsable
<1>8. ASSUME NEW p \in Process, Kill(p) \/ Fail(p)
      PROVE  FileInv'
  <2>1. /\ \A q \in Process \ {p} : proc'[q] = proc[q]
        /\ UNCHANGED <<session, file, mishaps>>
    BY <1>0, <1>8 DEF Kill, Fail, Stop
  <2>2. CASE /\ proc[p].phase = "renew" \/ proc[p].phase = "end"
             /\ proc'[p] = Idle \/ proc'[p] = [proc[p] EXCEPT !.awaited = FALSE]
             /\ cut' = cut
    <3>1. /\ proc'[p].phase \in {"idle", "renew", "end"} /\ ~proc'[p].login
      BY <1>0, <2>2 DEF Command, LoginSaves
    <3> QED BY <1>00, <2>1, <2>2, <3>1, QuietFile DEF Exists, LoginSaves
  <2>3. CASE /\ proc[p].phase \notin {"renew", "end"} /\ proc'[p] = Idle
             /\ ~cut' => /\ ~cut /\ proc[p].phase # "write"
                         /\ ~(proc[p].phase = "save" /\ ~proc[p].login)
    BY <1>0, <1>00, <2>1, <2>3, QuietFile DEF Exists, LoginSaves
  <2>4. ASSUME Kill(p)
        PROVE  /\ cut' = (cut \/ proc[p].phase = "write" \/ (proc[p].phase = "save" /\ ~proc[p].login))
               /\ proc'[p] = IF proc[p].phase \in {"renew", "end"}
                             THEN [proc[p] EXCEPT !.awaited = FALSE] ELSE Idle
    BY <1>0, <2>4 DEF Kill
  <2>5. ASSUME Fail(p)
        PROVE  proc[p].phase = "renew" /\ proc'[p] = Idle /\ cut' = cut
    BY <1>0, <2>5 DEF Fail, Stop
  <2>7. CASE Kill(p) /\ proc[p].phase \in {"renew", "end"}
    <3>1. cut' = cut
      BY <2>4, <2>7 DEF TypeOK
    <3> QED BY <2>2, <2>4, <2>7, <3>1
  <2>8. CASE Kill(p) /\ proc[p].phase \notin {"renew", "end"}
    <3>1. ~cut' => /\ ~cut /\ proc[p].phase # "write"
                  /\ ~(proc[p].phase = "save" /\ ~proc[p].login)
      BY <2>4, <2>8
    <3> QED BY <2>3, <2>4, <2>8, <3>1
  <2> QED BY <1>8, <2>2, <2>5, <2>7, <2>8
<1>9. ASSUME NEW p \in Process, End(p)
      PROVE  FileInv'
  <2>1. UNCHANGED <<file, cut>> /\ proc[p].phase = "end" /\ ~proc[p].login
    BY <1>9 DEF End, LoginSaves
  <2>2. Respond(p, [proc[p] EXCEPT !.phase = "remove"]) \/ Respond(p, Refused(proc[p]))
    BY <1>9 DEF End
  <2>3. /\ \A q \in Process \ {p} : proc'[q] = proc[q]
        /\ proc'[p].phase \in {"remove", "idle"} /\ ~proc'[p].login
    BY <1>0, <2>1, <2>2, RespondForms DEF Refused, Command
  <2>4. session' = session \/ session' = [session EXCEPT ![proc[p].pair.sid] = None]
    BY <1>9 DEF End, Ending
  <2>5. Remembered
    <3>1. Ending(proc[p].pair.sid) \/ Blame("logout", proc[p].pair.sid) \/ mishaps' = mishaps
      BY <1>9 DEF End
    <3>2. proc[p].pair.sid \in Sid \cup {0}
      BY <1>0 DEF Command, Pair
    <3> QED BY <1>00, <3>1, <3>2, MishapsGrow DEF Remembered
  <2> QED BY <1>000, <2>1, <2>3, <2>4, <2>5, QuietFile DEF LoginSaves
<1>10. ASSUME NEW p \in Process, Remove(p)
       PROVE  FileInv'
  <2>1. /\ \A q \in Process \ {p} : /\ proc'[q].phase = proc[q].phase
                                  /\ proc'[q].login = proc[q].login
                                  /\ ~proc'[q].linked
        /\ proc'[p] = Idle /\ file'.state = "absent" /\ UNCHANGED cut
    BY <1>0, <1>10 DEF Remove, Command, NoFile
  <2> QED BY <1>0, <2>1 DEF OneWriter, LoginSaves, FileUsable
<1>11. ASSUME NEW i \in Sid, Terminate(i)
       PROVE  FileInv'
  <2>1. UNCHANGED <<file, cut, proc>> /\ session' = [session EXCEPT ![i] = None]
    BY <1>11 DEF Terminate, Ending
  <2>2. Remembered
    BY <1>11, MishapsGrow DEF Terminate, Remembered
  <2> QED BY <1>000, <2>1, <2>2, QuietFile DEF LoginSaves
<1>12. CASE Tick
  BY <1>00, <1>12, QuietFile DEF Tick, Exists, LoginSaves
<1> QED BY <1>1, <1>2, <1>3, <1>4, <1>5, <1>6, <1>7, <1>8, <1>9, <1>10, <1>11, <1>12 DEF Next

\* For any number of commands at a time: unless a save is cut short or meets
\* another, or its session is refreshed twice at once, the file is usable or soon
\* will be.
THEOREM FileStaysUsable == Spec => []FileUsable
<1>1. Init => SaveInv /\ FileInv
  BY DEF Init, SaveInv, Known, SavingAlone, RenewalFound, LogoutsOver, LoggedOut, Saver, Idle,
         NoPair, NoFile, FileInv, OneWriter, LoginSaves, FileUsable
<1>2. TypeOK /\ SaveInv /\ FileInv /\ [Next]_vars => SaveInv' /\ FileInv'
  BY SaveStep, FileStep
<1>3. FileInv => FileUsable
  BY DEF FileInv
<1> QED BY <1>1, <1>2, <1>3, TypeCorrect, PTL DEF Spec

-----------------------------------------------------------------------------
(* The server as a registry of sessions.                                   *)

\* A session that is there was opened.
Numbered == \A i \in Sid : Exists(i) => i <= opened

\* The server opens a session, gives one that is there or was ended under its
\* refresh new tokens, ends one or does none of it.
LEMMA ServerForms ==
  ASSUME TypeOK, SaveInv, [Next]_vars
  PROVE  \/ /\ opened < MaxSessions /\ opened' = opened + 1 /\ drawn' = drawn + 1
            /\ session' = [session EXCEPT ![opened + 1] = Drawn(drawn + 1, clock)]
         \/ \E i \in 1 .. opened :
              /\ Exists(i) \/ mishaps["ended"] # {}
              /\ opened' = opened /\ drawn' = drawn + 1
              /\ session' = [session EXCEPT ![i] = Drawn(drawn + 1, clock)]
         \/ \E i \in Sid : /\ Exists(i) /\ UNCHANGED <<opened, drawn>>
                           /\ session' = [session EXCEPT ![i] = None]
         \/ UNCHANGED server
<1>1. ASSUME NEW p \in Process, Login(p), ~ UNCHANGED server
      PROVE  /\ opened < MaxSessions /\ opened' = opened + 1 /\ drawn' = drawn + 1
             /\ session' = [session EXCEPT ![opened + 1] = Drawn(drawn + 1, clock)]
  BY <1>1 DEF Login
<1>2. ASSUME NEW p \in Process, Regenerate(p), ~ UNCHANGED server
      PROVE  \E i \in 1 .. opened :
               /\ Exists(i) \/ mishaps["ended"] # {}
               /\ opened' = opened /\ drawn' = drawn + 1
               /\ session' = [session EXCEPT ![i] = Drawn(drawn + 1, clock)]
  <2>1. /\ proc[p].phase = "renew" /\ opened' = opened /\ drawn' = drawn + 1
        /\ session' = [session EXCEPT ![proc[p].pair.sid] = Drawn(drawn + 1, clock)]
    BY <1>2 DEF Regenerate
  <2>2. proc[p].pair.sid \in 1 .. opened
    BY <2>1, Shapes DEF SaveInv, Known
  <2>3. Exists(proc[p].pair.sid) \/ mishaps["ended"] # {}
    BY <2>1 DEF SaveInv, RenewalFound
  <2> QED BY <2>1, <2>2, <2>3
<1>3. ASSUME NEW p \in Process, End(p), ~ UNCHANGED server
      PROVE  \E i \in Sid : /\ Exists(i) /\ UNCHANGED <<opened, drawn>>
                            /\ session' = [session EXCEPT ![i] = None]
  BY <1>3 DEF End, Ending, Exists
<1>4. ASSUME NEW i \in Sid, Terminate(i)
      PROVE  /\ Exists(i) /\ UNCHANGED <<opened, drawn>>
             /\ session' = [session EXCEPT ![i] = None]
  BY <1>4 DEF Terminate, Ending
<1>5. ASSUME NEW p \in Process,
             \/ Load(p) \/ Refresh(p) \/ Create(p) \/ Write(p) \/ Logout(p) \/ Remove(p)
             \/ Kill(p) \/ Fail(p)
      PROVE  UNCHANGED server
  BY <1>5 DEF Load, Refresh, Create, Write, Logout, Remove, Kill, Fail
<1>6. ASSUME Tick \/ UNCHANGED vars
      PROVE  UNCHANGED server
  BY <1>6 DEF Tick, vars
<1> QED BY <1>1, <1>2, <1>3, <1>4, <1>5, <1>6 DEF Next

\* What went wrong is never forgotten.
LEMMA NeverForgotten ==
  ASSUME TypeOK, [Next]_vars
  PROVE  mishaps["ended"] \subseteq mishaps'["ended"]
<1>1. ASSUME NEW p \in Process, Regenerate(p) \/ End(p)
      PROVE  mishaps["ended"] \subseteq mishaps'["ended"]
  <2>1. proc[p].pair.sid \in Sid \cup {0}
    BY DEF TypeOK, Command, Pair
  <2>2. \/ Blame("twice", proc[p].pair.sid) \/ Blame("logout", proc[p].pair.sid)
        \/ Ending(proc[p].pair.sid) \/ mishaps' = mishaps
    BY <1>1 DEF Regenerate, End
  <2> QED BY <2>1, <2>2, MishapsGrow
<1>2. ASSUME NEW i \in Sid, Terminate(i)
      PROVE  mishaps["ended"] \subseteq mishaps'["ended"]
  BY <1>2, MishapsGrow DEF Terminate
<1>3. ASSUME NEW p \in Process,
             \/ Login(p) \/ Load(p) \/ Refresh(p) \/ Create(p) \/ Write(p) \/ Logout(p)
             \/ Remove(p) \/ Kill(p) \/ Fail(p)
      PROVE  mishaps' = mishaps
  BY <1>3 DEF Login, Load, Refresh, Create, Write, Logout, Remove, Kill, Fail
<1>4. ASSUME Tick \/ UNCHANGED vars
      PROVE  mishaps' = mishaps
  BY <1>4 DEF Tick, vars
<1> QED BY <1>1, <1>2, <1>3, <1>4 DEF Next

\* Giving session i another record gives it another token.
LEMMA TokenOf ==
  ASSUME TypeOK, NEW i, NEW v, session' = [session EXCEPT ![i] = v]
  PROVE  [j \in Sid |-> session[j].token]' =
           [[j \in Sid |-> session[j].token] EXCEPT ![i] = v.token]
BY DEF TypeOK

\* To any number of commands at a time the server is a registry of sessions, as
\* it is by RefinesRegistry of SessionsProofs: each token is new, and a session
\* that was ended, by a logout or another client, comes back only after one was
\* ended while the server refreshed it.
THEOREM RefinesRegistry == Spec => RegistrySpec
<1> DEFINE token == [i \in Sid |-> session[i].token]
           void == mishaps["ended"] # {}
<1>1. Init => Numbered /\ SaveInv /\ Registry!Init
  <2>1. Init => SaveInv
    BY DEF Init, SaveInv, Known, SavingAlone, RenewalFound, LogoutsOver, LoggedOut, Saver, Idle,
           NoPair, NoFile
  <2> QED BY <2>1 DEF Init, Numbered, Exists, None, Registry!Init, Sid
<1>2. ASSUME TypeOK, SaveInv, Numbered, [Next]_vars
      PROVE  Numbered' /\ Registry!Next
  <2>0. /\ Drawn(drawn + 1, clock).token = drawn + 1 /\ None.token = 0
        /\ session \in [Sid -> Session] /\ opened \in Nat
        /\ \A i \in Sid : i \in Nat
    BY <1>2 DEF Drawn, None, TypeOK, Sid
  <2>00. void => void'
    BY <1>2, NeverForgotten
  <2>1. ASSUME opened < MaxSessions, opened' = opened + 1, drawn' = drawn + 1,
               session' = [session EXCEPT ![opened + 1] = Drawn(drawn + 1, clock)]
        PROVE  Numbered' /\ Registry!Open
    <3>1. token' = [token EXCEPT ![opened + 1] = drawn + 1]
      BY <1>2, <2>0, <2>1, TokenOf
    <3>2. \A i \in Sid : i # opened + 1 => session'[i] = session[i]
      BY <2>0, <2>1
    <3>3. Numbered'
      BY <1>2, <2>0, <2>1, <3>2 DEF Numbered, Exists
    <3> QED BY <2>1, <3>1, <3>3 DEF Registry!Open, Registry!Draw
  <2>2. ASSUME NEW i \in 1 .. opened, Exists(i) \/ void, opened' = opened, drawn' = drawn + 1,
               session' = [session EXCEPT ![i] = Drawn(drawn + 1, clock)]
        PROVE  Numbered' /\ \E j \in 1 .. opened : Registry!Replace(j)
    <3>1. token' = [token EXCEPT ![i] = drawn + 1] /\ (Exists(i) => token[i] # 0)
      BY <1>2, <2>0, <2>2, TokenOf DEF Exists
    <3>2. \A j \in Sid : j # i => session'[j] = session[j]
      BY <2>0, <2>2
    <3>3. Numbered'
      BY <1>2, <2>0, <2>2, <3>2 DEF Numbered, Exists
    <3>4. Registry!Replace(i)
      BY <2>2, <3>1 DEF Registry!Replace, Registry!Draw
    <3> QED BY <3>3, <3>4
  <2>3. ASSUME NEW i \in Sid, Exists(i), UNCHANGED <<opened, drawn>>,
               session' = [session EXCEPT ![i] = None]
        PROVE  Numbered' /\ \E j \in 1 .. opened : Registry!End(j)
    <3>1. token' = [token EXCEPT ![i] = 0] /\ token[i] # 0
      BY <1>2, <2>0, <2>3, TokenOf DEF Exists
    <3>2. \A j \in Sid : j # i => session'[j] = session[j]
      BY <2>0, <2>3
    <3>3. i \in 1 .. opened
      BY <1>2, <2>0, <2>3 DEF Numbered, Sid
    <3>4. Numbered'
      BY <1>2, <2>0, <2>3, <3>2, <3>3 DEF Numbered, Exists
    <3>5. Registry!End(i)
      BY <2>3, <3>1 DEF Registry!End
    <3> QED BY <3>3, <3>4, <3>5
  <2>4. ASSUME UNCHANGED server
        PROVE  Numbered' /\ UNCHANGED <<token, opened, drawn>>
    BY <1>2, <2>4 DEF Numbered, Exists
  <2> QED BY <1>2, <2>00, <2>1, <2>2, <2>3, <2>4, ServerForms DEF Registry!Next
<1> QED BY <1>1, <1>2, TypeCorrect, SaveStep, PTL DEF Spec, RegistrySpec, Registry!Spec

=============================================================================

--------------------------- MODULE SessionsProofs ---------------------------
(***************************************************************************)
(* What holds of the sessions for any number of devices, of requests in    *)
(* progress, of sessions and of tokens.                                    *)
(***************************************************************************)
EXTENDS Sessions, WellFoundedInduction, TLAPS

USE DEF server, client, history

\* What the steps of a request assign to its fields keeps it a request.
LEMMA UpdateType ==
  ASSUME NEW r \in Request
  PROVE  /\ \A phase \in Phase : [r EXCEPT !.phase = phase] \in Request
         /\ \A todo \in SUBSET Nat : [r EXCEPT !.todo = todo] \in Request
         /\ \A b \in BOOLEAN : [r EXCEPT !.awaited = b] \in Request
         /\ \A phase \in Phase, expire \in Nat, b \in BOOLEAN :
              [r EXCEPT !.phase = phase, !.expire = expire, !.met = b] \in Request
         /\ \A b \in BOOLEAN : [r EXCEPT !.met = b] \in Request
         /\ \A phase \in Phase, pair \in Pair :
              [r EXCEPT !.phase = phase, !.grant = pair] \in Request
         /\ \A phase \in Phase, todo, told \in SUBSET Nat :
              [r EXCEPT !.phase = phase, !.todo = todo, !.told = told] \in Request
<1> DEFINE Asker == Device \cup {"nobody"}
           Sids == SUBSET Nat
           Pairs == Pair
           R == [phase : Phase, kind : Kind, device : Asker, awaited : BOOLEAN,
                 sid : Nat, token : Nat, target : Nat,
                 todo : Sids, told : Sids, expire : Nat,
                 met : BOOLEAN, grant : Pairs]
<1>1. Request = R
  BY DEF Request
<1>2. r \in R
  BY <1>1
<1> HIDE DEF Asker, Sids, Pairs
<1>3. \A phase \in Phase : [r EXCEPT !.phase = phase] \in R
  BY ONLY <1>2
<1>4. \A todo \in Sids : [r EXCEPT !.todo = todo] \in R
  BY ONLY <1>2
<1>5. \A b \in BOOLEAN : [r EXCEPT !.awaited = b] \in R
  BY ONLY <1>2
<1>6. \A phase \in Phase, expire \in Nat, b \in BOOLEAN :
        [r EXCEPT !.phase = phase, !.expire = expire, !.met = b] \in R
  BY ONLY <1>2
<1>7. \A phase \in Phase, todo, told \in Sids :
        [r EXCEPT !.phase = phase, !.todo = todo, !.told = told] \in R
  BY ONLY <1>2
<1>8. \A b \in BOOLEAN : [r EXCEPT !.met = b] \in R
  BY ONLY <1>2
<1>9. \A phase \in Phase, pair \in Pairs :
        [r EXCEPT !.phase = phase, !.grant = pair] \in R
  BY ONLY <1>2
<1> HIDE DEF R
<1> QED BY <1>1, <1>3, <1>4, <1>5, <1>6, <1>7, <1>8, <1>9, Zenon DEF Sids, Pairs

\* A request whose phase alone moves on keeps its type.
LEMMA GotoType ==
  ASSUME TypeOK, NEW s \in Slot, NEW phase \in Phase, Goto(s, phase)
  PROVE  req' \in [Slot -> Request]
<1>1. req[s] \in Request /\ req \in [Slot -> Request]
  BY DEF TypeOK
<1>2. [req[s] EXCEPT !.phase = phase] \in Request
  BY <1>1, UpdateType, Zenon
<1>3. req' = [req EXCEPT ![s] = [req[s] EXCEPT !.phase = phase]]
  BY DEF Goto
<1> QED BY <1>1, <1>2, <1>3

\* The idle request is one.
LEMMA IdleType == Idle \in Request
BY DEF Idle, Request, Phase, Kind, NoPair, Pair

\* So does a slot that becomes free.
LEMMA AnswerType ==
  ASSUME TypeOK, NEW s \in Slot, Answer(s)
  PROVE  req' \in [Slot -> Request]
BY IdleType DEF TypeOK, Answer

\* And one that is answered with a pair.
LEMMA RespondType ==
  ASSUME TypeOK, NEW s \in Slot, NEW pair \in Pair, Respond(s, pair)
  PROVE  req' \in [Slot -> Request]
<1>1. req[s] \in Request /\ req \in [Slot -> Request] /\ "respond" \in Phase
  BY DEF TypeOK, Phase
<1>2. [req[s] EXCEPT !.phase = "respond", !.grant = pair] \in Request
  BY <1>1, UpdateType, Zenon
<1>3. \E r \in Request : req' = [req EXCEPT ![s] = r]
  BY <1>2, IdleType, Zenon DEF Respond
<1> QED BY <1>1, <1>3

\* What a client takes over leaves it with a pair and a doubt.
LEMMA HandOverType ==
  ASSUME TypeOK, NEW s \in Slot, NEW pair \in Pair, NEW b \in BOOLEAN, HandOver(s, pair, b)
  PROVE  held' \in [Device -> Pair] /\ doubt' \in [Device -> BOOLEAN]
BY DEF TypeOK, HandOver, Request

\* A request sent is one.
LEMMA NewRequestType ==
  ASSUME NEW d \in Device, NEW kind \in Kind, NEW phase \in Phase,
         NEW pair \in Pair, NEW target \in Nat
  PROVE  NewRequest(d, kind, phase, pair, target) \in Request
BY DEF NewRequest, Idle, Request, Pair, NoPair

\* A stored session is one whatever tokens it is renewed with.
LEMMA RenewedType ==
  ASSUME NEW old, NEW token \in Nat, NEW now \in Nat
  PROVE  Renewed(old, token, now) \in Session
BY SessionAssumption DEF Renewed, Session

\* What a step adds to what went wrong is one of the three.
LEMMA MishapsType ==
  ASSUME TypeOK,
         \/ mishaps' = mishaps
         \/ mishaps' = mishaps \cup {"logout"}
         \/ \E s \in Slot : \E i : mishaps' = mishaps \cup Harm(s, i)
  PROVE  mishaps' \subseteq {"refresh", "termination", "logout"}
BY DEF TypeOK, Harm

\* Every step of the server, of its clock and of the clients keeps the types.
LEMMA TypeStep ==
  ASSUME TypeOK, [Next]_vars
  PROVE  TypeOK'
<1> USE SessionAssumption
<1>1. CASE UNCHANGED vars
  BY <1>1 DEF vars, TypeOK
<1>2. ASSUME NEW d \in Device, NEW s \in Slot, Send(d, s)
      PROVE  TypeOK'
  <2>1. held[d] \in Pair /\ NoPair \in Pair
    BY DEF TypeOK, NoPair, Pair
  <2>2. \E r \in Request : req' = [req EXCEPT ![s] = r]
    <3>1. CASE AskSession(d, s)
      BY <2>1, <3>1, NewRequestType DEF AskSession, Kind, Phase
    <3>2. CASE AskRefresh(d, s)
      BY <2>1, <3>2, NewRequestType DEF AskRefresh, Kind, Phase
    <3>3. ASSUME NEW kind \in {"list", "logout", "deleteAll", "update", "delete"},
                 NEW target \in Nat, Ask(d, s, kind, target)
          PROVE  \E r \in Request : req' = [req EXCEPT ![s] = r]
      BY <2>1, <3>3, NewRequestType DEF Ask, Kind, Phase
    <3>4. 1 .. opened \subseteq Nat
      BY DEF TypeOK
    <3> QED BY <1>2, <3>1, <3>2, <3>3, <3>4 DEF Send
  <2>3. UNCHANGED <<server, client>>
    BY <1>2 DEF Send, AskSession, AskRefresh, Ask
  <2> QED BY <2>2, <2>3 DEF TypeOK
<1>3. ASSUME NEW s \in Slot, Create(s)
      PROVE  TypeOK'
  <2>1. drawn + 1 \in Nat /\ opened + 1 \in Sid /\ clock \in Nat
    BY <1>3 DEF Create, TypeOK, Sid
  <2>2. sessions' \in [Sid -> Session]
    BY <1>3, <2>1, RenewedType DEF Create, TypeOK
  <2>3. [sid |-> opened + 1, token |-> drawn + 1] \in Pair
    BY <2>1 DEF Pair, Sid
  <2>4. req' \in [Slot -> Request]
    BY <1>3, <2>3, RespondType DEF Create
  <2>5. opened' = opened + 1 /\ drawn' = drawn + 1 /\ UNCHANGED <<clock, client>>
    BY <1>3 DEF Create
  <2> QED BY <2>1, <2>2, <2>4, <2>5 DEF TypeOK, Sid
<1>4. ASSUME NEW s \in Slot, Check(s) \/ List(s) \/ Delete(s) \/ Recover(s) \/ Fail(s)
      PROVE  TypeOK'
  <2>1. UNCHANGED <<server, client>>
    BY <1>4 DEF Check, List, Delete, Recover, Fail
  <2>2. Answer(s) \/ \E phase \in Phase : Goto(s, phase)
    BY <1>4 DEF Check, List, Delete, Recover, Fail, Phase
  <2>3. req' \in [Slot -> Request]
    BY <2>2, GotoType, AnswerType
  <2> QED BY <2>1, <2>3 DEF TypeOK
<1>5. ASSUME NEW s \in Slot, Logout(s)
      PROVE  TypeOK'
  <2>1. req' \in [Slot -> Request]
    BY <1>5, AnswerType DEF Logout
  <2>2. held' \in [Device -> Pair] /\ doubt' \in [Device -> BOOLEAN]
    <3>1. NoPair \in Pair
      BY DEF NoPair, Pair
    <3>2. HandOver(s, NoPair, FALSE) \/ UNCHANGED client
      BY <1>5 DEF Logout
    <3> QED BY <3>1, <3>2, HandOverType DEF TypeOK
  <2>3. sessions' \in [Sid -> Session]
    <3>1. sessions' = sessions \/ sessions' = [sessions EXCEPT ![req[s].sid] = None]
      BY <1>5 DEF Logout, End
    <3> QED BY <3>1 DEF TypeOK, None, Session
  <2>4. req[s].sid \in Nat
    BY DEF TypeOK, Request
  <2>5. ended' \subseteq Nat
    BY <1>5, <2>4 DEF Logout, TypeOK
  <2>6. mishaps' \subseteq {"refresh", "termination", "logout"}
    <3>1. \/ mishaps' = mishaps
          \/ mishaps' = mishaps \cup {"logout"}
          \/ mishaps' = mishaps \cup Harm(s, req[s].sid)
      BY <1>5 DEF Logout, End
    <3> QED BY <3>1, MishapsType
  <2> QED BY <1>5, <2>1, <2>2, <2>3, <2>5, <2>6 DEF Logout, TypeOK
<1>6. ASSUME NEW s \in Slot, Remove(s)
      PROVE  TypeOK'
  <2>1. req' \in [Slot -> Request]
    BY <1>6, AnswerType DEF Remove
  <2>2. req[s].target \in Nat
    BY DEF TypeOK, Request
  <2>3. sessions' \in [Sid -> Session] /\ ended' \subseteq Nat
    <3>1. CASE Exists(req[s].target)
      <4>1. /\ sessions' = [sessions EXCEPT ![req[s].target] = None]
            /\ ended' = ended \cup {req[s].target}
        BY <1>6, <3>1 DEF Remove, End
      <4> QED BY <2>2, <4>1 DEF TypeOK, None, Session
    <3>2. CASE ~Exists(req[s].target)
      BY <1>6, <3>2 DEF Remove, TypeOK
    <3> QED BY <3>1, <3>2
  <2>4. mishaps' \subseteq {"refresh", "termination", "logout"}
    <3>1. mishaps' = mishaps \/ mishaps' = mishaps \cup Harm(s, req[s].target)
      BY <1>6 DEF Remove, End
    <3> QED BY <3>1, MishapsType
  <2> QED BY <1>6, <2>1, <2>3, <2>4 DEF Remove, TypeOK
<1>7. ASSUME NEW s \in Slot, DeleteAll(s)
      PROVE  TypeOK'
  <2> DEFINE r == req[s]
  <2>1. /\ [r EXCEPT !.phase = "panicked"] \in Request
        /\ [r EXCEPT !.phase = "sweep", !.todo = Others(r.sid),
                     !.told = 1 .. opened \ {r.sid}] \in Request
    <3>1. Others(r.sid) \in SUBSET Nat /\ 1 .. opened \ {r.sid} \in SUBSET Nat
      BY DEF TypeOK, Others, Sid
    <3>2. r \in Request
      BY DEF TypeOK
    <3>3. "panicked" \in Phase /\ "sweep" \in Phase
      BY DEF Phase
    <3> HIDE DEF r
    <3> QED BY <3>1, <3>2, <3>3, UpdateType, Zenon
  <2>2. req' \in [Slot -> Request]
    BY <1>7, <2>1 DEF DeleteAll, TypeOK
  <2> QED BY <1>7, <2>2 DEF DeleteAll, TypeOK
<1>8. ASSUME NEW s \in Slot, Sweep(s)
      PROVE  TypeOK'
  <2> DEFINE r == req[s]
             i == Min(r.todo)
  <2>1. [r EXCEPT !.todo = r.todo \ {i}] \in Request
    <3>1. r \in Request /\ r.todo \ {i} \in SUBSET Nat
      BY DEF TypeOK, Request
    <3> HIDE DEF r, i
    <3> QED BY <3>1, UpdateType, Zenon
  <2>2. req' \in [Slot -> Request]
    BY <1>8, <2>1, AnswerType DEF Sweep, TypeOK
  <2>3. sessions' \in [Sid -> Session]
    BY <1>8 DEF Sweep, End, TypeOK, None, Session
  <2>4. mishaps' \subseteq {"refresh", "termination", "logout"}
    <3>1. mishaps' = mishaps \/ mishaps' = mishaps \cup Harm(s, i)
      BY <1>8 DEF Sweep, End
    <3> QED BY <3>1, MishapsType
  <2> QED BY <1>8, <2>2, <2>3, <2>4 DEF Sweep, TypeOK
<1>9. ASSUME NEW s \in Slot, SweptAll(s)
      PROVE  TypeOK'
  <2>1. req' \in [Slot -> Request]
    BY <1>9, AnswerType DEF SweptAll
  <2>2. req[s].told \subseteq Nat
    BY DEF TypeOK, Request
  <2> QED BY <1>9, <2>1, <2>2 DEF SweptAll, TypeOK
<1>10. ASSUME NEW s \in Slot, Refresh(s)
       PROVE  TypeOK'
  <2> DEFINE r == req[s]
             met == Meeting(s, r.sid) # {}
  <2>1. Matches(r.sid, r.token) =>
          [r EXCEPT !.phase = "renew", !.expire = sessions[r.sid].expire, !.met = met]
            \in Request
    <3> SUFFICES ASSUME Matches(r.sid, r.token)
                 PROVE  [r EXCEPT !.phase = "renew", !.expire = sessions[r.sid].expire,
                                  !.met = met] \in Request
      OBVIOUS
    <3>1. r \in Request /\ "renew" \in Phase
      BY DEF TypeOK, Phase
    <3>2. sessions[r.sid].expire \in Nat
      BY DEF TypeOK, Matches, Exists, Session
    <3>3. met \in BOOLEAN
      OBVIOUS
    <3> HIDE DEF r, met
    <3> QED BY <3>1, <3>2, <3>3, UpdateType, Zenon
  <2>2. ASSUME Matches(r.sid, r.token)
        PROVE  req' \in [Slot -> Request]
    <3>1. \A t \in Slot : [req[t] EXCEPT !.met = @ \/ t \in Meeting(s, r.sid)] \in Request
      <4> SUFFICES ASSUME NEW t \in Slot
                   PROVE  [req[t] EXCEPT !.met = @ \/ t \in Meeting(s, r.sid)] \in Request
        OBVIOUS
      <4>1. req[t] \in Request /\ (req[t].met \/ t \in Meeting(s, r.sid)) \in BOOLEAN
        BY DEF TypeOK
      <4> QED BY <4>1, UpdateType, Zenon
    <3>2. req' = [t \in Slot |->
               IF t = s
               THEN [r EXCEPT !.phase = "renew", !.expire = sessions[r.sid].expire,
                              !.met = met]
               ELSE [req[t] EXCEPT !.met = @ \/ t \in Meeting(s, r.sid)]]
      BY <1>10, <2>2, Zenon DEF Refresh
    <3>3. \A t \in Slot :
            (IF t = s
             THEN [r EXCEPT !.phase = "renew", !.expire = sessions[r.sid].expire,
                            !.met = met]
             ELSE [req[t] EXCEPT !.met = @ \/ t \in Meeting(s, r.sid)]) \in Request
      BY <2>1, <2>2, <3>1, Zenon
    <3> QED BY <3>2, <3>3, Zenon
  <2>3. ASSUME ~Matches(r.sid, r.token)
        PROVE  req' \in [Slot -> Request]
    <3>1. Answer(s)
      BY <1>10, <2>3, Zenon DEF Refresh
    <3> QED BY <3>1, AnswerType
  <2>4. req' \in [Slot -> Request]
    BY <2>2, <2>3, Zenon
  <2> QED BY <1>10, <2>4 DEF Refresh, TypeOK
<1>11. ASSUME NEW s \in Slot, Regenerate(s)
       PROVE  TypeOK'
  <2>2. drawn + 1 \in Nat /\ clock \in Nat /\ req[s].sid \in Nat
    BY DEF TypeOK, Request
  <2>3. Granted(req[s], drawn + 1) \in Pair
    BY <2>2 DEF Granted, Pair
  <2>4. req' \in [Slot -> Request]
    BY <1>11, <2>3, AnswerType, RespondType DEF Regenerate
  <2>5. sessions' \in [Sid -> Session]
    BY <1>11, <2>2, RenewedType DEF Regenerate, TypeOK
  <2> QED BY <1>11, <2>2, <2>4, <2>5 DEF Regenerate, TypeOK
<1>12. ASSUME NEW s \in Slot, GiveUp(s)
       PROVE  TypeOK'
  <2> DEFINE r == req[s]
  <2>1. r \in Request /\ FALSE \in BOOLEAN
    BY DEF TypeOK
  <2>2. [r EXCEPT !.awaited = FALSE] \in Request
    <3> HIDE DEF r
    <3> QED BY <2>1, UpdateType, Zenon
  <2>3. req' \in [Slot -> Request]
    BY <1>12, <2>2 DEF GiveUp, TypeOK
  <2>4. doubt' \in [Device -> BOOLEAN]
    BY <1>12, <2>1 DEF GiveUp, TypeOK, Request
  <2> QED BY <1>12, <2>3, <2>4 DEF GiveUp, TypeOK
<1>13. CASE Crash
  BY <1>13, IdleType DEF Crash, TypeOK
<1>14. CASE Tick
  BY <1>14 DEF Tick, TypeOK
<1>15. ASSUME NEW s \in Slot, Reauthenticate(s)
       PROVE  TypeOK'
  <2>1. Granted(req[s], req[s].token) \in Pair
    BY DEF Granted, Pair, TypeOK, Request
  <2>2. req' \in [Slot -> Request]
    BY <1>15, <2>1, RespondType, GotoType DEF Reauthenticate, Phase
  <2> QED BY <1>15, <2>2 DEF Reauthenticate, TypeOK
<1>16. ASSUME NEW s \in Slot, Deliver(s)
       PROVE  TypeOK'
  <2>1. req' \in [Slot -> Request]
    BY <1>16, AnswerType DEF Deliver
  <2>2. held' \in [Device -> Pair] /\ doubt' \in [Device -> BOOLEAN]
    <3>1. req[s].grant \in Pair
      BY DEF TypeOK, Request
    <3>2. PICK b \in BOOLEAN : HandOver(s, req[s].grant, b)
      <4>1. Doubtful(req[s]) \in BOOLEAN
        BY DEF Doubtful
      <4> QED BY <1>16, <4>1, Zenon DEF Deliver
    <3> QED BY <3>1, <3>2, HandOverType
  <2> QED BY <1>16, <2>1, <2>2 DEF Deliver, TypeOK
<1> QED
  BY <1>1, <1>2, <1>3, <1>4, <1>5, <1>6, <1>7, <1>8, <1>9, <1>10, <1>11, <1>12,
     <1>13, <1>14, <1>15, <1>16 DEF Next, Handle

\* The state of the sessions keeps its types.
THEOREM TypeCorrect == Spec => []TypeOK
<1>1. Init => TypeOK
  BY IdleType, SessionAssumption
  DEF Init, TypeOK, None, Session, NoPair, Pair
<1>2. TypeOK /\ [Next]_vars => TypeOK'
  BY TypeStep
<1> QED BY <1>1, <1>2, PTL DEF Spec

\* Requests that differ in nothing but what their refresh met.
Alike(r, q) ==
  /\ q.phase = r.phase /\ q.kind = r.kind /\ q.device = r.device /\ q.awaited = r.awaited
  /\ q.sid = r.sid /\ q.token = r.token /\ q.target = r.target /\ q.todo = r.todo
  /\ q.told = r.told /\ q.expire = r.expire /\ q.grant = r.grant

\* A request is answered, with a pair or without.
Closed(s) == \E r : req' = [req EXCEPT ![s] = r] /\ r.phase \in {"idle", "respond"}

\* What an answer leaves of a request.
LEMMA Closing ==
  ASSUME TypeOK, NEW s \in Slot, Answer(s) \/ \E pair : Respond(s, pair)
  PROVE  Closed(s)
<1>1. CASE Answer(s)
  <2>1. req' = [req EXCEPT ![s] = Idle] /\ Idle.phase = "idle"
    BY <1>1 DEF Answer, Idle
  <2> QED BY <2>1 DEF Closed
<1>2. ASSUME NEW pair, Respond(s, pair)
      PROVE  Closed(s)
  <2> DEFINE r == [req[s] EXCEPT !.phase = "respond", !.grant = pair]
  <2>1. req' = [req EXCEPT ![s] = Idle] \/ req' = [req EXCEPT ![s] = r]
    BY <1>2 DEF Respond
  <2>2. r.phase = "respond" /\ Idle.phase = "idle"
    BY DEF TypeOK, Request, Idle
  <2> HIDE DEF r
  <2> QED BY <2>1, <2>2 DEF Closed
<1> QED BY <1>1, <1>2

\* What a refresh that finds its session makes of the requests.
LEMMA RefreshForms ==
  ASSUME TypeOK, NEW s \in Slot, Refresh(s), ~Answer(s)
  PROVE  /\ req[s].phase = "find" /\ Matches(req[s].sid, req[s].token)
         /\ Alike([req[s] EXCEPT !.phase = "renew", !.expire = sessions[req[s].sid].expire],
                  req'[s])
         /\ req'[s].phase = "renew" /\ req'[s].sid = req[s].sid
         /\ req'[s].token = req[s].token
         /\ req'[s].met <=> Meeting(s, req[s].sid) # {}
         /\ \A t \in Slot \ {s} :
              /\ Alike(req[t], req'[t])
              /\ req'[t].met <=> req[t].met \/ t \in Meeting(s, req[s].sid)
<1> DEFINE m == Meeting(s, req[s].sid)
           b == m # {}
<1>0. \A t \in Slot : req[t] \in Request
  BY DEF TypeOK
<1>1. /\ req[s].phase = "find" /\ Matches(req[s].sid, req[s].token)
      /\ req' = [t \in Slot |->
           IF t = s
           THEN [req[s] EXCEPT !.phase = "renew", !.expire = sessions[req[s].sid].expire,
                               !.met = b]
           ELSE [req[t] EXCEPT !.met = @ \/ t \in m]]
  BY Zenon DEF Refresh
<1>2. req'[s] = [req[s] EXCEPT !.phase = "renew", !.expire = sessions[req[s].sid].expire,
                               !.met = b]
  BY <1>1, Zenon
<1>3. \A t \in Slot \ {s} : req'[t] = [req[t] EXCEPT !.met = req[t].met \/ t \in m]
  BY <1>1
<1> HIDE DEF m, b
<1>4. /\ Alike([req[s] EXCEPT !.phase = "renew", !.expire = sessions[req[s].sid].expire],
               req'[s])
      /\ req'[s].phase = "renew" /\ req'[s].sid = req[s].sid /\ req'[s].token = req[s].token
      /\ req'[s].met = b
  BY <1>0, <1>2 DEF Alike, Request
<1>5. ASSUME NEW t \in Slot \ {s}
      PROVE  Alike(req[t], req'[t]) /\ req'[t].met = (req[t].met \/ t \in m)
  <2>1. req'[t] = [req[t] EXCEPT !.met = req[t].met \/ t \in m]
    BY <1>3
  <2>2. PICK b2 : b2 = (req[t].met \/ t \in m)
    OBVIOUS
  <2>3. req'[t] = [req[t] EXCEPT !.met = b2]
    BY <2>1, <2>2, Zenon
  <2>4. Alike(req[t], req'[t]) /\ req'[t].met = b2
    BY <1>0, <2>3 DEF Alike, Request
  <2> QED BY <2>2, <2>4, Zenon
<1> QED BY <1>1, <1>4, <1>5, Zenon DEF m, b

\* The steps that write sessions; no other touches them.
LEMMA WritingSteps ==
  ASSUME [Next]_vars
  PROVE  \/ \E s \in Slot : Create(s) \/ Regenerate(s) \/ Logout(s) \/ Remove(s) \/ Sweep(s)
         \/ UNCHANGED <<sessions, opened>>
<1>1. ASSUME NEW s \in Slot, Check(s) \/ List(s) \/ Delete(s) \/ DeleteAll(s)
      PROVE  UNCHANGED <<sessions, opened>>
  BY <1>1 DEF Check, List, Delete, DeleteAll
<1>2. ASSUME NEW s \in Slot, SweptAll(s) \/ Refresh(s) \/ Recover(s) \/ Fail(s) \/ GiveUp(s)
      PROVE  UNCHANGED <<sessions, opened>>
  BY <1>2 DEF SweptAll, Refresh, Recover, Fail, GiveUp
<1>3. ASSUME NEW s \in Slot, NEW d \in Device, Send(d, s)
      PROVE  UNCHANGED <<sessions, opened>>
  BY <1>3 DEF Send, AskSession, AskRefresh, Ask
<1>4. ASSUME Crash \/ Tick \/ UNCHANGED vars
      PROVE  UNCHANGED <<sessions, opened>>
  BY <1>4 DEF Crash, Tick, vars
<1>5. ASSUME NEW s \in Slot, Reauthenticate(s) \/ Deliver(s)
      PROVE  UNCHANGED <<sessions, opened>>
  BY <1>5 DEF Reauthenticate, Deliver
<1> QED BY <1>1, <1>2, <1>3, <1>4, <1>5, Zenon DEF Next, Handle

\* What a step writes into the sessions: a token drawn now, or none.
LEMMA TokenStep ==
  ASSUME TypeOK, [Next]_vars, NEW i \in Sid
  PROVE  sessions'[i].token \in {sessions[i].token, 0, drawn + 1}
<1> USE DEF TypeOK, None
<1>1. ASSUME NEW s \in Slot, Create(s)
      PROVE  sessions'[i].token \in {sessions[i].token, drawn + 1}
  <2>1. sessions'[i] \in {sessions[i], Renewed(0, drawn + 1, clock)}
    BY <1>1 DEF Create
  <2> QED BY <2>1 DEF Renewed
<1>2. ASSUME NEW s \in Slot, Regenerate(s)
      PROVE  sessions'[i].token \in {sessions[i].token, drawn + 1}
  <2>1. sessions'[i] \in {sessions[i], Renewed(req[s].token, drawn + 1, clock)}
    BY <1>2 DEF Regenerate
  <2> QED BY <2>1 DEF Renewed
<1>3. ASSUME NEW s \in Slot, Logout(s) \/ Remove(s) \/ Sweep(s)
      PROVE  sessions'[i].token \in {sessions[i].token, 0}
  <2>1. sessions' = sessions \/ \E j : sessions' = [sessions EXCEPT ![j] = None]
    BY <1>3 DEF Logout, Remove, Sweep, End
  <2> QED BY <2>1
<1> QED BY <1>1, <1>2, <1>3, WritingSteps

\* Tokens that were refreshed, or whose session was terminated, are never
\* accepted again, in any interleaving and with any failure.
THEOREM RetiredStayDead == Spec => RetiredTokensDead
<1>1. TypeOK /\ [Next]_vars =>
        [\A token \in 1 .. drawn :
           (\A i \in Sid : sessions[i].token # token)
           => (\A i \in Sid : sessions'[i].token # token)]_vars
  <2> SUFFICES ASSUME TypeOK, [Next]_vars, NEW token \in 1 .. drawn,
                      \A i \in Sid : sessions[i].token # token,
                      NEW i \in Sid
               PROVE  sessions'[i].token # token
    OBVIOUS
  <2>1. sessions'[i].token \in {sessions[i].token, 0, drawn + 1}
    BY TokenStep
  <2>2. token \in Nat /\ token # 0 /\ token # drawn + 1
    BY DEF TypeOK
  <2> QED BY <2>1, <2>2
<1> QED BY <1>1, TypeCorrect, PTL DEF Spec, RetiredTokensDead

-----------------------------------------------------------------------------
(* A client's own tokens.                                                  *)

\* A response that brings tokens no client knows yet.
Fresh(r) == r.phase = "respond" /\ (r.kind = "refresh" \/ r.sid = 0)

\* A refresh that found its session and is not answered.
Found(r) == r.kind = "refresh" /\ r.phase \in {"renew", "respond"}

\* What the phases of a request tell of its other fields.
Shape(r) ==
  /\ r.phase = "idle" => r = Idle
  /\ r.phase # "idle" => r.device \in Device
  /\ r.kind = "refresh" => r.phase \in {"find", "renew", "respond"} /\ r.sid # 0
  /\ r.phase \in {"find", "renew"} => r.kind = "refresh"
  /\ r.phase = "create" => r.sid = 0
  /\ r.phase = "respond" =>
       /\ r.grant.sid # 0 /\ (r.kind = "refresh" => r.grant.sid = r.sid)
       /\ (r.kind # "refresh" /\ r.sid # 0) =>
            r.kind = "update" /\ r.grant.sid = r.sid /\ r.grant.token = r.token

Shaped ==
  /\ \A s \in Slot : Shape(req[s])
  /\ \A d \in Device : held[d].sid = 0 => held[d] = NoPair

\* No client and no request goes by a session or a token that is still to come.
Counted ==
  /\ \A s \in Slot :
       /\ req[s].sid <= opened /\ req[s].token <= drawn
       /\ req[s].phase = "respond" =>
            req[s].grant.sid <= opened /\ req[s].grant.token <= drawn
  /\ \A d \in Device : held[d].sid <= opened /\ held[d].token <= drawn

\* Every session goes with one client: it, its requests and the responses to them.
OwnedBy(own) ==
  /\ \A d \in Device : held[d].sid # 0 => own[held[d].sid] = d
  /\ \A s \in Slot :
       /\ req[s].sid # 0 => own[req[s].sid] = req[s].device
       /\ req[s].phase = "respond" => own[req[s].grant.sid] = req[s].device

Owned == \E own \in [Nat -> Device \cup {"nobody"}] : OwnedBy(own)

\* Nobody knows a session or tokens on their way to a client; unless its refresh met
\* another, they are those stored.
Underway ==
  \A s \in Slot : Fresh(req[s]) =>
    /\ req[s].grant.token # 0
    /\ \A d \in Device : held[d].token # req[s].grant.token
    /\ \A t \in Slot : req[t].token # req[s].grant.token
    /\ \A t \in Slot \ {s} :
         req[t].phase = "respond" => req[t].grant.token # req[s].grant.token
    /\ req[s].sid = 0 =>
         /\ \A d \in Device : held[d].sid # req[s].grant.sid
         /\ \A t \in Slot : req[t].sid # req[s].grant.sid
         /\ \A t \in Slot \ {s} :
              req[t].phase = "respond" => req[t].grant.sid # req[s].grant.sid
    /\ (req[s].sid = 0 \/ ~req[s].met) =>
         sessions[req[s].grant.sid].token \in {0, req[s].grant.token}

\* Two refreshes that found one session both know of it.
Met ==
  \A s, t \in Slot :
    (s # t /\ Found(req[s]) /\ Found(req[t]) /\ req[s].sid = req[t].sid)
    => req[s].met /\ req[t].met

\* The new tokens of session i are on their way to device d.
Arriving(d, i) ==
  \E s \in Slot :
    /\ req[s].awaited /\ req[s].kind = "refresh" /\ req[s].phase = "respond"
    /\ req[s].device = d /\ req[s].sid = i /\ req[s].grant.token = sessions[i].token

\* Request t may still replace the tokens of a pair.
Replaces(t, pair) ==
  /\ req[t].kind = "refresh" /\ req[t].sid = pair.sid
  /\ req[t].phase = "renew" \/ (req[t].phase = "find" /\ req[t].token = pair.token)

\* A client without doubts holds the tokens stored, or awaits them; it awaits all
\* that may still replace them.
Certain ==
  \A d \in Device : (held[d].sid # 0 /\ ~doubt[d]) =>
    /\ sessions[held[d].sid].token \in {0, held[d].token} \/ Arriving(d, held[d].sid)
    /\ \A t \in Slot : Replaces(t, held[d]) => req[t].awaited

Tracked == Shaped /\ Counted /\ Owned /\ Underway /\ Met /\ Certain

\* A step changes one slot.
OnlySlot(s, r) == req'[s] = r /\ \A t \in Slot \ {s} : req'[t] = req[t]

\* A request that is not about to bring new tokens changes nothing the clients rely
\* on: a new one, one that goes on and does not refresh, or one that is answered.
LEMMA TrackedQuiet ==
  ASSUME TypeOK, TypeOK', Tracked, NEW s \in Slot, NEW r, OnlySlot(s, r),
         held' = held, doubt' = doubt, opened' = opened, drawn' = drawn,
         \A i \in Sid : sessions'[i].token \in {sessions[i].token, 0},
         Shape(r), r.phase # "renew", ~Fresh(r),
         \/ r = Idle
         \/ /\ r.device = req[s].device /\ r.kind = req[s].kind /\ r.kind # "refresh"
            /\ r.sid = req[s].sid /\ r.token = req[s].token
         \/ /\ r.device \in Device /\ r.awaited /\ r.phase # "respond"
            /\ \/ r.sid = 0 /\ r.token = 0
               \/ r.sid = held[r.device].sid /\ r.token = held[r.device].token,
         req[s].phase = "respond" => ~req[s].awaited \/ req[s].kind # "refresh"
  PROVE  Tracked'
<1>0. /\ req'[s] = r /\ \A t \in Slot \ {s} : req'[t] = req[t]
      /\ Idle.sid = 0 /\ Idle.token = 0 /\ Idle.kind = "none" /\ Idle.phase = "idle"
  BY DEF OnlySlot, Idle
<1>1. /\ drawn \in Nat /\ opened \in Nat /\ opened <= MaxSessions /\ MaxSessions \in Nat
      /\ \A t \in Slot : req[t].sid \in Nat /\ req[t].token \in Nat /\ req[t].grant \in Pair
      /\ \A d \in Device : held[d].sid \in Nat /\ held[d].token \in Nat
      /\ sessions \in [Sid -> Session] /\ \A i \in Sid : sessions[i].token \in Nat
  BY SessionAssumption DEF TypeOK, Request, Pair, Session
<1>2. Shaped'
  BY <1>0 DEF Tracked, Shaped
<1>3. Counted'
  BY <1>0, <1>1 DEF Tracked, Counted, Fresh, Shape
<1>4. Owned'
  <2>1. PICK own \in [Nat -> Device \cup {"nobody"}] : OwnedBy(own)
    BY DEF Tracked, Owned
  <2>2. OwnedBy(own)'
    BY <1>0, <2>1 DEF OwnedBy, Fresh, Shape
  <2> QED BY <2>1, <2>2 DEF Owned
<1>5. Underway'
  <2> SUFFICES ASSUME NEW t \in Slot, Fresh(req'[t])
               PROVE  (/\ req[t].grant.token # 0
                       /\ \A d \in Device : held[d].token # req[t].grant.token
                       /\ \A u \in Slot : req[u].token # req[t].grant.token
                       /\ \A u \in Slot \ {t} :
                            req[u].phase = "respond" => req[u].grant.token # req[t].grant.token
                       /\ req[t].sid = 0 =>
                            /\ \A d \in Device : held[d].sid # req[t].grant.sid
                            /\ \A u \in Slot : req[u].sid # req[t].grant.sid
                            /\ \A u \in Slot \ {t} :
                                 req[u].phase = "respond" => req[u].grant.sid # req[t].grant.sid
                       /\ (req[t].sid = 0 \/ ~req[t].met) =>
                            sessions[req[t].grant.sid].token \in {0, req[t].grant.token})'
    BY DEF Underway
  <2>1. t # s /\ req'[t] = req[t] /\ Fresh(req[t]) /\ Shape(req[t])
    BY <1>0 DEF Tracked, Shaped
  <2>2. /\ req[t].grant.token # 0 /\ req[t].grant.sid # 0
        /\ \A d \in Device : held[d].token # req[t].grant.token
        /\ \A u \in Slot : req[u].token # req[t].grant.token
        /\ \A u \in Slot \ {t} :
             req[u].phase = "respond" => req[u].grant.token # req[t].grant.token
        /\ req[t].sid = 0 =>
             /\ \A d \in Device : held[d].sid # req[t].grant.sid
             /\ \A u \in Slot : req[u].sid # req[t].grant.sid
             /\ \A u \in Slot \ {t} :
                  req[u].phase = "respond" => req[u].grant.sid # req[t].grant.sid
        /\ (req[t].sid = 0 \/ ~req[t].met) =>
             sessions[req[t].grant.sid].token \in {0, req[t].grant.token}
    BY <2>1 DEF Tracked, Underway, Shape, Fresh
  <2>3. req[t].grant.sid \in Sid
    BY <1>1, <2>1, <2>2 DEF Tracked, Counted, Fresh, Sid, Pair
  <2>4. \A u \in Slot : req'[u].token # req[t].grant.token
    BY <1>0, <2>2
  <2>5. \A u \in Slot \ {t} :
          req'[u].phase = "respond" => req'[u].grant.token # req[t].grant.token
    BY <1>0, <2>2, <2>4 DEF Fresh, Shape
  <2>6. req[t].sid = 0 =>
          /\ \A u \in Slot : req'[u].sid # req[t].grant.sid
          /\ \A u \in Slot \ {t} :
               req'[u].phase = "respond" => req'[u].grant.sid # req[t].grant.sid
    BY <1>0, <2>2 DEF Fresh, Shape
  <2>7. (req[t].sid = 0 \/ ~req[t].met) =>
          sessions'[req[t].grant.sid].token \in {0, req[t].grant.token}
    BY <2>2, <2>3
  <2> QED BY <2>1, <2>2, <2>4, <2>5, <2>6, <2>7
<1>6. Met'
  <2>1. \A t \in Slot : Found(req'[t]) => t # s /\ req'[t] = req[t]
    BY <1>0 DEF Found, Fresh
  <2> QED BY <2>1 DEF Tracked, Met
<1>7. Certain'
  <2> SUFFICES ASSUME NEW d \in Device, held[d].sid # 0, ~doubt[d]
               PROVE  /\ \/ sessions'[held[d].sid].token \in {0, held[d].token}
                         \/ Arriving(d, held[d].sid)'
                      /\ \A t \in Slot : Replaces(t, held[d])' => req'[t].awaited
    BY DEF Certain
  <2> DEFINE i == held[d].sid
  <2>1. i \in Sid /\ sessions'[i].token \in {sessions[i].token, 0}
    BY <1>1 DEF Tracked, Counted, Sid
  <2>2. /\ sessions[i].token \in {0, held[d].token} \/ Arriving(d, i)
        /\ \A t \in Slot : Replaces(t, held[d]) => req[t].awaited
    BY DEF Tracked, Certain
  <2>3. ASSUME Arriving(d, i), sessions'[i].token = sessions[i].token
        PROVE  Arriving(d, i)'
    BY <1>0, <2>3 DEF Arriving
  <2>4. ASSUME NEW t \in Slot, Replaces(t, held[d])'
        PROVE  req'[t].awaited
    <3>1. CASE t # s
      BY <1>0, <2>2, <2>4, <3>1 DEF Replaces
    <3>2. CASE t = s
      BY <1>0, <2>4, <3>2 DEF Replaces
    <3> QED BY <3>1, <3>2
  <2> QED BY <2>1, <2>2, <2>3, <2>4
<1> QED BY <1>2, <1>3, <1>4, <1>5, <1>6, <1>7 DEF Tracked

\* A client takes over the pair in a response, or gives its own up.
LEMMA TrackedHand ==
  ASSUME TypeOK, TypeOK', Tracked, NEW s \in Slot, OnlySlot(s, Idle),
         req[s].device \in Device, NEW pair, NEW b \in BOOLEAN,
         held' = [held EXCEPT ![req[s].device] = pair],
         doubt' = [doubt EXCEPT ![req[s].device] = b],
         opened' = opened, drawn' = drawn,
         \A i \in Sid : sessions'[i].token \in {sessions[i].token, 0},
         \/ pair = NoPair
         \/ /\ pair = req[s].grant /\ req[s].phase = "respond"
            /\ ~b => Fresh(req[s]) /\ (req[s].sid = 0 \/ ~req[s].met)
  PROVE  Tracked'
<1> DEFINE me == req[s].device
<1>0. /\ req'[s] = Idle /\ \A t \in Slot \ {s} : req'[t] = req[t]
      /\ Idle.sid = 0 /\ Idle.token = 0 /\ Idle.kind = "none" /\ Idle.phase = "idle"
      /\ Shape(req[s]) /\ NoPair.sid = 0 /\ NoPair.token = 0
  BY DEF OnlySlot, Idle, Tracked, Shaped, NoPair
<1>1. /\ drawn \in Nat /\ opened \in Nat /\ opened <= MaxSessions /\ MaxSessions \in Nat
      /\ \A t \in Slot : req[t].sid \in Nat /\ req[t].token \in Nat /\ req[t].grant \in Pair
      /\ \A d \in Device : held[d].sid \in Nat /\ held[d].token \in Nat
      /\ sessions \in [Sid -> Session] /\ \A i \in Sid : sessions[i].token \in Nat
  BY SessionAssumption DEF TypeOK, Request, Pair, Session
<1>2. /\ held'[me] = pair /\ \A d \in Device \ {me} : held'[d] = held[d]
      /\ doubt'[me] = b /\ \A d \in Device \ {me} : doubt'[d] = doubt[d]
  BY DEF TypeOK
<1>3. /\ pair.sid <= opened /\ pair.token <= drawn
      /\ pair.sid = 0 => pair = NoPair
  BY <1>0, <1>1 DEF Tracked, Counted, Shape
<1>4. me \in Device
  OBVIOUS
<1> HIDE DEF me
<1>5. Shaped'
  BY <1>0, <1>2, <1>3, <1>4 DEF Tracked, Shaped, Shape
<1>6. Counted'
  BY <1>0, <1>1, <1>2, <1>3, <1>4 DEF Tracked, Counted
<1>7. Owned'
  <2>1. PICK own \in [Nat -> Device \cup {"nobody"}] : OwnedBy(own)
    BY DEF Tracked, Owned
  <2>2. pair.sid # 0 => own[pair.sid] = me
    BY <1>0, <2>1 DEF OwnedBy, me
  <2>3. OwnedBy(own)'
    BY <1>0, <1>2, <1>4, <2>1, <2>2 DEF OwnedBy
  <2> QED BY <2>1, <2>3 DEF Owned
<1>8. Underway'
  <2> SUFFICES ASSUME NEW t \in Slot, Fresh(req'[t])
               PROVE  (/\ req[t].grant.token # 0
                       /\ \A d \in Device : held[d].token # req[t].grant.token
                       /\ \A u \in Slot : req[u].token # req[t].grant.token
                       /\ \A u \in Slot \ {t} :
                            req[u].phase = "respond" => req[u].grant.token # req[t].grant.token
                       /\ req[t].sid = 0 =>
                            /\ \A d \in Device : held[d].sid # req[t].grant.sid
                            /\ \A u \in Slot : req[u].sid # req[t].grant.sid
                            /\ \A u \in Slot \ {t} :
                                 req[u].phase = "respond" => req[u].grant.sid # req[t].grant.sid
                       /\ (req[t].sid = 0 \/ ~req[t].met) =>
                            sessions[req[t].grant.sid].token \in {0, req[t].grant.token})'
    BY DEF Underway
  <2>1. t # s /\ req'[t] = req[t] /\ Fresh(req[t]) /\ Shape(req[t])
    BY <1>0 DEF Tracked, Shaped, Fresh
  <2>2. /\ req[t].grant.token # 0 /\ req[t].grant.sid # 0
        /\ \A d \in Device : held[d].token # req[t].grant.token
        /\ \A u \in Slot : req[u].token # req[t].grant.token
        /\ \A u \in Slot \ {t} :
             req[u].phase = "respond" => req[u].grant.token # req[t].grant.token
        /\ req[t].sid = 0 =>
             /\ \A d \in Device : held[d].sid # req[t].grant.sid
             /\ \A u \in Slot : req[u].sid # req[t].grant.sid
             /\ \A u \in Slot \ {t} :
                  req[u].phase = "respond" => req[u].grant.sid # req[t].grant.sid
        /\ (req[t].sid = 0 \/ ~req[t].met) =>
             sessions[req[t].grant.sid].token \in {0, req[t].grant.token}
    BY <2>1 DEF Tracked, Underway, Shape, Fresh
  <2>3. req[t].grant.sid \in Sid
    BY <1>1, <2>1, <2>2 DEF Tracked, Counted, Fresh, Sid, Pair
  <2>4. /\ \A d \in Device : held'[d].token # req[t].grant.token
        /\ \A u \in Slot : req'[u].token # req[t].grant.token
    BY <1>0, <1>2, <1>4, <2>1, <2>2
  <2>5. \A u \in Slot \ {t} :
          req'[u].phase = "respond" => req'[u].grant.token # req[t].grant.token
    BY <1>0, <2>2
  <2>6. req[t].sid = 0 =>
          /\ \A d \in Device : held'[d].sid # req[t].grant.sid
          /\ \A u \in Slot : req'[u].sid # req[t].grant.sid
          /\ \A u \in Slot \ {t} :
               req'[u].phase = "respond" => req'[u].grant.sid # req[t].grant.sid
    BY <1>0, <1>2, <1>4, <2>1, <2>2
  <2>7. (req[t].sid = 0 \/ ~req[t].met) =>
          sessions'[req[t].grant.sid].token \in {0, req[t].grant.token}
    BY <2>2, <2>3
  <2> QED BY <2>1, <2>2, <2>4, <2>5, <2>6, <2>7
<1>9. Met'
  <2>1. \A t \in Slot : Found(req'[t]) => t # s /\ req'[t] = req[t]
    BY <1>0 DEF Found
  <2> QED BY <2>1 DEF Tracked, Met
<1>10. Certain'
  <2> SUFFICES ASSUME NEW d \in Device, held'[d].sid # 0, ~doubt'[d]
               PROVE  /\ \/ sessions'[held'[d].sid].token \in {0, held'[d].token}
                         \/ Arriving(d, held[d].sid)'
                      /\ \A t \in Slot : Replaces(t, held[d])' => req'[t].awaited
    BY DEF Certain
  <2>1. CASE d = me
    <3>1. /\ held'[d] = req[s].grant /\ Fresh(req[s]) /\ req[s].grant.sid # 0
          /\ req[s].sid = 0 \/ (~req[s].met /\ req[s].kind = "refresh")
          /\ req[s].kind = "refresh" => req[s].grant.sid = req[s].sid
      BY <1>0, <1>2, <2>1 DEF Shape, Fresh, me
    <3>2. req[s].grant.sid \in Sid
      BY <1>1, <3>1 DEF Tracked, Counted, Fresh, Sid, Pair
    <3>3. sessions[req[s].grant.sid].token \in {0, req[s].grant.token}
      BY <3>1 DEF Tracked, Underway
    <3>4. ASSUME NEW t \in Slot, Replaces(t, held[d])'
          PROVE  FALSE
      <4>1. /\ t # s /\ req[t].kind = "refresh" /\ req[t].sid = req[s].grant.sid
            /\ \/ req[t].phase = "renew"
               \/ req[t].phase = "find" /\ req[t].token = req[s].grant.token
        BY <1>0, <3>1, <3>4 DEF Replaces
      <4>2. req[s].sid # 0
        BY <3>1, <4>1 DEF Tracked, Underway
      <4>3. req[t].token # req[s].grant.token
        BY <3>1 DEF Tracked, Underway
      <4>4. Found(req[s]) /\ Found(req[t])
        BY <3>1, <4>1, <4>2, <4>3 DEF Found, Fresh
      <4> QED BY <3>1, <4>1, <4>2, <4>4 DEF Tracked, Met
    <3> QED BY <3>1, <3>2, <3>3, <3>4
  <2>2. CASE d # me
    <3> DEFINE i == held[d].sid
    <3>1. /\ held'[d] = held[d] /\ i # 0 /\ ~doubt[d] /\ i \in Sid
          /\ sessions'[i].token \in {sessions[i].token, 0}
      BY <1>1, <1>2, <2>2 DEF Tracked, Counted, Sid
    <3>2. /\ sessions[i].token \in {0, held[d].token} \/ Arriving(d, i)
          /\ \A t \in Slot : Replaces(t, held[d]) => req[t].awaited
      BY <3>1 DEF Tracked, Certain
    <3>3. ASSUME Arriving(d, i), sessions'[i].token = sessions[i].token
          PROVE  Arriving(d, held[d].sid)'
      BY <1>0, <2>2, <3>1, <3>3 DEF Arriving, me
    <3>4. ASSUME NEW t \in Slot, Replaces(t, held[d])'
          PROVE  req'[t].awaited
      BY <1>0, <3>1, <3>2, <3>4 DEF Replaces
    <3> QED BY <3>1, <3>2, <3>3, <3>4
  <2> QED BY <2>1, <2>2
<1> QED BY <1>5, <1>6, <1>7, <1>8, <1>9, <1>10 DEF Tracked

\* A session is given new tokens, which are on their way to a client that waits.
LEMMA TrackedGrant ==
  ASSUME TypeOK, TypeOK', Tracked, NEW s \in Slot, NEW i \in Sid,
         held' = held, doubt' = doubt, drawn' = drawn + 1,
         \/ req[s].phase = "create" /\ i = opened + 1 /\ opened' = i
         \/ req[s].phase = "renew" /\ i = req[s].sid /\ opened' = opened,
         sessions'[i].token = drawn + 1,
         \A j \in Sid \ {i} : sessions'[j] = sessions[j],
         \A t \in Slot \ {s} : req'[t] = req[t],
         \/ ~req[s].awaited /\ req'[s] = Idle
         \/ /\ req[s].awaited /\ req'[s].awaited /\ req'[s].phase = "respond"
            /\ req'[s].grant = [sid |-> i, token |-> drawn + 1]
            /\ req'[s].kind = req[s].kind /\ req'[s].device = req[s].device
            /\ req'[s].sid = req[s].sid /\ req'[s].token = req[s].token
            /\ req'[s].met = req[s].met
  PROVE  Tracked'
<1>0. /\ Idle.sid = 0 /\ Idle.token = 0 /\ Idle.kind = "none" /\ Idle.phase = "idle"
      /\ Shape(req[s]) /\ req[s].phase \in {"create", "renew"}
      /\ req[s].phase = "create" => req[s].sid = 0 /\ req[s].kind # "refresh"
      /\ req[s].phase = "renew" => req[s].sid = i /\ req[s].kind = "refresh"
      /\ req'[s].phase = "respond" => req'[s].grant.sid = i /\ req'[s].grant.token = drawn + 1
  BY DEF Idle, Tracked, Shaped, Shape
<1>1. /\ drawn \in Nat /\ opened \in Nat /\ opened <= MaxSessions /\ MaxSessions \in Nat
      /\ i \in Nat /\ i # 0 /\ i <= opened' /\ opened <= opened' /\ opened' \in Nat
      /\ \A t \in Slot : /\ req[t].sid \in Nat /\ req[t].token \in Nat
                         /\ req[t].grant.sid \in Nat /\ req[t].grant.token \in Nat
      /\ \A d \in Device : held[d].sid \in Nat /\ held[d].token \in Nat
      /\ \A j \in Sid : sessions[j].token \in Nat
  <2>1. req[s].phase = "renew" => i <= opened
    BY <1>0 DEF Tracked, Counted
  <2>2. /\ drawn \in Nat /\ opened \in Nat /\ opened <= MaxSessions /\ MaxSessions \in Nat
        /\ \A t \in Slot : req[t] \in Request /\ req[t].grant \in Pair
        /\ \A d \in Device : held[d] \in Pair
        /\ \A j \in Sid : sessions[j] \in Session
    BY SessionAssumption DEF TypeOK, Request
  <2>3. i \in Nat /\ i # 0
    BY DEF Sid
  <2>4. i <= opened' /\ opened <= opened' /\ opened' \in Nat
    BY <1>0, <2>1, <2>2, <2>3
  <2> QED BY <2>2, <2>3, <2>4 DEF Request, Pair, Session
<1>2. /\ \A t \in Slot : /\ req[t].sid <= opened /\ req[t].token <= drawn
                         /\ req[t].phase = "respond" =>
                              req[t].grant.sid <= opened /\ req[t].grant.token <= drawn
      /\ \A d \in Device : held[d].sid <= opened /\ held[d].token <= drawn
  BY DEF Tracked, Counted
<1>3. Shaped'
  BY <1>0, <1>1 DEF Tracked, Shaped, Shape
<1>4. Counted'
  BY <1>0, <1>1, <1>2 DEF Counted
<1>5. Owned'
  <2>1. PICK own \in [Nat -> Device \cup {"nobody"}] : OwnedBy(own)
    BY DEF Tracked, Owned
  <2>2. CASE req[s].phase = "renew"
    <3>1. OwnedBy(own)'
      BY <1>0, <1>1, <2>1, <2>2 DEF OwnedBy
    <3> QED BY <2>1, <3>1 DEF Owned
  <2>3. CASE req[s].phase = "create"
    <3>1. PICK new \in [Nat -> Device \cup {"nobody"}] :
            new[i] = req[s].device /\ \A j \in Nat \ {i} : new[j] = own[j]
      <4>1. req[s].device \in Device
        BY <1>0, <2>3 DEF Shape
      <4>2. [own EXCEPT ![i] = req[s].device] \in [Nat -> Device \cup {"nobody"}]
        BY <2>1, <4>1
      <4>3. /\ [own EXCEPT ![i] = req[s].device][i] = req[s].device
            /\ \A j \in Nat \ {i} : [own EXCEPT ![i] = req[s].device][j] = own[j]
        BY <1>1, <2>1
      <4> QED BY <4>2, <4>3
    <3>2. i = opened + 1
      BY <2>3
    <3>3. OwnedBy(new)'
      BY <1>0, <1>1, <1>2, <2>1, <2>3, <3>1, <3>2 DEF OwnedBy
    <3> QED BY <3>1, <3>3 DEF Owned
  <2> QED BY <1>0, <2>2, <2>3
<1>6. Underway'
  <2> SUFFICES ASSUME NEW t \in Slot, Fresh(req'[t])
               PROVE  (/\ req[t].grant.token # 0
                       /\ \A d \in Device : held[d].token # req[t].grant.token
                       /\ \A u \in Slot : req[u].token # req[t].grant.token
                       /\ \A u \in Slot \ {t} :
                            req[u].phase = "respond" => req[u].grant.token # req[t].grant.token
                       /\ req[t].sid = 0 =>
                            /\ \A d \in Device : held[d].sid # req[t].grant.sid
                            /\ \A u \in Slot : req[u].sid # req[t].grant.sid
                            /\ \A u \in Slot \ {t} :
                                 req[u].phase = "respond" => req[u].grant.sid # req[t].grant.sid
                       /\ (req[t].sid = 0 \/ ~req[t].met) =>
                            sessions[req[t].grant.sid].token \in {0, req[t].grant.token})'
    BY DEF Underway
  <2>1. CASE t = s
    <3>1. req'[s].phase = "respond" /\ req'[s].grant.sid = i /\ req'[s].grant.token = drawn + 1
      BY <1>0, <2>1 DEF Fresh
    <3>2. /\ \A u \in Slot : req'[u].token # drawn + 1
          /\ \A d \in Device : held[d].token # drawn + 1
          /\ \A u \in Slot \ {s} : req'[u].phase = "respond" => req'[u].grant.token # drawn + 1
      BY <1>0, <1>1, <1>2
    <3>3. req'[s].sid = 0 =>
            /\ i = opened + 1
            /\ \A u \in Slot : req'[u].sid # i
            /\ \A d \in Device : held[d].sid # i
            /\ \A u \in Slot \ {s} : req'[u].phase = "respond" => req'[u].grant.sid # i
      <4> SUFFICES ASSUME req'[s].sid = 0
                   PROVE  /\ i = opened + 1
                          /\ \A u \in Slot : req'[u].sid # i
                          /\ \A d \in Device : held[d].sid # i
                          /\ \A u \in Slot \ {s} :
                               req'[u].phase = "respond" => req'[u].grant.sid # i
        OBVIOUS
      <4>1. req[s].sid = 0
        BY <1>0, <3>1
      <4>2. i = opened + 1
        BY <1>0, <1>1, <4>1
      <4> QED BY <1>1, <1>2, <4>2
    <3> QED BY <1>1, <2>1, <3>1, <3>2, <3>3
  <2>2. CASE t # s
    <3>1. req'[t] = req[t] /\ Fresh(req[t]) /\ Shape(req[t])
      BY <2>2 DEF Tracked, Shaped, Fresh
    <3>2. /\ req[t].grant.token # 0 /\ req[t].grant.sid # 0
          /\ \A d \in Device : held[d].token # req[t].grant.token
          /\ \A u \in Slot : req[u].token # req[t].grant.token
          /\ \A u \in Slot \ {t} :
               req[u].phase = "respond" => req[u].grant.token # req[t].grant.token
          /\ req[t].sid = 0 =>
               /\ \A d \in Device : held[d].sid # req[t].grant.sid
               /\ \A u \in Slot : req[u].sid # req[t].grant.sid
               /\ \A u \in Slot \ {t} :
                    req[u].phase = "respond" => req[u].grant.sid # req[t].grant.sid
          /\ (req[t].sid = 0 \/ ~req[t].met) =>
               sessions[req[t].grant.sid].token \in {0, req[t].grant.token}
      BY <3>1 DEF Tracked, Underway, Shape, Fresh
    <3>3. /\ req[t].grant.sid \in Sid /\ req[t].grant.sid <= opened
          /\ req[t].grant.token <= drawn
      BY <1>1, <1>2, <3>1, <3>2 DEF Fresh, Sid
    <3>4. \A u \in Slot : req'[u].token # req[t].grant.token
      BY <1>0, <3>2
    <3>5. \A u \in Slot \ {t} :
            req'[u].phase = "respond" => req'[u].grant.token # req[t].grant.token
      BY <1>0, <1>1, <3>2, <3>3
    <3>6. (req[t].sid = 0 \/ ~req[t].met) => req[t].grant.sid # i
      <4>1. CASE req[s].phase = "create"
        BY <1>1, <3>3, <4>1
      <4>2. CASE req[s].phase = "renew"
        <5>1. CASE req[t].sid = 0
          BY <1>0, <3>2, <4>2, <5>1
        <5>2. CASE req[t].sid # 0 /\ req[t].grant.sid = i
          <6>1. Found(req[t]) /\ Found(req[s]) /\ req[t].sid = req[s].sid
            BY <1>0, <3>1, <4>2, <5>2 DEF Found, Fresh, Shape
          <6> QED BY <2>2, <5>2, <6>1 DEF Tracked, Met
        <5> QED BY <5>1, <5>2
      <4> QED BY <1>0, <4>1, <4>2
    <3>7. (req[t].sid = 0 \/ ~req[t].met) =>
            sessions'[req[t].grant.sid].token \in {0, req[t].grant.token}
      BY <3>2, <3>3, <3>6
    <3>8. req[t].sid = 0 =>
            /\ \A u \in Slot : req'[u].sid # req[t].grant.sid
            /\ \A u \in Slot \ {t} :
                 req'[u].phase = "respond" => req'[u].grant.sid # req[t].grant.sid
      BY <1>0, <3>2, <3>6
    <3> QED BY <3>1, <3>2, <3>4, <3>5, <3>7, <3>8
  <2> QED BY <2>1, <2>2
<1>7. Met'
  <2>1. \A t \in Slot : Found(req'[t]) =>
          /\ Found(req[t]) /\ req'[t].sid = req[t].sid /\ req'[t].met = req[t].met
    BY <1>0 DEF Found
  <2> QED BY <2>1 DEF Tracked, Met
<1>8. Certain'
  <2> SUFFICES ASSUME NEW d \in Device, held[d].sid # 0, ~doubt[d]
               PROVE  /\ \/ sessions'[held[d].sid].token \in {0, held[d].token}
                         \/ Arriving(d, held[d].sid)'
                      /\ \A t \in Slot : Replaces(t, held[d])' => req'[t].awaited
    BY DEF Certain
  <2> DEFINE j == held[d].sid
  <2>1. j \in Sid /\ j <= opened
    BY <1>1, <1>2 DEF Sid
  <2>2. /\ sessions[j].token \in {0, held[d].token} \/ Arriving(d, j)
        /\ \A t \in Slot : Replaces(t, held[d]) => req[t].awaited
    BY DEF Tracked, Certain
  <2>3. ASSUME NEW t \in Slot, Replaces(t, held[d])'
        PROVE  req'[t].awaited
    BY <1>0, <2>2, <2>3 DEF Replaces
  <2>4. CASE j # i
    <3>1. Arriving(d, j) => Arriving(d, held[d].sid)'
      <4> SUFFICES ASSUME Arriving(d, j) PROVE Arriving(d, held[d].sid)'
        OBVIOUS
      <4>1. PICK w \in Slot :
              /\ req[w].awaited /\ req[w].kind = "refresh" /\ req[w].phase = "respond"
              /\ req[w].device = d /\ req[w].sid = j /\ req[w].grant.token = sessions[j].token
        BY DEF Arriving
      <4>2. w # s
        BY <1>0, <4>1
      <4> QED BY <2>1, <2>4, <4>1, <4>2 DEF Arriving
    <3> QED BY <2>1, <2>2, <2>3, <2>4, <3>1
  <2>5. CASE j = i
    <3>1. req[s].phase = "renew" /\ req[s].sid = j /\ req[s].kind = "refresh"
      BY <1>0, <1>1, <2>1, <2>5
    <3>2. req[s].awaited
      BY <2>2, <3>1 DEF Replaces
    <3>3. req[s].device = d
      BY <3>1 DEF Tracked, Owned, OwnedBy
    <3>4. Arriving(d, held[d].sid)'
      BY <2>5, <3>1, <3>2, <3>3 DEF Arriving
    <3> QED BY <2>3, <3>4
  <2> QED BY <2>4, <2>5
<1> QED BY <1>3, <1>4, <1>5, <1>6, <1>7, <1>8 DEF Tracked

\* A refresh that finds its session with its tokens is one its client awaits, if that
\* has no doubts.
LEMMA TrackedRefresh ==
  ASSUME TypeOK, TypeOK', Tracked, NEW s \in Slot, Refresh(s), ~Answer(s)
  PROVE  Tracked'
<1> DEFINE m == Meeting(s, req[s].sid)
<1>0. UNCHANGED <<server, client>>
  BY DEF Refresh
<1>1. /\ req[s].phase = "find" /\ Matches(req[s].sid, req[s].token)
      /\ req[s].kind = "refresh" /\ req[s].sid # 0 /\ req[s].device \in Device
      /\ req'[s].phase = "renew" /\ (req'[s].met <=> m # {})
      /\ \A t \in Slot \ {s} : /\ Alike(req[t], req'[t])
                               /\ req'[t].met <=> req[t].met \/ t \in m
  BY RefreshForms DEF Tracked, Shaped, Shape
<1>2. /\ req'[s].kind = "refresh" /\ req'[s].device = req[s].device
      /\ req'[s].awaited = req[s].awaited
      /\ req'[s].sid = req[s].sid /\ req'[s].token = req[s].token
  <2>1. req[s] \in Request
    BY DEF TypeOK
  <2>2. Alike([req[s] EXCEPT !.phase = "renew", !.expire = sessions[req[s].sid].expire],
              req'[s])
    BY RefreshForms
  <2> QED BY <1>1, <2>1, <2>2 DEF Alike, Request
<1>3. \A t \in Slot :
        /\ req'[t].kind = req[t].kind /\ req'[t].device = req[t].device
        /\ req'[t].awaited = req[t].awaited /\ req'[t].sid = req[t].sid
        /\ req'[t].token = req[t].token
        /\ t # s => req'[t].phase = req[t].phase /\ req'[t].grant = req[t].grant
        /\ t # s /\ ~req'[t].met => ~req[t].met
  BY <1>1, <1>2 DEF Alike
<1>4. Shaped'
  <2>1. ASSUME NEW t \in Slot
        PROVE  Shape(req'[t])
    <3>1. CASE t = s
      BY <1>1, <1>2, <3>1 DEF Shape
    <3>2. CASE t # s
      <4>1. Shape(req[t])
        BY DEF Tracked, Shaped
      <4>2. req[t].phase = "idle" => req'[t] = Idle
        <5> SUFFICES ASSUME req[t].phase = "idle" PROVE req'[t] = Idle
          OBVIOUS
        <5>1. t \notin m /\ req[t] = Idle
          BY <4>1 DEF Meeting, Shape
        <5>2. req' = [u \in Slot |->
                 IF u = s
                 THEN [req[s] EXCEPT !.phase = "renew", !.expire = sessions[req[s].sid].expire,
                                     !.met = Meeting(s, req[s].sid) # {}]
                 ELSE [req[u] EXCEPT !.met = @ \/ u \in Meeting(s, req[s].sid)]]
          BY <1>1, Zenon DEF Refresh
        <5>3. req'[t] = [req[t] EXCEPT !.met = @ \/ t \in Meeting(s, req[s].sid)]
          BY <3>2, <5>2, Zenon
        <5>4. PICK b : b = (Idle.met \/ t \in Meeting(s, req[s].sid))
          OBVIOUS
        <5>5. b = FALSE
          BY <5>1, <5>4 DEF Idle
        <5>6. req'[t] = [Idle EXCEPT !.met = b]
          BY <5>1, <5>3, <5>4, Zenon
        <5> QED BY <5>5, <5>6 DEF Idle
      <4> QED BY <1>3, <3>2, <4>1, <4>2 DEF Shape
    <3> QED BY <3>1, <3>2
  <2> QED BY <1>0, <2>1 DEF Tracked, Shaped
<1>5. Counted'
  BY <1>0, <1>1, <1>3 DEF Tracked, Counted
<1>6. Owned'
  <2>1. PICK own \in [Nat -> Device \cup {"nobody"}] : OwnedBy(own)
    BY DEF Tracked, Owned
  <2>2. OwnedBy(own)'
    BY <1>0, <1>1, <1>3, <2>1 DEF OwnedBy
  <2> QED BY <2>1, <2>2 DEF Owned
<1>7. Underway'
  <2>1. \A t \in Slot : Fresh(req'[t]) => t # s /\ Fresh(req[t])
    BY <1>1, <1>3 DEF Fresh
  <2>2. \A t \in Slot : req'[t].phase = "respond" => t # s
    BY <1>1
  <2> QED BY <1>0, <1>3, <2>1, <2>2 DEF Tracked, Underway
<1>8. Met'
  <2> SUFFICES ASSUME NEW t \in Slot, NEW u \in Slot, t # u, Found(req'[t]), Found(req'[u]),
                      req'[t].sid = req'[u].sid
               PROVE  req'[t].met
    BY DEF Met
  <2>1. CASE t # s /\ u # s
    BY <1>1, <1>3, <2>1 DEF Tracked, Met, Found
  <2>2. CASE u = s
    <3>1. t \in m
      BY <1>3, <2>2 DEF Found, Meeting
    <3> QED BY <1>1, <2>2, <3>1
  <2>3. CASE t = s
    <3>1. u \in m
      BY <1>3, <2>3 DEF Found, Meeting
    <3> QED BY <1>1, <2>3, <3>1
  <2> QED BY <2>1, <2>2, <2>3
<1>9. Certain'
  <2> SUFFICES ASSUME NEW d \in Device, held[d].sid # 0, ~doubt[d]
               PROVE  /\ \/ sessions[held[d].sid].token \in {0, held[d].token}
                         \/ Arriving(d, held[d].sid)'
                      /\ \A t \in Slot : Replaces(t, held[d])' => req'[t].awaited
    BY <1>0 DEF Certain
  <2> DEFINE i == held[d].sid
  <2>1. /\ sessions[i].token \in {0, held[d].token} \/ Arriving(d, i)
        /\ \A t \in Slot : Replaces(t, held[d]) => req[t].awaited
    BY DEF Tracked, Certain
  <2>2. Arriving(d, i) => Arriving(d, held[d].sid)'
    BY <1>0, <1>1, <1>3 DEF Arriving
  <2>3. ASSUME NEW t \in Slot, Replaces(t, held[d])'
        PROVE  req'[t].awaited
    <3>1. CASE t # s
      BY <1>0, <1>3, <2>1, <2>3, <3>1 DEF Replaces
    <3>2. CASE t = s
      <4>1. req[s].sid = i /\ sessions[i].token = req[s].token /\ req[s].token # 0
        BY <1>0, <1>1, <1>3, <2>3, <3>2 DEF Replaces, Matches, Exists
      <4>2. CASE req[s].token = held[d].token
        BY <1>1, <1>3, <2>1, <3>2, <4>1, <4>2 DEF Replaces
      <4>3. CASE req[s].token # held[d].token
        <5>1. PICK w \in Slot : /\ req[w].kind = "refresh" /\ req[w].phase = "respond"
                                /\ req[w].grant.token = req[s].token
          BY <2>1, <4>1, <4>3 DEF Arriving
        <5>2. req[s].token # req[w].grant.token
          BY <5>1 DEF Tracked, Underway, Fresh
        <5> QED BY <5>1, <5>2
      <4> QED BY <4>2, <4>3
    <3> QED BY <3>1, <3>2
  <2> QED BY <2>1, <2>2, <2>3
<1> QED BY <1>4, <1>5, <1>6, <1>7, <1>8, <1>9 DEF Tracked

\* A client that gives up a refresh has its doubts.
LEMMA TrackedGiveUp ==
  ASSUME TypeOK, TypeOK', Tracked, NEW s \in Slot, GiveUp(s)
  PROVE  Tracked'
<1>0. UNCHANGED <<server, held>> /\ req[s].awaited
  BY DEF GiveUp
<1>1. /\ req[s].phase # "idle" /\ req[s].device \in Device
      /\ req[s].kind = "refresh" => doubt'[req[s].device]
      /\ \A d \in Device : ~doubt'[d] => ~doubt[d]
  <2>1. Shape(req[s]) /\ ~Idle.awaited
    BY DEF Tracked, Shaped, Idle
  <2>2. req[s].phase # "idle" /\ req[s].device \in Device
    BY <1>0, <2>1 DEF Shape
  <2>3. PICK b : /\ b = (doubt[req[s].device] \/ req[s].kind = "refresh")
                 /\ doubt' = [doubt EXCEPT ![req[s].device] = b]
    BY DEF GiveUp
  <2>4. doubt'[req[s].device] = b /\ \A d \in Device \ {req[s].device} : doubt'[d] = doubt[d]
    BY <2>2, <2>3 DEF TypeOK
  <2> QED BY <2>2, <2>3, <2>4
<1>2. \A t \in Slot :
        /\ req'[t].phase = req[t].phase
        /\ req'[t].kind = req[t].kind /\ req'[t].device = req[t].device
        /\ req'[t].sid = req[t].sid /\ req'[t].token = req[t].token
        /\ req'[t].met = req[t].met /\ req'[t].grant = req[t].grant
        /\ t # s => req'[t] = req[t]
  <2>1. req' = [req EXCEPT ![s] = [req[s] EXCEPT !.awaited = FALSE]]
    BY DEF GiveUp
  <2> QED BY <2>1 DEF TypeOK, Request
<1>3. Shaped'
  BY <1>0, <1>1, <1>2 DEF Tracked, Shaped, Shape
<1>4. Counted'
  BY <1>0, <1>2 DEF Tracked, Counted
<1>5. Owned'
  <2>1. PICK own \in [Nat -> Device \cup {"nobody"}] : OwnedBy(own)
    BY DEF Tracked, Owned
  <2>2. OwnedBy(own)'
    BY <1>0, <1>2, <2>1 DEF OwnedBy
  <2> QED BY <2>1, <2>2 DEF Owned
<1>6. Underway'
  BY <1>0, <1>2 DEF Tracked, Underway, Fresh
<1>7. Met'
  BY <1>2 DEF Tracked, Met, Found
<1>8. Certain'
  <2> SUFFICES ASSUME NEW d \in Device, held[d].sid # 0, ~doubt'[d]
               PROVE  /\ \/ sessions[held[d].sid].token \in {0, held[d].token}
                         \/ Arriving(d, held[d].sid)'
                      /\ \A t \in Slot : Replaces(t, held[d])' => req'[t].awaited
    BY <1>0 DEF Certain
  <2>1. /\ ~doubt[d] /\ (req[s].kind = "refresh" => req[s].device # d)
        /\ sessions[held[d].sid].token \in {0, held[d].token} \/ Arriving(d, held[d].sid)
        /\ \A t \in Slot : Replaces(t, held[d]) => req[t].awaited
    BY <1>1 DEF Tracked, Certain
  <2>2. Arriving(d, held[d].sid) => Arriving(d, held[d].sid)'
    BY <1>0, <1>2, <2>1 DEF Arriving
  <2>3. ASSUME NEW t \in Slot, Replaces(t, held[d])'
        PROVE  req'[t].awaited
    <3>1. Replaces(t, held[d])
      BY <1>0, <1>2, <2>3 DEF Replaces
    <3>2. req[t].device = d
      BY <3>1 DEF Replaces, Tracked, Owned, OwnedBy
    <3> QED BY <1>2, <2>1, <3>1, <3>2 DEF Replaces
  <2> QED BY <2>1, <2>2, <2>3
<1> QED BY <1>3, <1>4, <1>5, <1>6, <1>7, <1>8 DEF Tracked

\* So has one whose refresh the server stopped in.
LEMMA TrackedCrash ==
  ASSUME TypeOK, TypeOK', Tracked, Crash
  PROVE  Tracked'
<1>0. /\ UNCHANGED <<server, held>> /\ \A s \in Slot : req'[s] = Idle
      /\ Idle.sid = 0 /\ Idle.token = 0 /\ Idle.kind = "none" /\ Idle.phase = "idle"
  BY DEF Crash, Idle
<1>1. \A d \in Device :
        ~doubt'[d] => /\ ~doubt[d]
                      /\ ~\E s \in Slot : /\ req[s].kind = "refresh" /\ req[s].awaited
                                          /\ req[s].device = d
  BY DEF Crash
<1>2. Shaped' /\ Met'
  BY <1>0 DEF Tracked, Shaped, Shape, Met, Found
<1>3. Counted'
  BY <1>0 DEF Tracked, Counted, TypeOK
<1>4. Owned'
  <2>1. PICK own \in [Nat -> Device \cup {"nobody"}] : OwnedBy(own)
    BY DEF Tracked, Owned
  <2>2. OwnedBy(own)'
    BY <1>0, <2>1 DEF OwnedBy
  <2> QED BY <2>1, <2>2 DEF Owned
<1>5. Underway'
  BY <1>0 DEF Underway, Fresh
<1>6. Certain'
  BY <1>0, <1>1 DEF Tracked, Certain, Arriving, Replaces
<1> QED BY <1>2, <1>3, <1>4, <1>5, <1>6 DEF Tracked

\* A request that is answered with a pair keeps its other fields.
LEMMA Responding ==
  ASSUME TypeOK, NEW s \in Slot, NEW pair \in Pair, Respond(s, pair)
  PROVE  /\ \A t \in Slot \ {s} : req'[t] = req[t]
         /\ \/ ~req[s].awaited /\ req'[s] = Idle
            \/ /\ req[s].awaited /\ req'[s].awaited /\ req'[s].phase = "respond"
               /\ req'[s].grant = pair
               /\ req'[s].kind = req[s].kind /\ req'[s].device = req[s].device
               /\ req'[s].sid = req[s].sid /\ req'[s].token = req[s].token
               /\ req'[s].met = req[s].met
<1>1. /\ req[s] \in Request /\ \A t \in Slot \ {s} : req'[t] = req[t]
      /\ ~req[s].awaited => req'[s] = Idle
      /\ req[s].awaited => req'[s] = [req[s] EXCEPT !.phase = "respond", !.grant = pair]
  BY DEF TypeOK, Respond
<1>2. ASSUME NEW r \in Request, NEW q, q = [r EXCEPT !.phase = "respond", !.grant = pair]
      PROVE  /\ q.awaited = r.awaited /\ q.phase = "respond" /\ q.grant = pair
             /\ q.kind = r.kind /\ q.device = r.device
             /\ q.sid = r.sid /\ q.token = r.token /\ q.met = r.met
  BY <1>2 DEF Request
<1> QED BY <1>1, <1>2

\* Whatever overlaps, fails and is lost, it stays so.
LEMMA TrackedStep ==
  ASSUME TypeOK, Tracked, [Next]_vars
  PROVE  Tracked'
<1>t. /\ TypeOK' /\ Idle.phase = "idle" /\ ~Idle.awaited /\ Idle.kind = "none"
      /\ Idle.sid = 0 /\ Idle.token = 0 /\ Shape(Idle) /\ ~Fresh(Idle)
  BY TypeStep DEF Idle, Shape, Fresh
<1>0. /\ sessions \in [Sid -> Session] /\ req \in [Slot -> Request]
      /\ \A s \in Slot : req[s] \in Request /\ Shape(req[s])
      /\ held \in [Device -> Pair] /\ doubt \in [Device -> BOOLEAN]
      /\ None.token = 0
  BY DEF TypeOK, Tracked, Shaped, None
<1>1. ASSUME NEW s \in Slot, NEW d \in Device, Send(d, s)
      PROVE  Tracked'
  <2>1. UNCHANGED <<server, client>> /\ req[s].phase = "idle"
    BY <1>1 DEF Send, AskSession, AskRefresh, Ask, CanSend
  <2>2. PICK kind, phase, pair, target :
          /\ req' = [req EXCEPT ![s] = NewRequest(d, kind, phase, pair, target)]
          /\ \/ phase \in {"create", "handle"} /\ pair = NoPair /\ kind # "refresh"
             \/ phase = "validate" /\ pair = held[d] /\ kind # "refresh"
             \/ phase = "find" /\ pair = held[d] /\ held[d] # NoPair /\ kind = "refresh"
    BY <1>1 DEF Send, AskSession, AskRefresh, Ask
  <2> DEFINE r == NewRequest(d, kind, phase, pair, target)
  <2>3. /\ r.phase = phase /\ r.kind = kind /\ r.awaited /\ r.device = d
        /\ r.sid = pair.sid /\ r.token = pair.token
    BY DEF NewRequest, Idle
  <2>4. OnlySlot(s, r)
    BY <1>0, <2>2 DEF OnlySlot
  <2>5. /\ NoPair.sid = 0 /\ NoPair.token = 0
        /\ held[d] # NoPair => held[d].sid # 0
    BY DEF NoPair, Tracked, Shaped
  <2> HIDE DEF r
  <2>6. Shape(r) /\ ~Fresh(r) /\ r.phase # "renew"
    BY <2>2, <2>3, <2>5 DEF Shape, Fresh
  <2> QED BY <1>t, <2>1, <2>2, <2>3, <2>4, <2>5, <2>6, TrackedQuiet
<1>2. ASSUME NEW s \in Slot, Answer(s), held' = held, doubt' = doubt, opened' = opened,
             drawn' = drawn, \A i \in Sid : sessions'[i].token \in {sessions[i].token, 0},
             req[s].phase = "respond" => ~req[s].awaited \/ req[s].kind # "refresh"
      PROVE  Tracked'
  <2>1. OnlySlot(s, Idle)
    BY <1>0, <1>2 DEF Answer, OnlySlot
  <2> QED BY <1>t, <1>2, <2>1, TrackedQuiet
<1>3. ASSUME NEW s \in Slot, NEW r, OnlySlot(s, r), held' = held, doubt' = doubt,
             opened' = opened, drawn' = drawn,
             \A i \in Sid : sessions'[i].token \in {sessions[i].token, 0},
             req[s].phase \notin {"idle", "find", "renew", "respond"},
             r.phase \in {"identify", "handle", "remove", "create", "sweep", "panicked"},
             r.phase = "create" => r.sid = 0,
             r.device = req[s].device, r.kind = req[s].kind,
             r.sid = req[s].sid, r.token = req[s].token
      PROVE  Tracked'
  <2>1. r.kind # "refresh" /\ r.device \in Device
    BY <1>0, <1>3 DEF Shape
  <2>2. Shape(r) /\ ~Fresh(r) /\ r.phase # "renew"
    BY <1>3, <2>1 DEF Shape, Fresh
  <2> QED BY <1>t, <1>3, <2>1, <2>2, TrackedQuiet
<1>4. ASSUME NEW s \in Slot, NEW phase \in {"identify", "handle", "remove", "create", "panicked"},
             Goto(s, phase), UNCHANGED <<server, client>>,
             req[s].phase \notin {"idle", "find", "renew", "respond"},
             phase = "create" => req[s].sid = 0
      PROVE  Tracked'
  <2> DEFINE r == [req[s] EXCEPT !.phase = phase]
  <2>1. OnlySlot(s, r)
    BY <1>0, <1>4 DEF Goto, OnlySlot
  <2>2. /\ r.phase = phase /\ r.device = req[s].device /\ r.kind = req[s].kind
        /\ r.sid = req[s].sid /\ r.token = req[s].token
    BY <1>0 DEF Request
  <2> HIDE DEF r
  <2> QED BY <1>3, <1>4, <2>1, <2>2
<1>5. ASSUME NEW s \in Slot, Check(s) \/ List(s) \/ Delete(s) \/ Recover(s) \/ Fail(s)
      PROVE  Tracked'
  <2>1. UNCHANGED <<server, client>> /\ req[s].phase \notin {"idle", "respond"}
    BY <1>5 DEF Check, List, Delete, Recover, Fail
  <2>2. \/ Answer(s)
        \/ /\ req[s].phase \notin {"find", "renew"}
           /\ \E phase \in {"identify", "handle", "remove", "panicked"} : Goto(s, phase)
    BY <1>5 DEF Check, List, Delete, Recover, Fail
  <2> QED BY <1>2, <1>4, <2>1, <2>2
<1>6. ASSUME NEW s \in Slot, Remove(s) \/ SweptAll(s) \/ (Sweep(s) /\ Answer(s))
      PROVE  Tracked'
  <2>1. /\ Answer(s) /\ held' = held /\ doubt' = doubt /\ opened' = opened /\ drawn' = drawn
        /\ \A i \in Sid : sessions'[i].token \in {sessions[i].token, 0}
        /\ req[s].phase # "respond"
    BY <1>0, <1>6 DEF Remove, SweptAll, Sweep, End
  <2> QED BY <1>2, <2>1
<1>7. ASSUME NEW s \in Slot, Sweep(s), ~Answer(s)
      PROVE  Tracked'
  <2> DEFINE i == Min(req[s].todo)
             r == [req[s] EXCEPT !.todo = req[s].todo \ {i}]
  <2>1. /\ held' = held /\ doubt' = doubt /\ opened' = opened /\ drawn' = drawn
        /\ req' = [req EXCEPT ![s] = r] /\ sessions' = [sessions EXCEPT ![i] = None]
        /\ req[s].phase = "sweep"
    BY <1>7 DEF Sweep, End
  <2>2. OnlySlot(s, r)
    BY <1>0, <2>1 DEF OnlySlot
  <2>3. /\ r.phase = "sweep" /\ r.device = req[s].device /\ r.kind = req[s].kind
        /\ r.sid = req[s].sid /\ r.token = req[s].token
    BY <1>0, <2>1 DEF Request
  <2> HIDE DEF i, r
  <2>4. \A j \in Sid : sessions'[j].token \in {sessions[j].token, 0}
    BY <1>0, <2>1
  <2> QED BY <1>3, <2>1, <2>2, <2>3, <2>4
<1>8. ASSUME NEW s \in Slot, DeleteAll(s)
      PROVE  Tracked'
  <2> DEFINE a == [req[s] EXCEPT !.phase = "panicked"]
             b == [req[s] EXCEPT !.phase = "sweep", !.todo = Others(req[s].sid),
                                 !.told = 1 .. opened \ {req[s].sid}]
  <2>1. /\ UNCHANGED <<server, client>> /\ req[s].phase = "handle"
        /\ req' = [req EXCEPT ![s] = a] \/ req' = [req EXCEPT ![s] = b]
    BY <1>8 DEF DeleteAll
  <2>2. /\ a.phase = "panicked" /\ b.phase = "sweep"
        /\ a.device = req[s].device /\ b.device = req[s].device
        /\ a.kind = req[s].kind /\ b.kind = req[s].kind
        /\ a.sid = req[s].sid /\ b.sid = req[s].sid
        /\ a.token = req[s].token /\ b.token = req[s].token
    BY <1>0 DEF Request
  <2> HIDE DEF a, b
  <2>3. OnlySlot(s, a) \/ OnlySlot(s, b)
    BY <1>0, <2>1 DEF OnlySlot
  <2> QED BY <1>3, <2>1, <2>2, <2>3
<1>9. ASSUME NEW s \in Slot, Logout(s)
      PROVE  Tracked'
  <2>1. /\ Answer(s) /\ opened' = opened /\ drawn' = drawn /\ req[s].phase = "handle"
        /\ \A i \in Sid : sessions'[i].token \in {sessions[i].token, 0}
        /\ HandOver(s, NoPair, FALSE) \/ UNCHANGED <<held, doubt>>
    BY <1>0, <1>9 DEF Logout, End
  <2>2. CASE UNCHANGED <<held, doubt>>
    BY <1>2, <2>1, <2>2
  <2>3. CASE HandOver(s, NoPair, FALSE) /\ req[s].awaited
    <3>1. req[s].device \in Device /\ OnlySlot(s, Idle)
      BY <1>0, <2>1 DEF Shape, Answer, OnlySlot
    <3>2. /\ held' = [held EXCEPT ![req[s].device] = NoPair]
          /\ doubt' = [doubt EXCEPT ![req[s].device] = FALSE]
      BY <2>3 DEF HandOver
    <3> QED BY <1>t, <2>1, <3>1, <3>2, TrackedHand
  <2>4. CASE HandOver(s, NoPair, FALSE) /\ ~req[s].awaited
    BY <1>2, <2>1, <2>4 DEF HandOver
  <2> QED BY <2>1, <2>2, <2>3, <2>4
<1>10. ASSUME NEW s \in Slot, Create(s)
       PROVE  Tracked'
  <2> DEFINE i == opened + 1
             g == [sid |-> i, token |-> drawn + 1]
  <2>1. /\ i \in Sid /\ req[s].phase = "create" /\ opened' = i /\ drawn' = drawn + 1
        /\ held' = held /\ doubt' = doubt
        /\ sessions' = [sessions EXCEPT ![i] = Renewed(0, drawn + 1, clock)]
        /\ Respond(s, g)
    BY <1>10, SessionAssumption DEF Create, Sid, TypeOK
  <2>2. /\ sessions'[i].token = drawn + 1
        /\ \A j \in Sid \ {i} : sessions'[j] = sessions[j]
    BY <1>0, <2>1 DEF Renewed
  <2>3. g \in Pair
    BY <2>1 DEF Pair, TypeOK, Sid
  <2> HIDE DEF i
  <2> QED BY <1>t, <2>1, <2>2, <2>3, Responding, TrackedGrant DEF i, g
<1>11. ASSUME NEW s \in Slot, Regenerate(s)
       PROVE  Tracked'
  <2> DEFINE i == req[s].sid
             g == [sid |-> i, token |-> drawn + 1]
  <2>1. /\ req[s].phase = "renew" /\ opened' = opened /\ held' = held /\ doubt' = doubt
        /\ req[s].kind = "refresh" /\ req[s].sid # 0
    BY <1>0, <1>11 DEF Regenerate, Shape
  <2>2. CASE Expired(req[s].expire)
    BY <1>2, <1>11, <2>1, <2>2 DEF Regenerate
  <2>3. CASE ~Expired(req[s].expire)
    <3>1. /\ drawn' = drawn + 1
          /\ sessions' = [sessions EXCEPT ![i] = Renewed(req[s].token, drawn + 1, clock)]
          /\ Respond(s, g)
      BY <1>11, <2>3 DEF Regenerate, Granted
    <3>2. i \in Sid
      <4>1. i <= opened /\ i \in Nat
        BY <1>0 DEF Tracked, Counted, Request
      <4> QED BY <2>1, <4>1, SessionAssumption DEF TypeOK, Sid
    <3>3. /\ sessions'[i].token = drawn + 1
          /\ \A j \in Sid \ {i} : sessions'[j] = sessions[j]
      BY <1>0, <3>1, <3>2 DEF Renewed
    <3>4. g \in Pair
      BY <3>2 DEF Pair, TypeOK, Sid
    <3> HIDE DEF i
    <3> QED BY <1>t, <2>1, <3>1, <3>2, <3>3, <3>4, Responding, TrackedGrant DEF i, g
  <2> QED BY <2>2, <2>3
<1>12. ASSUME NEW s \in Slot, Refresh(s)
       PROVE  Tracked'
  <2>1. CASE Answer(s)
    BY <1>2, <1>12, <2>1 DEF Refresh
  <2>2. CASE ~Answer(s)
    BY <1>t, <1>12, <2>2, TrackedRefresh
  <2> QED BY <2>1, <2>2
<1>13. ASSUME NEW s \in Slot, Reauthenticate(s)
       PROVE  Tracked'
  <2>1. /\ UNCHANGED <<server, client>> /\ req[s].phase = "handle" /\ req[s].kind = "update"
    BY <1>13 DEF Reauthenticate
  <2>2. CASE req[s].sid = 0
    BY <1>4, <1>13, <2>1, <2>2 DEF Reauthenticate
  <2>3. CASE req[s].sid # 0 /\ ~req[s].awaited
    BY <1>2, <1>13, <2>1, <2>3 DEF Reauthenticate, Respond, Answer
  <2>4. CASE req[s].sid # 0 /\ req[s].awaited
    <3> DEFINE r == [req[s] EXCEPT !.phase = "respond",
                                   !.grant = [sid |-> req[s].sid, token |-> req[s].token]]
    <3>1. OnlySlot(s, r)
      BY <1>0, <1>13, <2>4 DEF Reauthenticate, Respond, Granted, OnlySlot
    <3>2. /\ r.phase = "respond" /\ r.device = req[s].device /\ r.kind = req[s].kind
          /\ r.sid = req[s].sid /\ r.token = req[s].token
          /\ r.grant.sid = req[s].sid /\ r.grant.token = req[s].token
      BY <1>0 DEF Request
    <3> HIDE DEF r
    <3>3. req[s].device \in Device
      BY <1>0, <2>1 DEF Shape
    <3>4. Shape(r) /\ ~Fresh(r)
      BY <2>1, <2>4, <3>2, <3>3 DEF Shape, Fresh
    <3> QED BY <1>t, <2>1, <3>1, <3>2, <3>4, TrackedQuiet
  <2> QED BY <2>2, <2>3, <2>4
<1>14. ASSUME NEW s \in Slot, Deliver(s)
       PROVE  Tracked'
  <2>1. /\ req[s].phase = "respond" /\ Answer(s) /\ UNCHANGED <<server, history>>
        /\ HandOver(s, req[s].grant, Doubtful(req[s]))
    BY <1>14 DEF Deliver
  <2>2. CASE ~req[s].awaited
    BY <1>2, <2>1, <2>2 DEF HandOver
  <2>3. CASE req[s].awaited
    <3> DEFINE d == req[s].device
    <3>1. d \in Device /\ OnlySlot(s, Idle) /\ Doubtful(req[s]) \in BOOLEAN
      BY <1>0, <2>1 DEF Shape, Answer, OnlySlot, Doubtful
    <3>2. /\ held' = [held EXCEPT ![d] = req[s].grant]
          /\ doubt' = [doubt EXCEPT ![d] = Doubtful(req[s])]
      BY <2>1, <2>3 DEF HandOver
    <3>3. CASE Doubtful(req[s]) \/ (Fresh(req[s]) /\ (req[s].sid = 0 \/ ~req[s].met))
      BY <1>t, <2>1, <3>1, <3>2, <3>3, TrackedHand
    <3>4. CASE ~Doubtful(req[s]) /\ ~(Fresh(req[s]) /\ (req[s].sid = 0 \/ ~req[s].met))
      <4>1. req[s].kind = "update" /\ req[s].sid # 0
        BY <1>0, <2>1, <3>4 DEF Shape, Fresh, Doubtful
      <4>2. /\ ~doubt[d] /\ held[d] = [sid |-> req[s].sid, token |-> req[s].token]
            /\ req[s].grant.sid = req[s].sid /\ req[s].grant.token = req[s].token
        BY <1>0, <2>1, <3>4, <4>1 DEF Shape, Doubtful
      <4>3. req[s].grant = held[d]
        BY <1>0, <4>2 DEF Request, Pair
      <4> HIDE DEF d
      <4>4. Doubtful(req[s]) = FALSE /\ doubt[d] = FALSE
        BY <1>0, <3>1, <3>4, <4>2
      <4>5. held' = held /\ doubt' = doubt
        BY <1>0, <3>1, <3>2, <4>3, <4>4
      <4> QED BY <1>2, <2>1, <4>1, <4>5
    <3> QED BY <3>3, <3>4
  <2> QED BY <2>2, <2>3
<1>15. ASSUME NEW s \in Slot, GiveUp(s)
       PROVE  Tracked'
  BY <1>t, <1>15, TrackedGiveUp
<1>16. CASE Crash
  BY <1>t, <1>16, TrackedCrash
<1>17. CASE Tick \/ UNCHANGED vars
  <2>1. UNCHANGED <<sessions, opened, drawn, req, held, doubt>>
    BY <1>17 DEF Tick, vars
  <2> QED BY <2>1 DEF Tracked, Shaped, Counted, Owned, OwnedBy, Underway, Met, Certain,
                     Arriving, Replaces
<1> QED
  BY <1>1, <1>5, <1>6, <1>7, <1>8, <1>9, <1>10, <1>11, <1>12, <1>13, <1>14, <1>15, <1>16,
     <1>17 DEF Next, Handle

\* A client that waits for nothing can use the tokens it was handed last, as long as
\* its session exists, however the requests of all clients, its own too, overlap and
\* fail, whatever responses are lost and however often the server stops, unless it
\* gave up a refresh, two refreshes of its session met, or an update handed it tokens
\* it no longer held.
THEOREM HolderIsAccepted == Spec => []HolderAccepted
<1>1. Init => Tracked
  <2> SUFFICES ASSUME Init PROVE Tracked
    OBVIOUS
  <2>1. /\ \A s \in Slot : req[s] = Idle
        /\ \A d \in Device : held[d] = NoPair
        /\ opened = 0 /\ drawn = 0 /\ NoPair.sid = 0 /\ NoPair.token = 0
        /\ Idle.phase = "idle" /\ Idle.kind = "none" /\ Idle.sid = 0 /\ Idle.token = 0
    BY DEF Init, Idle, NoPair
  <2>2. Shaped /\ Counted /\ Underway /\ Met /\ Certain
    BY <2>1 DEF Shaped, Shape, Counted, Underway, Fresh, Met, Found, Certain
  <2>3. Owned
    <3>1. [i \in Nat |-> "nobody"] \in [Nat -> Device \cup {"nobody"}]
      OBVIOUS
    <3>2. OwnedBy([i \in Nat |-> "nobody"])
      BY <2>1 DEF OwnedBy
    <3> QED BY <3>1, <3>2 DEF Owned
  <2> QED BY <2>2, <2>3 DEF Tracked
<1>2. TypeOK /\ Tracked /\ [Next]_vars => Tracked'
  BY TrackedStep
<1>3. Tracked => HolderAccepted
  BY DEF HolderAccepted, Tracked, Shaped, Certain, Arriving, Waiting, Exists
<1> QED BY <1>1, <1>2, <1>3, TypeCorrect, PTL DEF Spec

-----------------------------------------------------------------------------
(* Terminated sessions.                                                    *)

\* No session was ended under its refresh, and no failing logout was taken for
\* a success.
Unharmed == mishaps \cap {"refresh", "logout"} = {}

\* What ended is gone, and no session is there that was not created.
EndedGone ==
  /\ \A i \in ended : i <= opened /\ ~Exists(i)
  /\ \A i \in Sid : Exists(i) => i <= opened

\* With the sessions in store, of which n were created: a request that renews a
\* session has it still there; of the sessions its client will be told are
\* terminated, those not gone are still to be deleted.
Ending(r, store, n) ==
  /\ r.phase = "renew" => r.sid \in Sid /\ store[r.sid].token # 0
  /\ r.phase = "sweep" =>
       \A i \in r.told : i <= n /\ (i \in r.todo \/ i \notin Sid \/ store[i].token = 0)

Settled == EndedGone /\ \A s \in Slot : Ending(req[s], sessions, opened)

EndedInv == Unharmed => Settled

\* What a request sent starts with.
LEMMA SendAsks ==
  ASSUME NEW s \in Slot, NEW d \in Device, Send(d, s)
  PROVE  \E r : /\ req' = [req EXCEPT ![s] = r]
                /\ r.phase \in {"create", "find", "validate", "handle"}
                /\ r.phase = "handle" => r.sid = 0
<1>1. ASSUME AskSession(d, s)
      PROVE  \E r : /\ req' = [req EXCEPT ![s] = r]
                    /\ r.phase \in {"create", "find", "validate", "handle"}
                    /\ r.phase = "handle" => r.sid = 0
  <2>1. req' = [req EXCEPT ![s] = NewRequest(d, "signin", "create", NoPair, 0)]
    BY <1>1 DEF AskSession
  <2>2. NewRequest(d, "signin", "create", NoPair, 0).phase = "create"
    BY DEF NewRequest, Idle
  <2> WITNESS NewRequest(d, "signin", "create", NoPair, 0)
  <2> QED BY <2>1, <2>2
<1>2. ASSUME AskRefresh(d, s)
      PROVE  \E r : /\ req' = [req EXCEPT ![s] = r]
                    /\ r.phase \in {"create", "find", "validate", "handle"}
                    /\ r.phase = "handle" => r.sid = 0
  <2>1. req' = [req EXCEPT ![s] = NewRequest(d, "refresh", "find", held[d], 0)]
    BY <1>2 DEF AskRefresh
  <2>2. NewRequest(d, "refresh", "find", held[d], 0).phase = "find"
    BY DEF NewRequest, Idle
  <2> WITNESS NewRequest(d, "refresh", "find", held[d], 0)
  <2> QED BY <2>1, <2>2
<1>3. ASSUME NEW kind, NEW target, Ask(d, s, kind, target)
      PROVE  \E r : /\ req' = [req EXCEPT ![s] = r]
                    /\ r.phase \in {"create", "find", "validate", "handle"}
                    /\ r.phase = "handle" => r.sid = 0
  <2>1. PICK phase \in {"validate", "handle"}, pair \in {held[d], NoPair} :
          /\ req' = [req EXCEPT ![s] = NewRequest(d, kind, phase, pair, target)]
          /\ phase = "handle" => pair = NoPair
    BY <1>3 DEF Ask
  <2>2. /\ NewRequest(d, kind, phase, pair, target).phase = phase
        /\ NewRequest(d, kind, phase, pair, target).sid = pair.sid
        /\ NoPair.sid = 0
    BY DEF NewRequest, Idle, NoPair
  <2> WITNESS NewRequest(d, kind, phase, pair, target)
  <2> QED BY <2>1, <2>2
<1> QED BY <1>1, <1>2, <1>3 DEF Send

\* What went wrong once is not forgotten.
LEMMA MishapsStay ==
  ASSUME [Next]_vars
  PROVE  mishaps \subseteq mishaps'
<1>1. ASSUME NEW s \in Slot, Logout(s) \/ Remove(s) \/ Sweep(s)
      PROVE  mishaps \subseteq mishaps'
  BY <1>1 DEF Logout, Remove, Sweep, End
<1>2. ASSUME NEW s \in Slot, Create(s) \/ Check(s) \/ List(s) \/ Delete(s) \/ DeleteAll(s)
      PROVE  mishaps' = mishaps
  BY <1>2 DEF Create, Check, List, Delete, DeleteAll
<1>3. ASSUME NEW s \in Slot, SweptAll(s) \/ Refresh(s) \/ Regenerate(s) \/ Recover(s) \/ Fail(s)
      PROVE  mishaps' = mishaps
  BY <1>3 DEF SweptAll, Refresh, Regenerate, Recover, Fail
<1>4. ASSUME NEW s \in Slot, Reauthenticate(s) \/ Deliver(s) \/ GiveUp(s)
      PROVE  mishaps' = mishaps
  BY <1>4 DEF Reauthenticate, Deliver, GiveUp
<1>5. ASSUME NEW s \in Slot, NEW d \in Device, Send(d, s)
      PROVE  mishaps' = mishaps
  BY <1>5 DEF Send, AskSession, AskRefresh, Ask
<1>6. ASSUME Crash \/ Tick \/ UNCHANGED vars
      PROVE  mishaps' = mishaps
  BY <1>6 DEF Crash, Tick, vars
<1> QED BY <1>1, <1>2, <1>3, <1>4, <1>5, <1>6, Zenon DEF Next, Handle

\* A step of one request leaves the others settled, unless it brings a session
\* back or ends one they refresh.
LEMMA SettledKept ==
  ASSUME TypeOK, Settled, NEW s \in Slot,
         \A t \in Slot \ {s} : req'[t] = req[t] \/ Alike(req[t], req'[t]),
         Ending(req'[s], sessions', opened'), EndedGone',
         opened' \in {opened, opened + 1},
         \A i \in Sid : (i <= opened /\ ~Exists(i)) => sessions'[i].token = 0,
         \A t \in Slot \ {s} : req[t].phase = "renew" => sessions'[req[t].sid].token # 0
  PROVE  Settled'
<1>1. ASSUME NEW t \in Slot \ {s}
      PROVE  Ending(req'[t], sessions', opened')
  <2> DEFINE r == req[t]
  <2>1. Ending(r, sessions, opened) /\ r.told \subseteq Nat /\ opened \in Nat
    BY DEF Settled, TypeOK, Request
  <2>2. r.phase = "renew" => r.sid \in Sid /\ sessions'[r.sid].token # 0
    BY <2>1 DEF Ending
  <2>3. ASSUME r.phase = "sweep", NEW i \in r.told
        PROVE  i <= opened' /\ (i \in r.todo \/ i \notin Sid \/ sessions'[i].token = 0)
    <3>1. i \in Nat /\ i <= opened /\ (i \in r.todo \/ i \notin Sid \/ sessions[i].token = 0)
      BY <2>1, <2>3 DEF Ending
    <3>2. i <= opened'
      BY <2>1, <3>1
    <3> QED BY <3>1, <3>2 DEF Exists
  <2>4. Ending(r, sessions', opened')
    <3> HIDE DEF r
    <3> QED BY <2>2, <2>3 DEF Ending
  <2>5. /\ req'[t].phase = r.phase /\ req'[t].sid = r.sid
        /\ req'[t].told = r.told /\ req'[t].todo = r.todo
    BY DEF Alike
  <2> HIDE DEF r
  <2> QED BY <2>4, <2>5 DEF Ending
<1> QED BY <1>1 DEF Settled

\* A request that is answered leaves nothing behind.
LEMMA SettledAnswer ==
  ASSUME TypeOK, Settled, NEW s \in Slot, Closed(s), EndedGone', opened' = opened,
         \A i \in Sid : ~Exists(i) => sessions'[i].token = 0,
         \A t \in Slot \ {s} : req[t].phase = "renew" => sessions'[req[t].sid].token # 0
  PROVE  Settled'
<1>1. /\ req'[s].phase \in {"idle", "respond"}
      /\ \A t \in Slot \ {s} : req'[t] = req[t]
  BY DEF Closed, TypeOK
<1>2. Ending(req'[s], sessions', opened')
  BY <1>1 DEF Ending
<1> QED BY <1>1, <1>2, SettledKept

\* Where the sessions stay, a request settles for itself.
LEMMA SettledSame ==
  ASSUME TypeOK, Settled, NEW s \in Slot, NEW r, req' = [req EXCEPT ![s] = r],
         Ending(r, sessions, opened), UNCHANGED <<sessions, opened, ended>>
  PROVE  Settled'
<1>1. EndedGone' /\ req'[s] = r /\ \A t \in Slot \ {s} : req'[t] = req[t]
  BY DEF Settled, EndedGone, Exists, TypeOK
<1>2. \A t \in Slot : req[t].phase = "renew" => sessions[req[t].sid].token # 0
  BY DEF Settled, Ending
<1> QED BY <1>1, <1>2, SettledKept DEF Exists

\* Where one ends that no other request refreshes, the rest stays gone.
LEMMA SettledEnd ==
  ASSUME TypeOK, Settled, NEW s \in Slot, NEW i \in Sid, Exists(i), End(s, i), Unharmed',
         opened' = opened, ended' \in {ended, ended \cup {i}}
  PROVE  /\ EndedGone'
         /\ \A j \in Sid : sessions'[j] = IF j = i THEN None ELSE sessions[j]
         /\ \A t \in Slot \ {s} : req[t].phase = "renew" => sessions'[req[t].sid].token # 0
<1>1. /\ sessions' = [sessions EXCEPT ![i] = None] /\ None.token = 0
      /\ sessions \in [Sid -> Session]
  BY DEF End, None, TypeOK
<1>2. \A j \in Sid : sessions'[j] = IF j = i THEN None ELSE sessions[j]
  BY <1>1
<1>3. EndedGone'
  BY <1>1, <1>2 DEF Settled, EndedGone, Exists
<1>4. \A t \in Slot \ {s} : ~Refreshes(t, i)
  BY DEF End, Harm, Unharmed
<1>5. ASSUME NEW t \in Slot \ {s}, req[t].phase = "renew"
      PROVE  sessions'[req[t].sid].token # 0
  <2>1. req[t].sid \in Sid /\ sessions[req[t].sid].token # 0 /\ req[t].sid # i
    BY <1>4, <1>5 DEF Settled, Ending, Refreshes
  <2> QED BY <1>2, <2>1
<1> QED BY <1>2, <1>3, <1>5

\* A step that does no harm keeps what ended gone.
LEMMA SettledStep ==
  ASSUME TypeOK, Settled, Next, Unharmed'
  PROVE  Settled'
<1>0. /\ sessions \in [Sid -> Session] /\ opened \in Nat /\ drawn \in Nat
      /\ \A s \in Slot : req[s] \in Request /\ Ending(req[s], sessions, opened)
      /\ req \in [Slot -> Request]
      /\ EndedGone /\ Idle.phase = "idle" /\ None.token = 0
  BY DEF TypeOK, Settled, Idle, None
<1>1. ASSUME NEW s \in Slot, NEW d \in Device, Send(d, s)
      PROVE  Settled'
  <2>1. PICK r : req' = [req EXCEPT ![s] = r] /\ r.phase \in {"create", "find", "validate", "handle"}
    BY <1>1, SendAsks
  <2>2. Ending(r, sessions, opened)
    BY <2>1 DEF Ending
  <2>3. UNCHANGED <<sessions, opened, ended>>
    BY <1>1 DEF Send, AskSession, AskRefresh, Ask
  <2> QED BY <2>1, <2>2, <2>3, SettledSame
<1>2. ASSUME NEW s \in Slot, Create(s)
      PROVE  Settled'
  <2>1. /\ opened + 1 \in Sid /\ opened' = opened + 1 /\ ended' = ended
        /\ \A i \in Sid \ {opened + 1} : sessions'[i] = sessions[i]
        /\ sessions'[opened + 1].token = drawn + 1 /\ Closed(s)
    BY <1>0, <1>2, SessionAssumption, Closing DEF Create, Sid, Renewed
  <2>2. \A i \in Sid : i \in Nat
    BY DEF Sid
  <2>3. \A i \in ended : i \in Nat /\ i <= opened' /\ ~Exists(i)'
    <3>1. \A i \in ended : i \in Nat /\ i <= opened /\ ~Exists(i)
      BY <1>0 DEF EndedGone, TypeOK
    <3> QED BY <1>0, <2>1, <3>1 DEF Exists
  <2>4. \A i \in Sid : Exists(i)' => i <= opened'
    BY <1>0, <2>1, <2>2 DEF EndedGone, Exists
  <2>5. EndedGone'
    BY <2>1, <2>3, <2>4 DEF EndedGone
  <2>6. /\ req'[s].phase \in {"idle", "respond"}
        /\ \A t \in Slot \ {s} : req'[t] = req[t]
    BY <1>0, <2>1 DEF Closed
  <2>7. Ending(req'[s], sessions', opened')
    BY <1>0, <2>6 DEF Ending
  <2>8. \A i \in Sid : (i <= opened /\ ~Exists(i)) => sessions'[i].token = 0
    BY <1>0, <2>1, <2>2 DEF Exists
  <2>9. \A t \in Slot \ {s} : req[t].phase = "renew" => sessions'[req[t].sid].token # 0
    BY <1>0, <2>1 DEF Ending
  <2> QED BY <2>1, <2>5, <2>6, <2>7, <2>8, <2>9, SettledKept
<1>3. ASSUME NEW s \in Slot,
             \/ Check(s) \/ List(s) \/ Delete(s) \/ Deliver(s) \/ Recover(s)
             \/ Reauthenticate(s) \/ Fail(s)
      PROVE  Settled'
  <2>1. UNCHANGED <<sessions, opened, ended>>
    BY <1>3 DEF Check, List, Delete, Deliver, Recover, Reauthenticate, Fail
  <2>2. \/ Closed(s)
        \/ \E phase \in {"identify", "handle", "panicked", "remove", "create"} : Goto(s, phase)
    BY <1>3, Closing DEF Check, List, Delete, Deliver, Recover, Reauthenticate, Fail
  <2>3. PICK r : req' = [req EXCEPT ![s] = r] /\ r.phase \notin {"renew", "sweep"}
    <3>1. CASE Closed(s)
      BY <3>1 DEF Closed
    <3>2. ASSUME NEW phase \in {"identify", "handle", "panicked", "remove", "create"},
                 Goto(s, phase)
          PROVE  \E r : req' = [req EXCEPT ![s] = r] /\ r.phase \notin {"renew", "sweep"}
      <4>1. [req[s] EXCEPT !.phase = phase].phase = phase
        BY <1>0 DEF Request
      <4> WITNESS [req[s] EXCEPT !.phase = phase]
      <4> QED BY <3>2, <4>1 DEF Goto
    <3> QED BY <2>2, <3>1, <3>2
  <2>4. Ending(r, sessions, opened)
    BY <2>3 DEF Ending
  <2> QED BY <2>1, <2>3, <2>4, SettledSame
<1>4. ASSUME NEW s \in Slot, Logout(s) \/ Remove(s)
      PROVE  Settled'
  <2>1. /\ Answer(s) /\ Closed(s) /\ opened' = opened
        /\ \/ UNCHANGED <<sessions, ended>>
           \/ \E i \in Sid : Exists(i) /\ End(s, i) /\ ended' = ended \cup {i}
    BY <1>4, Closing DEF Logout, Remove, Exists, Unharmed
  <2>2. CASE UNCHANGED <<sessions, ended>>
    BY <1>0, <2>1, <2>2, SettledSame DEF Answer, Ending
  <2>3. ASSUME NEW i \in Sid, Exists(i), End(s, i), ended' = ended \cup {i}
        PROVE  Settled'
    <3>1. /\ EndedGone'
          /\ \A j \in Sid : sessions'[j] = IF j = i THEN None ELSE sessions[j]
          /\ \A t \in Slot \ {s} : req[t].phase = "renew" => sessions'[req[t].sid].token # 0
      BY <2>1, <2>3, SettledEnd
    <3>2. \A j \in Sid : ~Exists(j) => sessions'[j].token = 0
      BY <1>0, <3>1 DEF Exists
    <3> QED BY <2>1, <3>1, <3>2, SettledAnswer
  <2> QED BY <2>1, <2>2, <2>3
<1>5. ASSUME NEW s \in Slot, DeleteAll(s)
      PROVE  Settled'
  <2> DEFINE r == req[s]
             a == [r EXCEPT !.phase = "panicked"]
             b == [r EXCEPT !.phase = "sweep", !.todo = Others(r.sid),
                            !.told = 1 .. opened \ {r.sid}]
  <2>1. /\ UNCHANGED <<sessions, opened, ended>>
        /\ req' = [req EXCEPT ![s] = a] \/ req' = [req EXCEPT ![s] = b]
    BY <1>5 DEF DeleteAll
  <2>2. /\ a.phase = "panicked" /\ b.phase = "sweep" /\ b.todo = Others(r.sid)
        /\ b.told = 1 .. opened \ {r.sid}
    BY <1>0 DEF Request
  <2>3. Ending(a, sessions, opened)
    BY <2>2 DEF Ending
  <2>4. Ending(b, sessions, opened)
    BY <1>0, <2>2 DEF Ending, Others, Exists
  <2> HIDE DEF a, b
  <2> QED BY <2>1, <2>3, <2>4, SettledSame
<1>6. ASSUME NEW s \in Slot, Sweep(s)
      PROVE  Settled'
  <2> DEFINE r == req[s]
             i == Min(r.todo)
  <2>1. r.phase = "sweep" /\ opened' = opened /\ ended' = ended
    BY <1>6 DEF Sweep
  <2>2. CASE Exists(i)
    <3>1. /\ End(s, i) /\ i \in Sid
          /\ req' = [req EXCEPT ![s] = [r EXCEPT !.todo = r.todo \ {i}]]
      BY <1>6, <2>2 DEF Sweep, Exists
    <3> HIDE DEF i
    <3>2. /\ EndedGone'
          /\ \A j \in Sid : sessions'[j] = IF j = i THEN None ELSE sessions[j]
          /\ \A t \in Slot \ {s} : req[t].phase = "renew" => sessions'[req[t].sid].token # 0
      BY <2>1, <2>2, <3>1, SettledEnd
    <3>3. \A j \in Sid : ~Exists(j) => sessions'[j].token = 0
      BY <1>0, <3>2 DEF Exists
    <3>4. /\ req'[s].phase = r.phase /\ req'[s].told = r.told /\ req'[s].todo = r.todo \ {i}
          /\ \A t \in Slot \ {s} : req'[t] = req[t]
      BY <1>0, <3>1 DEF Request
    <3>5. Ending(r, sessions, opened)
      BY <1>0
    <3> HIDE DEF r
    <3>6. Ending(req'[s], sessions', opened')
      BY <1>0, <2>1, <3>2, <3>4, <3>5 DEF Ending
    <3> QED BY <2>1, <3>2, <3>3, <3>4, <3>6, SettledKept
  <2>3. CASE ~Exists(i)
    <3>1. sessions' = sessions /\ req' = [req EXCEPT ![s] = Idle]
      BY <1>6, <2>3 DEF Sweep, Answer
    <3>2. Ending(Idle, sessions, opened)
      BY <1>0 DEF Ending
    <3> QED BY <2>1, <3>1, <3>2, SettledSame
  <2> QED BY <2>2, <2>3
<1>7. ASSUME NEW s \in Slot, SweptAll(s)
      PROVE  Settled'
  <2>1. /\ req[s].phase = "sweep" /\ req[s].todo = {} /\ Closed(s)
        /\ UNCHANGED <<sessions, opened>> /\ ended' = ended \cup req[s].told
    BY <1>7, Closing DEF SweptAll
  <2>2. \A i \in req[s].told : i <= opened /\ ~Exists(i)
    BY <1>0, <2>1 DEF Ending, Exists
  <2>3. EndedGone'
    BY <1>0, <2>1, <2>2 DEF EndedGone, Exists
  <2>4. \A t \in Slot \ {s} : req[t].phase = "renew" => sessions'[req[t].sid].token # 0
    BY <1>0, <2>1 DEF Ending
  <2> QED BY <2>1, <2>3, <2>4, SettledAnswer DEF Exists
<1>8. ASSUME NEW s \in Slot, Refresh(s)
      PROVE  Settled'
  <2>1. UNCHANGED <<sessions, opened, ended>>
    BY <1>8 DEF Refresh
  <2>2. CASE ~Answer(s)
    <3>1. /\ Matches(req[s].sid, req[s].token)
          /\ req'[s].phase = "renew" /\ req'[s].sid = req[s].sid
          /\ \A t \in Slot \ {s} : Alike(req[t], req'[t])
      BY <1>8, <2>2, RefreshForms
    <3>2. Ending(req'[s], sessions, opened)
      BY <3>1 DEF Ending, Matches, Exists
    <3>3. EndedGone' /\ \A i \in Sid : ~Exists(i) => sessions'[i].token = 0
      BY <1>0, <2>1 DEF EndedGone, Exists
    <3>4. \A t \in Slot \ {s} : req[t].phase = "renew" => sessions'[req[t].sid].token # 0
      BY <1>0, <2>1 DEF Ending
    <3> QED BY <2>1, <3>1, <3>2, <3>3, <3>4, SettledKept
  <2>3. CASE Answer(s)
    <3>1. req' = [req EXCEPT ![s] = Idle] /\ Ending(Idle, sessions, opened)
      BY <1>0, <2>3 DEF Answer, Ending
    <3> QED BY <2>1, <3>1, SettledSame
  <2> QED BY <2>2, <2>3
<1>9. ASSUME NEW s \in Slot, Regenerate(s)
      PROVE  Settled'
  <2> DEFINE i == req[s].sid
  <2>1. /\ req[s].phase = "renew" /\ Closed(s) /\ opened' = opened /\ ended' = ended
        /\ \/ sessions' = sessions
           \/ sessions' = [sessions EXCEPT ![i] = Renewed(req[s].token, drawn + 1, clock)]
    BY <1>9, Closing DEF Regenerate
  <2>2. i \in Sid /\ sessions[i].token # 0
    BY <1>0, <2>1 DEF Ending
  <2> HIDE DEF i
  <2>3. \A j \in Sid : \/ sessions'[j] = sessions[j]
                       \/ sessions[j].token # 0 /\ sessions'[j].token # 0
    BY <1>0, <2>1, <2>2 DEF Renewed
  <2>4. EndedGone' /\ \A j \in Sid : ~Exists(j) => sessions'[j].token = 0
    BY <1>0, <2>1, <2>3 DEF EndedGone, Exists
  <2>5. \A t \in Slot \ {s} : req[t].phase = "renew" => sessions'[req[t].sid].token # 0
    BY <1>0, <2>3 DEF Ending
  <2> QED BY <2>1, <2>4, <2>5, SettledAnswer
<1>10. ASSUME NEW s \in Slot, GiveUp(s)
       PROVE  Settled'
  <2> DEFINE r == [req[s] EXCEPT !.awaited = FALSE]
  <2>1. req' = [req EXCEPT ![s] = r] /\ UNCHANGED <<sessions, opened, ended>>
    BY <1>10 DEF GiveUp
  <2>2. /\ r.phase = req[s].phase /\ r.sid = req[s].sid
        /\ r.told = req[s].told /\ r.todo = req[s].todo
    BY <1>0 DEF Request
  <2> HIDE DEF r
  <2>3. Ending(r, sessions, opened)
    BY <1>0, <2>2 DEF Ending
  <2> QED BY <2>1, <2>3, SettledSame
<1>11. CASE Crash
  <2>1. UNCHANGED <<sessions, opened, ended>> /\ \A t \in Slot : req'[t].phase = "idle"
    BY <1>0, <1>11 DEF Crash
  <2> QED BY <1>0, <2>1 DEF Settled, EndedGone, Exists, Ending
<1>12. CASE Tick
  BY <1>12 DEF Tick, Settled, EndedGone, Exists
<1> QED
  BY <1>1, <1>2, <1>3, <1>4, <1>5, <1>6, <1>7, <1>8, <1>9, <1>10, <1>11, <1>12
  DEF Next, Handle

\* A session a client was told is terminated never comes back, whatever requests
\* overlap, calls fail, responses are lost and however often the server stops,
\* unless one was ended between the two calls of its own refresh or a logout failed.
THEOREM EndedStayDead == Spec => []EndedForGood
<1>1. Init => EndedInv
  BY DEF Init, EndedInv, Settled, EndedGone, Ending, Exists, Idle, None
<1>2. TypeOK /\ EndedInv /\ [Next]_vars => EndedInv'
  <2>1. CASE UNCHANGED vars
    BY <2>1 DEF vars, EndedInv, Unharmed, Settled, EndedGone, Exists
  <2>2. ASSUME TypeOK, EndedInv, Next, Unharmed'
        PROVE  Settled'
    BY <2>2, MishapsStay, SettledStep DEF EndedInv, Unharmed
  <2> QED BY <2>1, <2>2 DEF EndedInv
<1>3. EndedInv => EndedForGood
  BY DEF EndedInv, Unharmed, Settled, EndedGone, TerminatedStays, EndedForGood
<1> QED BY <1>1, <1>2, <1>3, TypeCorrect, PTL DEF Spec

-----------------------------------------------------------------------------
(* Where one request follows the other.                                    *)

OneAtATime ==
  \A s, t \in Slot : s = t \/ req[s].phase = "idle" \/ req[t].phase = "idle"

\* Only a failing logout goes wrong then, if calls of the database do fail.
Orderly ==
  /\ OneAtATime
  /\ mishaps \subseteq {"logout"} /\ (~Faulty => mishaps = {})

\* A request at work is the only one.
LEMMA AloneKept ==
  ASSUME OneAtATime, NEW s \in Slot,
         req[s].phase # "idle" \/ \A t \in Slot : req[t].phase = "idle",
         \A t \in Slot \ {s} : req'[t] = req[t] \/ Alike(req[t], req'[t])
  PROVE  OneAtATime'
BY DEF OneAtATime, Alike

\* One request after the other leaves no other to harm.
LEMMA OrderlyStep ==
  ASSUME ~Overlap, TypeOK, Orderly, [Next]_vars
  PROVE  Orderly'
<1>0. /\ \A s \in Slot : req[s] \in Request
      /\ req \in [Slot -> Request] /\ Idle.phase = "idle"
  BY DEF TypeOK, Idle
<1>1. ASSUME NEW s \in Slot, NEW d \in Device, Send(d, s)
      PROVE  Orderly'
  <2>1. (\A t \in Slot : req[t].phase = "idle") /\ mishaps' = mishaps
    BY <1>1 DEF Send, AskSession, AskRefresh, Ask, CanSend
  <2>2. PICK r : req' = [req EXCEPT ![s] = r]
    BY <1>1, SendAsks
  <2> QED BY <1>0, <2>1, <2>2, AloneKept DEF Orderly
<1>2. ASSUME NEW s \in Slot, Logout(s) \/ Remove(s) \/ Sweep(s)
      PROVE  Orderly'
  <2>1. /\ req[s].phase # "idle" /\ \A t \in Slot \ {s} : req'[t] = req[t]
        /\ \/ mishaps' = mishaps
           \/ \E i : mishaps' = mishaps \cup Harm(s, i)
           \/ Faulty /\ mishaps' = mishaps \cup {"logout"}
    BY <1>0, <1>2 DEF Logout, Remove, Sweep, End, Answer
  <2>2. \A i : Harm(s, i) = {}
    <3>1. \A t \in Slot \ {s} : req[t].phase = "idle"
      BY <2>1 DEF Orderly, OneAtATime
    <3> QED BY <3>1 DEF Harm, Refreshes, Terminates
  <2>3. mishaps' \subseteq {"logout"} /\ (~Faulty => mishaps' = {})
    BY <2>1, <2>2 DEF Orderly
  <2> QED BY <2>1, <2>3, AloneKept DEF Orderly
<1>3. ASSUME NEW s \in Slot, Create(s) \/ Check(s) \/ List(s) \/ Delete(s) \/ DeleteAll(s)
      PROVE  Orderly'
  <2>1. /\ req[s].phase # "idle" /\ \A t \in Slot \ {s} : req'[t] = req[t]
        /\ mishaps' = mishaps
    BY <1>0, <1>3 DEF Create, Check, List, Delete, DeleteAll, Answer, Respond, Goto
  <2> QED BY <2>1, AloneKept DEF Orderly
<1>4. ASSUME NEW s \in Slot, SweptAll(s) \/ Refresh(s) \/ Regenerate(s) \/ Recover(s) \/ Fail(s)
      PROVE  Orderly'
  <2>1. /\ req[s].phase # "idle" /\ mishaps' = mishaps
    BY <1>4 DEF SweptAll, Refresh, Regenerate, Recover, Fail
  <2>2. \A t \in Slot \ {s} : req'[t] = req[t] \/ Alike(req[t], req'[t])
    <3>1. CASE Closed(s)
      BY <1>0, <3>1 DEF Closed
    <3>2. CASE Refresh(s) /\ ~Answer(s)
      BY <3>2, RefreshForms
    <3> QED
      BY <1>4, <3>1, <3>2, Closing DEF SweptAll, Regenerate, Recover, Fail
  <2> QED BY <2>1, <2>2, AloneKept DEF Orderly
<1>5. ASSUME NEW s \in Slot, Reauthenticate(s) \/ Deliver(s)
      PROVE  Orderly'
  <2>1. /\ req[s].phase # "idle" /\ \A t \in Slot \ {s} : req'[t] = req[t]
        /\ mishaps' = mishaps
    BY <1>0, <1>5 DEF Reauthenticate, Deliver, Answer, Respond, Goto
  <2> QED BY <2>1, AloneKept DEF Orderly
<1>6. ASSUME NEW s \in Slot, GiveUp(s)
      PROVE  Orderly'
  <2>1. /\ req' = [req EXCEPT ![s] = [req[s] EXCEPT !.awaited = FALSE]] /\ mishaps' = mishaps
    BY <1>6 DEF GiveUp
  <2>2. \A t \in Slot : req'[t].phase = req[t].phase
    BY <1>0, <2>1 DEF Request
  <2> QED BY <2>1, <2>2 DEF Orderly, OneAtATime
<1>7. CASE Crash \/ Tick \/ UNCHANGED vars
  BY <1>0, <1>7 DEF Crash, Tick, vars, Orderly, OneAtATime
<1> QED BY <1>1, <1>2, <1>3, <1>4, <1>5, <1>6, <1>7 DEF Next, Handle

\* So it stays.
LEMMA OrderlyAlways == ASSUME ~Overlap PROVE Spec => []Orderly
<1>1. Init => Orderly
  BY DEF Init, Orderly, OneAtATime, Idle
<1>2. TypeOK /\ Orderly /\ [Next]_vars => Orderly'
  BY OrderlyStep
<1> QED BY <1>1, <1>2, TypeCorrect, PTL DEF Spec

\* With one request after the other, and no failing database call, a session a
\* client was told is terminated never comes back, for any number of sessions and
\* whatever responses are lost: only a refresh that overlaps its end revives it.
THEOREM TerminatedStayDead == ASSUME ~Overlap, ~Faulty PROVE Spec => []TerminatedStays
<1>1. Orderly /\ EndedForGood => TerminatedStays
  BY DEF Orderly, EndedForGood
<1> QED BY <1>1, OrderlyAlways, EndedStayDead, PTL

-----------------------------------------------------------------------------
(* The session that terminates others.                                     *)

Deleting(r) ==
  r.phase \in {"remove", "sweep"} \/ (r.phase = "handle" /\ r.kind \in {"delete", "deleteAll"})

\* With the sessions in store, a request that deletes sessions has its own there,
\* unless it came with a JWT, and is not about to delete it.
Present(r, store) ==
  /\ Deleting(r) /\ r.sid # 0 => r.sid \in Sid /\ store[r.sid].token # 0
  /\ r.phase = "remove" => r.sid # 0 /\ r.target # r.sid
  /\ r.phase = "sweep" => r.sid \notin r.todo /\ (r.sid = 0 => r.todo = {})

AllPresent == \A s \in Slot : Present(req[s], sessions)

\* No session was ended that another request terminated others with.
PresentInv == "termination" \notin mishaps => AllPresent

\* A non-empty set of naturals has the minimum Min returns.
LEMMA MinInNat == ASSUME NEW S \in SUBSET Nat, S # {} PROVE Min(S) \in S
<1>1. \E x \in S : \A y \in S : ~(<<y, x>> \in OpToRel(<, Nat))
  BY NatLessThanWellFounded, WFMin, Zenon
<1>2. \A x, y \in Nat : y < x => <<y, x>> \in OpToRel(<, Nat)
  BY Zenon DEF OpToRel
<1>3. \E x \in S : \A y \in S : ~(y < x)
  BY <1>1, <1>2
<1>4. \E x \in S : \A y \in S : x =< y
  BY <1>3
<1> QED BY <1>4 DEF Min

\* A step of one request leaves the others theirs, unless it ends a session they
\* delete with.
LEMMA PresentKept ==
  ASSUME AllPresent, NEW s \in Slot,
         \A t \in Slot \ {s} : req'[t] = req[t] \/ Alike(req[t], req'[t]),
         Present(req'[s], sessions'),
         \A t \in Slot \ {s} :
           Deleting(req[t]) /\ req[t].sid \in Sid => sessions'[req[t].sid].token # 0
  PROVE  AllPresent'
<1>1. ASSUME NEW t \in Slot \ {s}
      PROVE  Present(req'[t], sessions')
  <2>1. Present(req[t], sessions)
    BY DEF AllPresent
  <2>2. /\ req'[t].phase = req[t].phase /\ req'[t].kind = req[t].kind
        /\ req'[t].sid = req[t].sid /\ req'[t].target = req[t].target
        /\ req'[t].todo = req[t].todo
    BY DEF Alike
  <2>3. Deleting(req'[t]) <=> Deleting(req[t])
    BY <2>2 DEF Deleting
  <2>4. Deleting(req[t]) /\ req[t].sid \in Sid => sessions'[req[t].sid].token # 0
    OBVIOUS
  <2> QED BY <2>1, <2>2, <2>3, <2>4 DEF Present
<1> QED BY <1>1 DEF AllPresent

\* Where no session is ended that others delete with, a request that is answered
\* deletes nothing any more.
LEMMA PresentAnswer ==
  ASSUME TypeOK, AllPresent, NEW s \in Slot, Closed(s),
         \A t \in Slot \ {s} :
           Deleting(req[t]) /\ req[t].sid \in Sid => sessions'[req[t].sid].token # 0
  PROVE  AllPresent'
<1>1. /\ req'[s].phase \in {"idle", "respond"}
      /\ \A t \in Slot \ {s} : req'[t] = req[t]
  BY DEF Closed, TypeOK
<1>2. Present(req'[s], sessions')
  BY <1>1 DEF Present, Deleting
<1> QED BY <1>1, <1>2, PresentKept

\* Where the sessions stay, a request answers for itself.
LEMMA PresentSame ==
  ASSUME TypeOK, AllPresent, NEW s \in Slot, NEW r, req' = [req EXCEPT ![s] = r],
         Present(r, sessions), sessions' = sessions
  PROVE  AllPresent'
<1>1. req'[s] = r /\ \A t \in Slot \ {s} : req'[t] = req[t]
  BY DEF TypeOK
<1>2. 0 \notin Sid
  BY DEF Sid
<1>3. \A t \in Slot \ {s} :
        Deleting(req[t]) /\ req[t].sid \in Sid => sessions'[req[t].sid].token # 0
  BY <1>2 DEF AllPresent, Present
<1> QED BY <1>1, <1>3, PresentKept

\* One that goes on to a phase keeps its session.
LEMMA PresentGoto ==
  ASSUME TypeOK, AllPresent, NEW s \in Slot,
         NEW phase \in Phase \ {"sweep"}, Goto(s, phase), sessions' = sessions,
         phase \in {"handle", "remove"} => req[s].sid = 0 \/ Exists(req[s].sid),
         phase = "remove" => req[s].sid # 0 /\ req[s].target # req[s].sid
  PROVE  AllPresent'
<1> DEFINE r == [req[s] EXCEPT !.phase = phase]
<1>1. req' = [req EXCEPT ![s] = r] /\ req[s] \in Request
  BY DEF Goto, TypeOK
<1>2. r.phase = phase /\ r.sid = req[s].sid /\ r.target = req[s].target
  BY <1>1 DEF Request
<1> HIDE DEF r
<1>3. Present(r, sessions)
  BY <1>2 DEF Present, Deleting, Exists
<1> QED BY <1>1, <1>3, PresentSame

\* Where a request ends a session that no other deletes with, the others keep
\* theirs.
LEMMA PresentEnd ==
  ASSUME TypeOK, AllPresent, NEW s \in Slot, NEW i \in Sid, End(s, i),
         "termination" \notin mishaps'
  PROVE  /\ \A j \in Sid : sessions'[j] = IF j = i THEN None ELSE sessions[j]
         /\ \A t \in Slot \ {s} :
              Deleting(req[t]) /\ req[t].sid \in Sid => sessions'[req[t].sid].token # 0
<1>1. \A j \in Sid : sessions'[j] = IF j = i THEN None ELSE sessions[j]
  BY DEF End, TypeOK
<1>2. \A t \in Slot \ {s} : ~Terminates(t, i)
  BY DEF End, Harm
<1>3. \A t \in Slot \ {s} : Deleting(req[t]) => req[t].sid # i
  BY <1>2 DEF Terminates, Deleting
<1>4. 0 \notin Sid
  BY DEF Sid
<1> QED BY <1>1, <1>3, <1>4 DEF AllPresent, Present

\* The session a request deletes is not its own.
LEMMA DeletionSpares ==
  ASSUME TypeOK, AllPresent, NEW s \in Slot, Remove(s) \/ Sweep(s)
  PROVE  /\ req[s].sid \in Sid => sessions'[req[s].sid] = sessions[req[s].sid]
         /\ Sweep(s) => req[s].sid \in Sid /\ sessions[req[s].sid].token # 0
         /\ Remove(s) => req[s].sid \in Sid /\ sessions[req[s].sid].token # 0
<1> DEFINE r == req[s]
<1>0. /\ sessions \in [Sid -> Session] /\ r \in Request /\ Present(r, sessions)
      /\ r.todo \subseteq Nat
  BY DEF TypeOK, AllPresent, Request
<1>1. CASE Remove(s)
  <2>1. /\ r.phase = "remove" /\ r.sid \in Sid /\ sessions[r.sid].token # 0
        /\ r.target # r.sid
    BY <1>0, <1>1 DEF Remove, Present, Deleting
  <2>2. sessions' = sessions \/ sessions' = [sessions EXCEPT ![r.target] = None]
    BY <1>1 DEF Remove, End
  <2>3. sessions'[r.sid] = sessions[r.sid]
    BY <1>0, <2>1, <2>2
  <2>4. ~Sweep(s)
    BY <2>1 DEF Sweep
  <2> QED BY <2>1, <2>3, <2>4
<1>2. CASE Sweep(s)
  <2> DEFINE i == Min(r.todo)
  <2>1. /\ r.phase = "sweep" /\ r.todo # {} /\ r.sid \notin r.todo
        /\ r.sid \in Sid /\ sessions[r.sid].token # 0
    BY <1>0, <1>2 DEF Sweep, Present, Deleting
  <2>2. i \in r.todo
    BY <1>0, <2>1, MinInNat
  <2>3. sessions' = sessions \/ sessions' = [sessions EXCEPT ![i] = None]
    BY <1>2 DEF Sweep, End
  <2> HIDE DEF i
  <2>4. sessions'[r.sid] = sessions[r.sid]
    BY <1>0, <2>1, <2>2, <2>3
  <2> QED BY <2>1, <2>4
<1> QED BY <1>1, <1>2

\* What a handler does about the sessions: one step per action.
LEMMA PresentStep ==
  ASSUME TypeOK, AllPresent, Next, "termination" \notin mishaps'
  PROVE  AllPresent'
<1>0. /\ sessions \in [Sid -> Session] /\ drawn \in Nat
      /\ \A s \in Slot : req[s] \in Request /\ Present(req[s], sessions)
      /\ req \in [Slot -> Request] /\ Idle.phase = "idle" /\ 0 \notin Sid
  BY DEF TypeOK, AllPresent, Idle, Sid
<1>a. \A t \in Slot : Deleting(req[t]) /\ req[t].sid \in Sid => sessions[req[t].sid].token # 0
  BY <1>0 DEF Present
<1>1. ASSUME NEW s \in Slot, NEW d \in Device, Send(d, s)
      PROVE  AllPresent'
  <2>1. PICK r : /\ req' = [req EXCEPT ![s] = r]
                 /\ r.phase \in {"create", "find", "validate", "handle"}
                 /\ r.phase = "handle" => r.sid = 0
    BY <1>1, SendAsks
  <2>2. Present(r, sessions)
    BY <2>1 DEF Present, Deleting
  <2>3. sessions' = sessions
    BY <1>1 DEF Send, AskSession, AskRefresh, Ask
  <2> QED BY <2>1, <2>2, <2>3, PresentSame
<1>2. ASSUME NEW s \in Slot, Check(s)
      PROVE  AllPresent'
  <2>1. sessions' = sessions
    BY <1>2 DEF Check
  <2>2. CASE Valid(req[s].sid, req[s].token)
    <3>1. Exists(req[s].sid)
      BY <2>2 DEF Valid, Matches
    <3>2. Goto(s, "identify") \/ Goto(s, "handle")
      BY <1>2, <2>2 DEF Check
    <3>3. {"identify", "handle"} \subseteq Phase \ {"sweep"}
      BY DEF Phase
    <3> QED BY <2>1, <3>1, <3>2, <3>3, PresentGoto
  <2>3. CASE ~Valid(req[s].sid, req[s].token)
    BY <1>2, <1>a, <2>1, <2>3, PresentAnswer, Closing DEF Check
  <2> QED BY <2>2, <2>3
<1>3. ASSUME NEW s \in Slot, Delete(s)
      PROVE  AllPresent'
  <2>1. /\ req[s].phase = "handle" /\ sessions' = sessions
        /\ req[s].sid # 0 => Exists(req[s].sid)
    BY <1>0, <1>3 DEF Delete, Present, Deleting, Exists
  <2>2. \/ Answer(s) \/ Goto(s, "panicked")
        \/ Goto(s, "remove") /\ req[s].sid # 0 /\ req[s].target # req[s].sid
    BY <1>3 DEF Delete, MayDelete
  <2>3. {"panicked", "remove"} \subseteq Phase \ {"sweep"}
    BY DEF Phase
  <2> QED BY <1>a, <2>1, <2>2, <2>3, PresentAnswer, PresentGoto, Closing
<1>4. ASSUME NEW s \in Slot, \/ List(s) \/ Reauthenticate(s) \/ Deliver(s) \/ Recover(s)
                             \/ SweptAll(s) \/ Fail(s)
      PROVE  AllPresent'
  <2>1. sessions' = sessions
    BY <1>4 DEF List, Reauthenticate, Deliver, Recover, SweptAll, Fail
  <2>2. Closed(s) \/ Goto(s, "panicked") \/ Goto(s, "create")
    BY <1>4, Closing DEF List, Reauthenticate, Deliver, Recover, SweptAll, Fail
  <2>3. {"panicked", "create"} \subseteq Phase \ {"sweep"}
    BY DEF Phase
  <2> QED BY <1>a, <2>1, <2>2, <2>3, PresentAnswer, PresentGoto
<1>5. ASSUME NEW s \in Slot, Create(s) \/ Regenerate(s)
      PROVE  AllPresent'
  <2>1. PICK i, old : \/ sessions' = sessions
                      \/ sessions' = [sessions EXCEPT ![i] = Renewed(old, drawn + 1, clock)]
    BY <1>5 DEF Create, Regenerate
  <2>2. Renewed(old, drawn + 1, clock).token # 0
    BY <1>0 DEF Renewed
  <2>3. \A j \in Sid : sessions[j].token # 0 => sessions'[j].token # 0
    <3> HIDE DEF Renewed
    <3> QED BY <1>0, <2>1, <2>2
  <2>4. Closed(s)
    BY <1>5, Closing DEF Create, Regenerate
  <2> QED BY <1>a, <2>3, <2>4, PresentAnswer
<1>6. ASSUME NEW s \in Slot, Logout(s) \/ Remove(s)
      PROVE  AllPresent'
  <2>1. Closed(s) /\ (sessions' = sessions \/ \E i \in Sid : End(s, i))
    BY <1>6, Closing DEF Logout, Remove, Exists
  <2>2. CASE sessions' = sessions
    BY <1>a, <2>1, <2>2, PresentAnswer
  <2>3. ASSUME NEW i \in Sid, End(s, i)
        PROVE  AllPresent'
    BY <2>1, <2>3, PresentEnd, PresentAnswer
  <2> QED BY <2>1, <2>2, <2>3
<1>7. ASSUME NEW s \in Slot, DeleteAll(s)
      PROVE  AllPresent'
  <2> DEFINE r == req[s]
             a == [r EXCEPT !.phase = "panicked"]
             b == [r EXCEPT !.phase = "sweep", !.todo = Others(r.sid),
                            !.told = 1 .. opened \ {r.sid}]
  <2>1. /\ r.phase = "handle" /\ r.kind = "deleteAll" /\ sessions' = sessions
        /\ \/ req' = [req EXCEPT ![s] = a]
           \/ req' = [req EXCEPT ![s] = b] /\ (r.sid = 0 => Others(r.sid) = {})
    BY <1>7 DEF DeleteAll
  <2>2. /\ a.phase = "panicked" /\ b.phase = "sweep" /\ b.todo = Others(r.sid)
        /\ b.sid = r.sid
    BY <1>0 DEF Request
  <2>3. Present(a, sessions)
    BY <2>2 DEF Present, Deleting
  <2>4. Deleting(r)
    BY <2>1 DEF Deleting
  <2>5. (r.sid = 0 => Others(r.sid) = {}) => Present(b, sessions)
    BY <1>0, <2>2, <2>4 DEF Present, Others
  <2> HIDE DEF a, b
  <2> QED BY <2>1, <2>3, <2>5, PresentSame
<1>8. ASSUME NEW s \in Slot, Sweep(s)
      PROVE  AllPresent'
  <2> DEFINE r == req[s]
             i == Min(r.todo)
  <2>1. /\ r.phase = "sweep" /\ r.sid \notin r.todo /\ r.sid # 0
        /\ r.sid \in Sid /\ sessions'[r.sid].token # 0
    BY <1>0, <1>8, DeletionSpares DEF Sweep, Present
  <2>2. CASE Exists(i)
    <3>1. /\ End(s, i) /\ i \in Sid
          /\ req' = [req EXCEPT ![s] = [r EXCEPT !.todo = r.todo \ {i}]]
      BY <1>8, <2>2 DEF Sweep, Exists
    <3> HIDE DEF i
    <3>2. /\ req'[s].phase = r.phase /\ req'[s].sid = r.sid /\ req'[s].todo = r.todo \ {i}
          /\ \A t \in Slot \ {s} : req'[t] = req[t]
      BY <1>0, <3>1 DEF Request
    <3>3. Present(req'[s], sessions')
      <4> HIDE DEF r
      <4> QED BY <2>1, <3>2 DEF Present
    <3>4. \A t \in Slot \ {s} :
            Deleting(req[t]) /\ req[t].sid \in Sid => sessions'[req[t].sid].token # 0
      BY <3>1, PresentEnd
    <3> QED BY <3>2, <3>3, <3>4, PresentKept
  <2>3. CASE ~Exists(i)
    BY <1>8, <1>a, <2>3, PresentAnswer, Closing DEF Sweep
  <2> QED BY <2>2, <2>3
<1>9. ASSUME NEW s \in Slot, Refresh(s)
      PROVE  AllPresent'
  <2>1. sessions' = sessions
    BY <1>9 DEF Refresh
  <2>2. CASE ~Answer(s)
    <3>1. /\ req'[s].phase = "renew"
          /\ \A t \in Slot \ {s} : Alike(req[t], req'[t])
      BY <1>9, <2>2, RefreshForms
    <3>2. Present(req'[s], sessions)
      BY <3>1 DEF Present, Deleting
    <3> QED BY <1>a, <2>1, <3>1, <3>2, PresentKept
  <2>3. CASE Answer(s)
    BY <1>a, <2>1, <2>3, PresentAnswer, Closing
  <2> QED BY <2>2, <2>3
<1>10. ASSUME NEW s \in Slot, GiveUp(s)
       PROVE  AllPresent'
  <2> DEFINE r == [req[s] EXCEPT !.awaited = FALSE]
  <2>1. req' = [req EXCEPT ![s] = r] /\ sessions' = sessions
    BY <1>10 DEF GiveUp
  <2>2. /\ r.phase = req[s].phase /\ r.sid = req[s].sid /\ r.kind = req[s].kind
        /\ r.target = req[s].target /\ r.todo = req[s].todo
    BY <1>0 DEF Request
  <2> HIDE DEF r
  <2>3. Present(r, sessions)
    BY <1>0, <2>2 DEF Present, Deleting
  <2> QED BY <2>1, <2>3, PresentSame
<1>11. CASE Crash
  <2>1. \A t \in Slot : req'[t].phase = "idle"
    BY <1>0, <1>11 DEF Crash
  <2> QED BY <2>1 DEF AllPresent, Present, Deleting
<1>12. CASE Tick
  BY <1>12 DEF Tick, AllPresent, Present
<1> QED
  BY <1>1, <1>2, <1>3, <1>4, <1>5, <1>6, <1>7, <1>8, <1>9, <1>10, <1>11, <1>12
  DEF Next, Handle

\* Whoever terminates the others keeps its own session, in any interleaving and with
\* any failure: only Logout leaves an account without one, unless a session was
\* ended that another request was terminating others with.
THEOREM SomeoneAlwaysStays == Spec => SomeoneStays
<1>1. Init => PresentInv
  BY DEF Init, PresentInv, AllPresent, Present, Deleting, Idle
<1>2. TypeOK /\ PresentInv /\ [Next]_vars => PresentInv'
  <2>1. CASE UNCHANGED vars
    BY <2>1 DEF vars, PresentInv, AllPresent, Present
  <2>2. ASSUME TypeOK, PresentInv, Next, "termination" \notin mishaps'
        PROVE  AllPresent'
    BY <2>2, MishapsStay, PresentStep DEF PresentInv
  <2> QED BY <2>1, <2>2 DEF PresentInv
<1>3. TypeOK /\ PresentInv /\ [Next]_vars =>
        [(\E i \in Sid : Exists(i)) /\ (\A i \in Sid : sessions'[i].token = 0)
         => "termination" \in mishaps' \/ \E s \in Slot : Logout(s)]_vars
  <2> SUFFICES ASSUME TypeOK, PresentInv, Next, \E i \in Sid : Exists(i),
                      \A i \in Sid : sessions'[i].token = 0,
                      "termination" \notin mishaps'
               PROVE  \E s \in Slot : Logout(s)
    OBVIOUS
  <2>0. AllPresent
    BY MishapsStay DEF PresentInv
  <2>1. ASSUME sessions' = sessions PROVE FALSE
    BY <2>1 DEF Exists
  <2>2. ASSUME NEW s \in Slot, Create(s) \/ Regenerate(s) PROVE FALSE
    <3>1. sessions \in [Sid -> Session] /\ drawn \in Nat /\ drawn + 1 # 0
      BY DEF TypeOK
    <3>2. PICK i, old : \/ sessions' = sessions
                        \/ sessions' = [sessions EXCEPT ![i] = Renewed(old, drawn + 1, clock)]
      BY <2>2 DEF Create, Regenerate
    <3>3. Renewed(old, drawn + 1, clock).token # 0
      BY <3>1 DEF Renewed
    <3>4. \A j \in Sid : sessions[j].token # 0 => sessions'[j].token # 0
      <4> HIDE DEF Renewed
      <4> QED BY <3>1, <3>2, <3>3
    <3> QED BY <3>4 DEF Exists
  <2>3. ASSUME NEW s \in Slot, Remove(s) \/ Sweep(s) PROVE FALSE
    BY <2>0, <2>3, DeletionSpares
  <2> QED BY <2>1, <2>2, <2>3, WritingSteps
<1> QED BY <1>1, <1>2, <1>3, TypeCorrect, PTL DEF Spec, SomeoneStays

\* Where one request follows the other no termination goes wrong: the exception
\* above takes two requests that overlap.
THEOREM NoTerminationHarmed == ASSUME ~Overlap PROVE Spec => []("termination" \notin mishaps)
<1>1. Orderly => "termination" \notin mishaps
  BY DEF Orderly
<1> QED BY <1>1, OrderlyAlways, PTL

-----------------------------------------------------------------------------
(* The sessions as a registry.                                             *)

\* A session that is there was opened; so was one that a request is about to
\* renew, which is there, unless one was ended under its refresh.
Numbered ==
  /\ \A i \in Sid : Exists(i) => i <= opened
  /\ \A s \in Slot : req[s].phase = "renew" =>
       /\ req[s].sid \in 1 .. opened
       /\ "refresh" \in mishaps \/ Exists(req[s].sid)

\* A request is about to renew the session it was about to renew before the step,
\* or one it just found.
LEMMA RenewOrigin ==
  ASSUME TypeOK, [Next]_vars, NEW s \in Slot, req'[s].phase = "renew"
  PROVE  /\ req'[s].sid = req[s].sid
         /\ \/ req[s].phase = "renew"
            \/ Exists(req[s].sid) /\ UNCHANGED <<sessions, opened, mishaps>>
<1>0. /\ \A t \in Slot : req[t] \in Request
      /\ req \in [Slot -> Request] /\ Idle.phase = "idle"
  BY DEF TypeOK, Idle
<1>1. CASE req'[s] = req[s]
  BY <1>1
<1>2. ASSUME NEW t \in Slot, NEW d \in Device, Send(d, t)
      PROVE  req'[s] = req[s]
  <2>1. PICK r : req' = [req EXCEPT ![t] = r] /\ r.phase # "renew"
    BY <1>2, SendAsks
  <2> QED BY <1>0, <2>1
<1>3. ASSUME NEW t \in Slot, Closed(t)
      PROVE  req'[s] = req[s]
  BY <1>0, <1>3 DEF Closed
<1>4. ASSUME NEW t \in Slot, NEW phase \in Phase \ {"renew"}, Goto(t, phase)
      PROVE  req'[s] = req[s]
  <2>1. /\ req' = [req EXCEPT ![t] = [req[t] EXCEPT !.phase = phase]]
        /\ [req[t] EXCEPT !.phase = phase].phase = phase
    BY <1>0, <1>4 DEF Goto, Request
  <2> QED BY <1>0, <2>1
<1>5. ASSUME NEW t \in Slot, Refresh(t), ~Answer(t)
      PROVE  /\ req'[s].sid = req[s].sid
             /\ \/ req[s].phase = "renew"
                \/ Exists(req[s].sid) /\ UNCHANGED <<sessions, opened, mishaps>>
  <2>1. UNCHANGED <<sessions, opened, mishaps>>
    BY <1>5 DEF Refresh
  <2>2. CASE s = t
    BY <1>5, <2>1, <2>2, RefreshForms DEF Matches
  <2>3. CASE s # t
    BY <1>5, <2>3, RefreshForms DEF Alike
  <2> QED BY <2>2, <2>3
<1>6. ASSUME NEW t \in Slot, GiveUp(t)
      PROVE  req'[s].sid = req[s].sid /\ req'[s].phase = req[s].phase
  <2>1. req' = [req EXCEPT ![t] = [req[t] EXCEPT !.awaited = FALSE]]
    BY <1>6 DEF GiveUp
  <2> QED BY <1>0, <2>1 DEF Request
<1>7. ASSUME NEW t \in Slot, DeleteAll(t)
      PROVE  req'[s] = req[s]
  <2> DEFINE lost == [req[t] EXCEPT !.phase = "panicked"]
             found == [req[t] EXCEPT !.phase = "sweep", !.todo = Others(req[t].sid),
                                     !.told = 1 .. opened \ {req[t].sid}]
  <2>1. PICK r \in {lost, found} : req' = [req EXCEPT ![t] = r]
    BY <1>7 DEF DeleteAll
  <2>2. lost.phase = "panicked" /\ found.phase = "sweep"
    BY <1>0 DEF Request
  <2>3. r.phase # "renew"
    BY <2>1, <2>2
  <2> HIDE DEF lost, found
  <2> QED BY <1>0, <2>1, <2>3
<1>8. ASSUME NEW t \in Slot, Sweep(t), ~Answer(t)
      PROVE  req'[s] = req[s]
  <2>1. PICK r : req' = [req EXCEPT ![t] = r] /\ r.phase # "renew"
    BY <1>0, <1>8 DEF Sweep, Request
  <2> QED BY <1>0, <2>1
<1>9. ASSUME NEW t \in Slot, Handle(t)
      PROVE  \/ Closed(t) \/ DeleteAll(t)
             \/ (Refresh(t) \/ Sweep(t)) /\ ~Answer(t)
             \/ \E phase \in Phase \ {"renew"} : Goto(t, phase)
  <2>1. ASSUME Check(t) \/ List(t) \/ Reauthenticate(t) \/ Delete(t)
        PROVE  Closed(t) \/ \E phase \in Phase \ {"renew"} : Goto(t, phase)
    BY <2>1, Closing DEF Check, List, Reauthenticate, Delete, Phase
  <2>2. ASSUME \/ Create(t) \/ Logout(t) \/ Remove(t) \/ SweptAll(t) \/ Regenerate(t)
               \/ Deliver(t) \/ Recover(t) \/ Fail(t)
        PROVE  Closed(t)
    BY <2>2, Closing DEF Create, Logout, Remove, SweptAll, Regenerate, Deliver, Recover, Fail
  <2>3. \/ Check(t) \/ List(t) \/ Reauthenticate(t) \/ Delete(t)
        \/ \/ Create(t) \/ Logout(t) \/ Remove(t) \/ SweptAll(t) \/ Regenerate(t)
           \/ Deliver(t) \/ Recover(t) \/ Fail(t)
        \/ Refresh(t) \/ DeleteAll(t) \/ Sweep(t)
    BY <1>9 DEF Handle
  <2> QED BY <2>1, <2>2, <2>3, Closing
<1>10. ASSUME Crash \/ Tick \/ UNCHANGED vars
       PROVE  req'[s] = req[s]
  BY <1>0, <1>10 DEF Crash, Tick, vars
<1> QED BY <1>1, <1>2, <1>3, <1>4, <1>5, <1>6, <1>7, <1>8, <1>9, <1>10 DEF Next

\* The sessions change in three ways: one is opened, renewed by a request that was
\* about to, or ended by one that was not.
LEMMA StoreForms ==
  ASSUME TypeOK, [Next]_vars
  PROVE  \/ \E s \in Slot : Create(s)
         \/ \E s \in Slot : /\ req[s].phase = "renew" /\ opened' = opened
                            /\ sessions' = [sessions EXCEPT ![req[s].sid] =
                                 Renewed(req[s].token, drawn + 1, clock)]
                            /\ drawn' = drawn + 1
         \/ \E s \in Slot, i \in Sid : /\ Exists(i) /\ End(s, i) /\ req[s].phase # "renew"
                                       /\ UNCHANGED <<opened, drawn>>
         \/ UNCHANGED <<sessions, opened, drawn>>
<1>1. ASSUME NEW s \in Slot, \/ Check(s) \/ List(s) \/ Delete(s) \/ DeleteAll(s) \/ SweptAll(s)
                             \/ Refresh(s) \/ Recover(s) \/ Fail(s) \/ GiveUp(s)
                             \/ Reauthenticate(s) \/ Deliver(s)
      PROVE  UNCHANGED <<sessions, opened, drawn>>
  BY <1>1 DEF Check, List, Delete, DeleteAll, SweptAll, Refresh, Recover, Fail, GiveUp,
              Reauthenticate, Deliver
<1>2. ASSUME NEW s \in Slot, NEW d \in Device, Send(d, s)
      PROVE  UNCHANGED <<sessions, opened, drawn>>
  BY <1>2 DEF Send, AskSession, AskRefresh, Ask
<1>3. ASSUME Crash \/ Tick \/ UNCHANGED vars
      PROVE  UNCHANGED <<sessions, opened, drawn>>
  BY <1>3 DEF Crash, Tick, vars
<1>4. ASSUME NEW s \in Slot, Regenerate(s), ~ UNCHANGED <<sessions, opened, drawn>>
      PROVE  /\ req[s].phase = "renew" /\ opened' = opened
             /\ sessions' = [sessions EXCEPT ![req[s].sid] =
                  Renewed(req[s].token, drawn + 1, clock)]
             /\ drawn' = drawn + 1
  BY <1>4 DEF Regenerate
<1>5. ASSUME NEW s \in Slot, Logout(s) \/ Remove(s) \/ Sweep(s),
             ~ UNCHANGED <<sessions, opened, drawn>>
      PROVE  \E i \in Sid : /\ Exists(i) /\ End(s, i) /\ req[s].phase # "renew"
                            /\ UNCHANGED <<opened, drawn>>
  <2>1. PICK i : /\ Exists(i) /\ End(s, i) /\ req[s].phase # "renew"
                 /\ UNCHANGED <<opened, drawn>>
    BY <1>5 DEF Logout, Remove, Sweep
  <2>2. i \in Sid
    BY <2>1 DEF Exists
  <2> QED BY <2>1, <2>2
<1> QED BY <1>1, <1>2, <1>3, <1>4, <1>5 DEF Next, Handle

LEMMA NumberedStep ==
  ASSUME TypeOK, Numbered, [Next]_vars
  PROVE  Numbered'
<1>0. /\ sessions \in [Sid -> Session] /\ opened \in Nat /\ opened' \in {opened, opened + 1}
      /\ None.token = 0 /\ drawn \in Nat
  BY StoreForms DEF TypeOK, Create, End, None
<1>1. ASSUME NEW s \in Slot, Create(s)
      PROVE  /\ opened' = opened + 1
             /\ \A i \in Sid : i # opened' => sessions'[i] = sessions[i]
  BY <1>0, <1>1 DEF Create
<1>2. ASSUME NEW s \in Slot, req[s].phase = "renew", opened' = opened,
             sessions' = [sessions EXCEPT ![req[s].sid] =
               Renewed(req[s].token, drawn + 1, clock)]
      PROVE  /\ req[s].sid \in 1 .. opened /\ req[s].sid \in Sid
             /\ sessions'[req[s].sid].token # 0
             /\ \A i \in Sid \ {req[s].sid} : sessions'[i] = sessions[i]
  <2>1. req[s].sid \in 1 .. opened /\ req[s].sid \in Sid
    BY <1>2, SessionAssumption DEF Numbered, TypeOK, Sid
  <2>2. Renewed(req[s].token, drawn + 1, clock).token # 0
    BY <1>0 DEF Renewed
  <2> QED BY <1>0, <1>2, <2>1, <2>2
<1>3. \A i \in Sid : sessions'[i].token # 0 => i <= opened'
  <2> SUFFICES ASSUME NEW i \in Sid, sessions'[i].token # 0 PROVE i <= opened'
    OBVIOUS
  <2>0. i \in Nat /\ (sessions[i].token # 0 => i <= opened)
    BY DEF Numbered, Exists, Sid
  <2>1. CASE \E s \in Slot : Create(s)
    BY <1>0, <1>1, <2>0, <2>1
  <2>2. ASSUME NEW s \in Slot, req[s].phase = "renew", opened' = opened,
               sessions' = [sessions EXCEPT ![req[s].sid] =
                 Renewed(req[s].token, drawn + 1, clock)]
        PROVE  i <= opened'
    <3>1. /\ req[s].sid \in 1 .. opened
          /\ \A j \in Sid \ {req[s].sid} : sessions'[j] = sessions[j]
      BY <1>2, <2>2
    <3>2. CASE i = req[s].sid
      BY <1>0, <2>2, <3>1, <3>2
    <3>3. CASE i # req[s].sid
      BY <2>0, <2>2, <3>1, <3>3
    <3> QED BY <3>2, <3>3
  <2>3. ASSUME NEW s \in Slot, NEW j \in Sid, End(s, j), opened' = opened
        PROVE  i <= opened'
    BY <1>0, <2>0, <2>3 DEF End
  <2> QED BY <2>0, <2>1, <2>2, <2>3, StoreForms
<1>4. ASSUME NEW s \in Slot, req'[s].phase = "renew"
      PROVE  /\ req'[s].sid \in 1 .. opened'
             /\ "refresh" \in mishaps' \/ sessions'[req'[s].sid].token # 0
  <2> DEFINE i == req[s].sid
  <2>0. req'[s].sid = i
    BY <1>4, RenewOrigin
  <2>1. CASE Exists(i) /\ UNCHANGED <<sessions, opened, mishaps>>
    BY <1>0, <2>0, <2>1 DEF Numbered, Exists, Sid
  <2>2. CASE req[s].phase = "renew"
    <3>1. /\ i \in 1 .. opened /\ i \in Sid
          /\ "refresh" \in mishaps \/ sessions[i].token # 0
          /\ "refresh" \in mishaps => "refresh" \in mishaps'
      BY <2>2, MishapsStay, SessionAssumption DEF Numbered, TypeOK, Exists, Sid
    <3> HIDE DEF i
    <3>2. CASE \E t \in Slot : Create(t)
      BY <1>0, <1>1, <2>0, <3>1, <3>2
    <3>3. ASSUME NEW t \in Slot, req[t].phase = "renew", opened' = opened,
                 sessions' = [sessions EXCEPT ![req[t].sid] =
                   Renewed(req[t].token, drawn + 1, clock)]
          PROVE  "refresh" \in mishaps' \/ sessions'[i].token # 0
      BY <1>2, <3>1, <3>3
    <3>4. ASSUME NEW t \in Slot, NEW j \in Sid, End(t, j), req[t].phase # "renew"
          PROVE  "refresh" \in mishaps' \/ sessions'[i].token # 0
      <4>1. CASE i = j
        <5>1. t # s /\ Refreshes(s, j)
          BY <2>2, <3>4, <4>1 DEF Refreshes, i
        <5>2. "refresh" \in Harm(t, j)
          BY <5>1 DEF Harm
        <5> QED BY <3>4, <5>2 DEF End
      <4>2. CASE i # j
        BY <1>0, <3>1, <3>4, <4>2 DEF End
      <4> QED BY <4>1, <4>2
    <3> QED BY <1>0, <2>0, <3>1, <3>2, <3>3, <3>4, StoreForms
  <2> QED BY <1>4, <2>1, <2>2, RenewOrigin
<1>5. \A n \in 1 .. opened' : n \in Sid
  BY TypeStep, SessionAssumption DEF TypeOK, Sid
<1> QED BY <1>3, <1>4, <1>5 DEF Numbered, Exists

\* Giving session i another record gives it another token.
LEMMA TokenOf ==
  ASSUME TypeOK, NEW i, NEW v, sessions' = [sessions EXCEPT ![i] = v]
  PROVE  [j \in Sid |-> sessions[j].token]' =
           [[j \in Sid |-> sessions[j].token] EXCEPT ![i] = v.token]
BY DEF TypeOK

\* The sessions implement a registry, however requests overlap and fail: each token
\* is new to all sessions, and a session that was ended comes back only after one
\* was ended under its refresh.
THEOREM RefinesRegistry == Spec => RegistrySpec
<1> DEFINE token == [i \in Sid |-> sessions[i].token]
<1>1. Init => Numbered /\ Registry!Init
  BY DEF Init, Numbered, Exists, Idle, None, Registry!Init, Sid
<1>2. TypeOK /\ Numbered /\ [Next]_vars => Numbered'
  BY NumberedStep
<1>3. ASSUME TypeOK, Numbered, [Next]_vars
      PROVE  Registry!Next
  <2>0. "refresh" \in mishaps => "refresh" \in mishaps'
    BY <1>3, MishapsStay
  <2>1. ASSUME NEW s \in Slot, Create(s)
        PROVE  Registry!Open
    <3>1. /\ opened < MaxSessions /\ opened' = opened + 1 /\ drawn' = drawn + 1
          /\ sessions' = [sessions EXCEPT ![opened + 1] = Renewed(0, drawn + 1, clock)]
      BY <1>3, <2>1, SessionAssumption DEF Create, TypeOK
    <3>2. Renewed(0, drawn + 1, clock).token = drawn + 1
      BY DEF Renewed
    <3>3. token' = [token EXCEPT ![opened + 1] = drawn + 1]
      BY <1>3, <3>1, <3>2, TokenOf
    <3> QED BY <3>1, <3>3 DEF Registry!Open, Registry!Draw
  <2>2. ASSUME NEW s \in Slot, req[s].phase = "renew", opened' = opened,
               sessions' = [sessions EXCEPT ![req[s].sid] =
                 Renewed(req[s].token, drawn + 1, clock)],
               drawn' = drawn + 1
        PROVE  \E i \in 1 .. opened : Registry!Replace(i)
    <3>0. PICK i \in 1 .. opened : i = req[s].sid
      BY <1>3, <2>2 DEF Numbered
    <3>1. i \in Sid /\ ("refresh" \in mishaps \/ sessions[i].token # 0)
      <4>1. i \in Sid
        BY <1>3, SessionAssumption DEF TypeOK, Sid
      <4> QED BY <1>3, <2>2, <3>0, <4>1 DEF Numbered, Exists
    <3>2. Renewed(req[s].token, drawn + 1, clock).token = drawn + 1
      BY DEF Renewed
    <3>3. token' = [token EXCEPT ![i] = drawn + 1]
      <4>1. PICK v : sessions' = [sessions EXCEPT ![i] = v] /\ v.token = drawn + 1
        BY <2>2, <3>0, <3>2
      <4>2. token' = [token EXCEPT ![i] = v.token]
        BY ONLY <1>3, <4>1, TokenOf
      <4> QED BY <4>1, <4>2
    <3>4. token[i] # 0 \/ "refresh" \in mishaps
      BY <3>1
    <3>5. Registry!Replace(i)
      BY <2>2, <3>3, <3>4 DEF Registry!Replace, Registry!Draw
    <3> QED BY <3>5
  <2>3. ASSUME NEW s \in Slot, NEW i \in Sid, Exists(i), End(s, i), UNCHANGED <<opened, drawn>>
        PROVE  \E j \in 1 .. opened : Registry!End(j)
    <3>0. sessions' = [sessions EXCEPT ![i] = None] /\ None.token = 0
      BY <2>3 DEF End, None
    <3>1. token' = [token EXCEPT ![i] = 0]
      BY <1>3, <3>0, TokenOf
    <3>2. i \in 1 .. opened /\ token[i] # 0
      BY <1>3, <2>3 DEF Numbered, Exists, Sid
    <3>3. Registry!End(i)
      BY <2>3, <3>1, <3>2 DEF Registry!End
    <3> QED BY <3>2, <3>3
  <2>4. ASSUME UNCHANGED <<sessions, opened, drawn>>
        PROVE  UNCHANGED <<token, opened, drawn>>
    BY <2>4
  <2> QED BY <1>3, <2>0, <2>1, <2>2, <2>3, <2>4, StoreForms DEF Registry!Next
<1> QED BY <1>1, <1>2, <1>3, TypeCorrect, PTL DEF Spec, RegistrySpec, Registry!Spec

=============================================================================

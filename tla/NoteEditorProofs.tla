-------------------------- MODULE NoteEditorProofs --------------------------
(***************************************************************************)
(* What holds of the note editor for any number of notes, of callbacks in  *)
(* progress and of texts typed, whatever fails.                            *)
(***************************************************************************)
EXTENDS NoteEditor, TLAPS

USE DEF input, item, history, server

-----------------------------------------------------------------------------
(* Types.                                                                  *)

LEMMA IdleType == Idle \in Call /\ Idle.phase = "idle"
BY EditorAssumption DEF Idle, Call, Phase, Answer

\* What a callback is left as, field by field, and that no other is touched.
LEMMA CallTypes ==
  ASSUME TypeOK, NEW c \in Callback
  PROVE  /\ call[c] \in Call /\ call[c].phase \in Phase /\ call[c].note \in Note
         /\ call[c].text \in Int /\ call[c].at \in Nat /\ call[c].answer \in Answer
         /\ Sent(c) \in Request
BY DEF TypeOK, Call, Sent, Request

\* The end of the process.
LEMMA EndForm ==
  ASSUME TypeOK, NEW how \in {"quit", "panicked"}, End(how)
  PROVE  /\ ui' = how /\ armed' \in [Note -> BOOLEAN] /\ \A n \in Note : ~armed'[n]
         /\ call' \in [Callback -> Call] /\ \A c \in Callback : call'[c].phase = "idle"
         /\ left' \subseteq Request /\ astray' \in [Note -> BOOLEAN]
         /\ \A n \in Note : astray[n] => astray'[n]
         /\ \A r \in left' : r \in left \/ (r.note \in Note /\ astray'[r.note])
         /\ UNCHANGED <<typed, editor, item, told, raced, session, stored, clock>>
<1>1. /\ ui' = how /\ armed' = [n \in Note |-> FALSE] /\ call' = [c \in Callback |-> Idle]
      /\ left' = left \cup {Sent(c) : c \in {c \in Callback : call[c].phase = "sent"}}
      /\ astray' = [n \in Note |-> astray[n] \/ \E c \in Callback : CallIn(c, n, "sent")]
      /\ UNCHANGED <<typed, editor, item, told, raced, session, stored, clock>>
  BY DEF End
<1>2. left' \subseteq Request
  BY <1>1, CallTypes DEF TypeOK
<1>3. astray' \in [Note -> BOOLEAN] /\ \A n \in Note : astray[n] => astray'[n]
  BY <1>1, Zenon DEF TypeOK
<1>4. ASSUME NEW r \in left', r \notin left
      PROVE  r.note \in Note /\ astray'[r.note]
  <2>1. PICK c \in Callback : call[c].phase = "sent" /\ r = Sent(c)
    BY <1>1, <1>4
  <2>2. r.note = call[c].note /\ r.note \in Note
    BY <2>1, CallTypes DEF Sent
  <2>3. CallIn(c, r.note, "sent")
    BY <2>1, <2>2 DEF CallIn
  <2> QED BY <1>1, <2>2, <2>3
<1> QED BY <1>1, <1>2, <1>3, <1>4, IdleType

\* What an error leaves.
LEMMA FailedForm ==
  ASSUME TypeOK, NEW c \in Callback, NEW t \in Int, Failed(c, t)
  PROVE  /\ call' \in [Callback -> Call] /\ call'[c].phase = "returned"
         /\ call'[c].note = call[c].note /\ call'[c].at = updatedAt[call[c].note]
         /\ \A d \in Callback : d # c => call'[d] = call[d]
         /\ told' \in [Note -> Int] /\ told'[call[c].note] = t
         /\ \A n \in Note : n # call[c].note => told'[n] = told[n]
         /\ raced' \in [Note -> BOOLEAN] /\ \A n \in Note : raced[n] => raced'[n]
         /\ \/ raced'[call[c].note]
            \/ \A d \in Callback \ {c} : ~CallIn(d, call[c].note, "returned")
<1>1. call[c].note \in Note /\ updatedAt[call[c].note] \in Nat
  BY CallTypes DEF TypeOK
<1>2. /\ call' = [call EXCEPT ![c].phase = "returned", ![c].at = updatedAt[call[c].note]]
      /\ told' = [told EXCEPT ![call[c].note] = t]
  BY DEF Failed, ReadUpdatedAt
<1>3. raced' = [raced EXCEPT ![call[c].note] =
                  @ \/ \E d \in Callback \ {c} : CallIn(d, call[c].note, "returned")]
  BY DEF Failed, ReadUpdatedAt
<1>4. /\ raced' \in [Note -> BOOLEAN] /\ \A n \in Note : raced[n] => raced'[n]
      /\ \/ raced'[call[c].note]
         \/ \A d \in Callback \ {c} : ~CallIn(d, call[c].note, "returned")
  BY <1>1, <1>3, Zenon DEF TypeOK
<1>5. call' \in [Callback -> Call]
  <2>1. [call[c] EXCEPT !.phase = "returned", !.at = updatedAt[call[c].note]] \in Call
    BY <1>1, CallTypes DEF Call, Phase
  <2> QED BY <1>2, <2>1 DEF TypeOK
<1> QED BY <1>1, <1>2, <1>4, <1>5 DEF TypeOK, Call

LEMMA SendForm ==
  ASSUME TypeOK, NEW c \in Callback, Send(c)
  PROVE  /\ call[c].phase = "sealed"
         /\ call' \in [Callback -> Call] /\ call'[c].phase = "sent"
         /\ call'[c].note = call[c].note /\ call'[c].text = call[c].text
         /\ call'[c].at = updatedAt[call[c].note]
         /\ \A d \in Callback : d # c => call'[d] = call[d]
         /\ raced' \in [Note -> BOOLEAN] /\ \A n \in Note : raced[n] => raced'[n]
         /\ \/ raced'[call[c].note]
            \/ \A d \in Callback \ {c} : ~CallIn(d, call[c].note, "returned")
         /\ UNCHANGED <<input, item, told, astray, server>>
<1>1. call[c].note \in Note /\ updatedAt[call[c].note] \in Nat
  BY CallTypes DEF TypeOK
<1>2. /\ call' = [call EXCEPT ![c].phase = "sent", ![c].at = updatedAt[call[c].note]]
      /\ call[c].phase = "sealed"
      /\ UNCHANGED <<input, item, told, astray, server>>
  BY DEF Send, ReadUpdatedAt
<1>3. raced' = [raced EXCEPT ![call[c].note] =
                  @ \/ \E d \in Callback \ {c} : CallIn(d, call[c].note, "returned")]
  BY DEF Send, ReadUpdatedAt
<1>4. /\ raced' \in [Note -> BOOLEAN] /\ \A n \in Note : raced[n] => raced'[n]
      /\ \/ raced'[call[c].note]
         \/ \A d \in Callback \ {c} : ~CallIn(d, call[c].note, "returned")
  BY <1>1, <1>3, Zenon DEF TypeOK
<1>5. call' \in [Callback -> Call]
  <2>1. [call[c] EXCEPT !.phase = "sent", !.at = updatedAt[call[c].note]] \in Call
    BY <1>1, CallTypes DEF Call, Phase
  <2> QED BY <1>2, <2>1 DEF TypeOK
<1> QED BY <1>1, <1>2, <1>4, <1>5 DEF TypeOK, Call

\* What the server does to the note of a request it answers.
LEMMA ServeForm ==
  ASSUME TypeOK, NEW c \in Callback, Serve(c)
  PROVE  /\ call[c].phase = "sent"
         /\ call' \in [Callback -> Call] /\ call'[c].phase = "answered"
         /\ call'[c].note = call[c].note /\ call'[c].text = call[c].text
         /\ \A d \in Callback : d # c => call'[d] = call[d]
         /\ stored' \in [Note -> Stored] /\ clock' \in Nat
         /\ \A n \in Note : n # call[c].note => stored'[n] = stored[n]
         /\ \/ /\ call'[c].answer = "saved" /\ Admits(Sent(c))
               /\ stored'[call[c].note].text = call[c].text
               /\ stored'[call[c].note].at = call'[c].at
            \/ call'[c].answer \in {"conflict", "refused"} /\ stored' = stored
         /\ UNCHANGED <<input, item, history, session, left>>
<1>1. /\ call[c].note \in Note /\ call[c].text \in Int /\ clock \in Nat
      /\ stored \in [Note -> Stored] /\ call \in [Callback -> Call]
  BY CallTypes DEF TypeOK
<1>2. call[c].phase = "sent" /\ UNCHANGED <<input, item, history, session, left>>
  BY DEF Serve
<1>3. ASSUME NEW time \in {clock, clock + 1}, Admits(Sent(c)),
             Store(Sent(c), time, TRUE), Answered(c, "saved", time)
      PROVE  /\ call' \in [Callback -> Call] /\ call'[c].phase = "answered"
             /\ call'[c].note = call[c].note /\ call'[c].text = call[c].text
             /\ \A d \in Callback : d # c => call'[d] = call[d]
             /\ stored' \in [Note -> Stored] /\ clock' \in Nat
             /\ \A n \in Note : n # call[c].note => stored'[n] = stored[n]
             /\ call'[c].answer = "saved"
             /\ stored'[call[c].note].text = call[c].text
             /\ stored'[call[c].note].at = call'[c].at
  <2>1. time \in Nat
    BY <1>1
  <2>2. call' = [call EXCEPT ![c].phase = "answered", ![c].answer = "saved", ![c].at = time]
    BY <1>3 DEF Answered
  <2>3. /\ stored' = [stored EXCEPT ![call[c].note] =
                        [text |-> call[c].text, at |-> time, awaited |-> TRUE]]
        /\ clock' = time
    BY <1>3 DEF Store, Sent
  <2>6. [call[c] EXCEPT !.phase = "answered", !.answer = "saved", !.at = time] \in Call
    BY <2>1, CallTypes DEF Call, Phase, Answer
  <2>4. call' \in [Callback -> Call]
    BY <1>1, <2>2, <2>6
  <2>5. stored' \in [Note -> Stored]
    BY <1>1, <2>1, <2>3 DEF Stored
  <2> QED BY <1>1, <2>1, <2>2, <2>3, <2>4, <2>5 DEF Call
<1>4. ASSUME NEW answer \in {"conflict", "refused"}, Answered(c, answer, 0)
      PROVE  /\ call' \in [Callback -> Call] /\ call'[c].phase = "answered"
             /\ call'[c].note = call[c].note /\ call'[c].text = call[c].text
             /\ \A d \in Callback : d # c => call'[d] = call[d]
             /\ call'[c].answer \in {"conflict", "refused"}
  <2>1. call' = [call EXCEPT ![c].phase = "answered", ![c].answer = answer, ![c].at = 0]
    BY <1>4 DEF Answered
  <2>2. [call[c] EXCEPT !.phase = "answered", !.answer = answer, !.at = 0] \in Call
    BY CallTypes DEF Call, Phase, Answer
  <2>3. call' \in [Callback -> Call]
    BY <1>1, <2>1, <2>2
  <2> QED BY <1>1, <2>1, <2>3 DEF Call
<1> QED BY <1>1, <1>2, <1>3, <1>4 DEF Serve

LEMMA ServeLeftForm ==
  ASSUME TypeOK, NEW r \in left, ServeLeft(r)
  PROVE  /\ left' \subseteq left /\ r \in Request
         /\ stored' \in [Note -> Stored] /\ clock' \in Nat
         /\ \A n \in Note : n # r.note => stored'[n] = stored[n]
         /\ stored' = stored \/ ~stored'[r.note].awaited
         /\ UNCHANGED <<input, item, call, history, session>>
<1>1. r \in Request /\ clock \in Nat /\ stored \in [Note -> Stored]
  BY DEF TypeOK
<1>2. r.note \in Note /\ r.text \in Int
  BY <1>1 DEF Request
<1>3. left' \subseteq left /\ UNCHANGED <<input, item, call, history, session>>
  BY DEF ServeLeft
<1>4. ASSUME NEW time \in {clock, clock + 1}, Store(r, time, FALSE)
      PROVE  /\ stored' \in [Note -> Stored] /\ clock' \in Nat
             /\ \A n \in Note : n # r.note => stored'[n] = stored[n]
             /\ ~stored'[r.note].awaited
  <2>1. time \in Nat
    BY <1>1
  <2>2. /\ stored' = [stored EXCEPT ![r.note] =
                        [text |-> r.text, at |-> time, awaited |-> FALSE]]
        /\ clock' = time
    BY <1>4 DEF Store
  <2> QED BY <1>1, <1>2, <2>1, <2>2 DEF Stored
<1>5. CASE UNCHANGED <<stored, clock>>
  BY <1>1, <1>2, <1>3, <1>5
<1> QED BY <1>1, <1>2, <1>3, <1>4, <1>5 DEF ServeLeft

\* The other steps of a callback, field by field.
Moves(c, p) ==
  /\ call' \in [Callback -> Call] /\ call'[c].phase = p /\ call'[c].note = call[c].note
  /\ \A d \in Callback : d # c => call'[d] = call[d]

LEMMA FireForm ==
  ASSUME TypeOK, NEW n \in Note, NEW c \in Callback, Fire(n, c)
  PROVE  /\ call' \in [Callback -> Call] /\ CallIn(c, n, "woken")'
         /\ \A d \in Callback : d # c => call'[d] = call[d]
         /\ armed' \in [Note -> BOOLEAN] /\ ~armed'[n]
         /\ \A m \in Note : m # n => armed'[m] = armed[m]
         /\ armed[n] /\ call[c].phase = "idle"
         /\ \A d \in Callback : ~CallIn(d, n, "woken") /\ ~CallIn(d, n, "read")
         /\ UNCHANGED <<ui, typed, editor, item, history, server>>
<1>1. /\ armed' = [armed EXCEPT ![n] = FALSE]
      /\ call' = [call EXCEPT ![c] = [Idle EXCEPT !.phase = "woken", !.note = n]]
  BY DEF Fire
<1> DEFINE woken == [Idle EXCEPT !.phase = "woken", !.note = n]
<1>2. woken \in Call /\ woken.phase = "woken" /\ woken.note = n
  BY IdleType DEF Call, Phase
<1> HIDE DEF woken
<1>3. call' \in [Callback -> Call]
  BY <1>1, <1>2 DEF TypeOK, woken
<1>4. CallIn(c, n, "woken")'
  BY <1>1, <1>2, <1>3 DEF CallIn, TypeOK, woken
<1> QED BY <1>1, <1>3, <1>4 DEF Fire, TypeOK

LEMMA ReadForm ==
  ASSUME TypeOK, NEW c \in Callback, Read(c)
  PROVE  /\ Moves(c, "read") /\ call[c].phase = "woken"
         /\ call'[c].text = editor[call[c].note]
         /\ UNCHANGED <<input, item, history, server>>
<1>1. call[c].note \in Note /\ editor[call[c].note] \in Int
  BY CallTypes DEF TypeOK
<1>2. /\ call' = [call EXCEPT ![c].phase = "read", ![c].text = editor[call[c].note]]
      /\ call[c].phase = "woken" /\ UNCHANGED <<input, item, history, server>>
  BY DEF Read
<1>3. [call[c] EXCEPT !.phase = "read", !.text = editor[call[c].note]] \in Call
  BY <1>1, CallTypes DEF Call, Phase
<1> QED BY <1>1, <1>2, <1>3 DEF TypeOK, Moves, Call

LEMMA AssignForm ==
  ASSUME TypeOK, NEW c \in Callback, Assign(c)
  PROVE  /\ Moves(c, "waiting") /\ call[c].phase = "read"
         /\ text' \in [Note -> Int] /\ text'[call[c].note] = call[c].text
         /\ \A n \in Note : n # call[c].note => text'[n] = text[n]
         /\ UNCHANGED <<input, updatedAt, history, server>>
<1>1. call[c].note \in Note /\ call[c].text \in Int
  BY CallTypes
<1>2. /\ call' = [call EXCEPT ![c].phase = "waiting"]
      /\ text' = [text EXCEPT ![call[c].note] = call[c].text]
      /\ call[c].phase = "read" /\ UNCHANGED <<input, updatedAt, history, server>>
  BY DEF Assign
<1>3. [call[c] EXCEPT !.phase = "waiting"] \in Call
  BY <1>1, CallTypes DEF Call, Phase
<1> QED BY <1>1, <1>2, <1>3 DEF TypeOK, Moves, Call

LEMMA SealForm ==
  ASSUME TypeOK, NEW c \in Callback, Seal(c)
  PROVE  /\ Moves(c, "sealed") /\ call[c].phase = "waiting" /\ ~Locked
         /\ call'[c].text \in TextRead(c)
         /\ UNCHANGED <<input, item, history, server>>
<1>1. call[c].note \in Note /\ text[call[c].note] \in Int
  BY CallTypes DEF TypeOK
<1>2. PICK t \in TextRead(c) : call' = [call EXCEPT ![c].phase = "sealed", ![c].text = t]
  BY DEF Seal
<1>3. t \in Int
  BY <1>1 DEF TextRead, Torn
<1>4. [call[c] EXCEPT !.phase = "sealed", !.text = t] \in Call
  BY <1>1, <1>3, CallTypes DEF Call, Phase
<1>5. call[c].phase = "waiting" /\ ~Locked /\ UNCHANGED <<input, item, history, server>>
  BY DEF Seal
<1> QED BY <1>1, <1>2, <1>4, <1>5 DEF TypeOK, Moves, Call

LEMMA SavedForm ==
  ASSUME TypeOK, NEW c \in Callback, Saved(c)
  PROVE  /\ Moves(c, "returned") /\ call[c].phase = "answered" /\ call[c].answer = "saved"
         /\ call'[c].at = call[c].at
         /\ UNCHANGED <<input, item, history, server>>
<1>1. [call[c] EXCEPT !.phase = "returned"] \in Call
  BY CallTypes DEF Call, Phase
<1> QED BY <1>1 DEF TypeOK, Moves, Call, Saved

LEMMA FinishForm ==
  ASSUME TypeOK, NEW c \in Callback, Finish(c)
  PROVE  /\ call' \in [Callback -> Call] /\ call'[c].phase = "idle"
         /\ call[c].phase = "returned"
         /\ \A d \in Callback : d # c => call'[d] = call[d]
         /\ updatedAt' \in [Note -> Nat] /\ updatedAt'[call[c].note] = call[c].at
         /\ \A n \in Note : n # call[c].note => updatedAt'[n] = updatedAt[n]
         /\ UNCHANGED <<input, text, history, server>>
<1>1. call[c].note \in Note /\ call[c].at \in Nat
  BY CallTypes
<1> QED BY <1>1, IdleType DEF Finish, TypeOK

LEMMA TypeStep == ASSUME TypeOK, [Next]_vars PROVE TypeOK'
<1>1. ASSUME NEW n \in Note, Type(n)
      PROVE  TypeOK'
  <2>1. typed' \in Nat /\ editor' \in [Note -> Int] /\ armed' \in [Note -> BOOLEAN]
    BY <1>1 DEF Type, TypeOK
  <2> QED BY <1>1, <2>1 DEF Type, TypeOK
<1>2. ASSUME NEW n \in Note, NEW c \in Callback, Fire(n, c)
      PROVE  TypeOK'
  <2>1. /\ call' \in [Callback -> Call] /\ armed' \in [Note -> BOOLEAN]
        /\ UNCHANGED <<ui, typed, editor, item, history, server>>
    BY <1>2, FireForm
  <2> QED BY <2>1 DEF TypeOK
<1>3. ASSUME NEW c \in Callback, Read(c) \/ Seal(c) \/ Saved(c)
      PROVE  TypeOK'
  <2>1. call' \in [Callback -> Call] /\ UNCHANGED <<input, item, history, server>>
    BY <1>3, ReadForm, SealForm, SavedForm DEF Moves
  <2> QED BY <2>1 DEF TypeOK
<1>4. ASSUME NEW c \in Callback, Assign(c)
      PROVE  TypeOK'
  <2>1. /\ call' \in [Callback -> Call] /\ text' \in [Note -> Int]
        /\ UNCHANGED <<input, updatedAt, history, server>>
    BY <1>4, AssignForm DEF Moves
  <2> QED BY <2>1 DEF TypeOK
<1>5. ASSUME NEW c \in Callback, Send(c)
      PROVE  TypeOK'
  <2>1. /\ call' \in [Callback -> Call] /\ raced' \in [Note -> BOOLEAN]
        /\ UNCHANGED <<input, item, told, astray, server>>
    BY <1>5, SendForm
  <2> QED BY <2>1 DEF TypeOK
<1>6. ASSUME NEW c \in Callback, SealFails(c) \/ Refused(c)
      PROVE  TypeOK'
  <2>1. /\ \E t \in Int : Failed(c, t)
        /\ UNCHANGED <<input, item, astray, server>>
    BY <1>6, CallTypes DEF SealFails, Refused, TypeOK
  <2>2. /\ call' \in [Callback -> Call] /\ told' \in [Note -> Int]
        /\ raced' \in [Note -> BOOLEAN]
    BY <2>1, FailedForm
  <2> QED BY <2>1, <2>2 DEF TypeOK
<1>7. ASSUME NEW c \in Callback, GiveUp(c)
      PROVE  TypeOK'
  <2>1. /\ Failed(c, call[c].text) /\ call[c].text \in Int
        /\ UNCHANGED <<input, item, session, stored, clock>>
    BY <1>7, CallTypes DEF GiveUp
  <2>2. /\ call' \in [Callback -> Call] /\ told' \in [Note -> Int]
        /\ raced' \in [Note -> BOOLEAN]
    BY <2>1, FailedForm
  <2>3. left' \subseteq Request /\ astray' \in [Note -> BOOLEAN]
    BY <1>7, CallTypes DEF GiveUp, TypeOK
  <2> QED BY <2>1, <2>2, <2>3 DEF TypeOK
<1>8. ASSUME NEW c \in Callback, Finish(c)
      PROVE  TypeOK'
  <2>1. /\ call' \in [Callback -> Call] /\ updatedAt' \in [Note -> Nat]
        /\ UNCHANGED <<input, text, history, server>>
    BY <1>8, FinishForm
  <2> QED BY <2>1 DEF TypeOK
<1>9. ASSUME NEW c \in Callback, Serve(c)
      PROVE  TypeOK'
  <2>1. /\ call' \in [Callback -> Call] /\ stored' \in [Note -> Stored] /\ clock' \in Nat
        /\ UNCHANGED <<input, item, history, session, left>>
    BY <1>9, ServeForm
  <2> QED BY <2>1 DEF TypeOK
<1>10. ASSUME NEW r \in left, ServeLeft(r)
       PROVE  TypeOK'
  <2>1. /\ left' \subseteq left /\ stored' \in [Note -> Stored] /\ clock' \in Nat
        /\ UNCHANGED <<input, item, call, history, session>>
    BY <1>10, ServeLeftForm
  <2> QED BY <2>1 DEF TypeOK
<1>11. ASSUME Quit \/ \E c \in Callback : Panic(c)
       PROVE  TypeOK'
  <2>1. PICK how \in {"quit", "panicked"} : End(how)
    BY <1>11 DEF Quit, Panic
  <2>2. /\ ui' = how /\ armed' \in [Note -> BOOLEAN] /\ call' \in [Callback -> Call]
        /\ left' \subseteq Request /\ astray' \in [Note -> BOOLEAN]
        /\ UNCHANGED <<typed, editor, item, told, raced, session, stored, clock>>
    BY <2>1, EndForm
  <2> QED BY <2>2 DEF TypeOK
<1>12. CASE Open
  <2>1. \A n \in Note : stored[n].text \in Int /\ stored[n].at \in Nat
    BY DEF TypeOK, Stored
  <2>2. /\ editor' \in [Note -> Int] /\ text' \in [Note -> Int] /\ updatedAt' \in [Note -> Nat]
    BY <1>12, <2>1 DEF Open
  <2> QED BY <1>12, <2>2 DEF Open, TypeOK
<1>13. CASE Expire
  BY <1>13 DEF Expire, TypeOK
<1>14. CASE UNCHANGED vars
  BY <1>14 DEF vars, TypeOK
<1> QED BY <1>1, <1>2, <1>3, <1>4, <1>5, <1>6, <1>7, <1>8, <1>9, <1>10, <1>11, <1>12,
           <1>13, <1>14 DEF Next, Progress

\* Every reachable state of the editor keeps its types.
THEOREM TypeCorrect == Spec => []TypeOK
<1>1. Init => TypeOK
  BY IdleType DEF Init, TypeOK, Stored
<1> QED BY <1>1, TypeStep, PTL DEF Spec

-----------------------------------------------------------------------------
(* The mutex and the debounce timer.                                       *)

Holds(c) == call[c].phase \in {"sealed", "sent", "answered"}

Reads(c, n) == CallIn(c, n, "woken") \/ CallIn(c, n, "read")

\* One callback at a time has the mutex, one of a note reads the editor, and
\* none is left when the process has ended.
Orderly ==
  /\ \A c, d \in Callback : Holds(c) /\ Holds(d) => c = d
  /\ \A n \in Note : \A c, d \in Callback : Reads(c, n) /\ Reads(d, n) => c = d
  /\ ui # "running" => /\ \A c \in Callback : call[c].phase = "idle"
                       /\ \A n \in Note : ~armed[n]

\* The end of the process gives up what was sent, and so does an error.
LeftAstray == \A r \in left : astray[r.note]

\* What a step of callback c is, apart from the items and the server.
LEMMA CallbackStep ==
  ASSUME TypeOK, NEW c \in Callback,
         Read(c) \/ Assign(c) \/ Seal(c) \/ SealFails(c) \/ Send(c) \/ Serve(c) \/ GiveUp(c)
         \/ Refused(c) \/ Saved(c)
  PROVE  /\ \E p \in Phase \ {"idle", "woken"} : Moves(c, p)
         /\ call[c].phase # "idle"
         /\ call'[c].phase = "read" => call[c].phase = "woken"
         /\ Holds(c)' => Holds(c) \/ ~Locked
         /\ UNCHANGED <<ui, armed, typed, editor>>
<1>1. ASSUME NEW t \in Int, Failed(c, t) PROVE Moves(c, "returned")
  BY <1>1, FailedForm DEF Moves
<1>2. CASE Read(c)
  BY <1>2, ReadForm DEF Moves, Holds, Phase
<1>3. CASE Assign(c)
  BY <1>3, AssignForm DEF Moves, Holds, Phase
<1>4. CASE Seal(c)
  BY <1>4, SealForm DEF Moves, Holds, Phase
<1>5. CASE SealFails(c) \/ GiveUp(c) \/ Refused(c)
  <2>1. Moves(c, "returned") /\ call[c].phase # "idle" /\ UNCHANGED <<ui, armed, typed, editor>>
    BY <1>1, <1>5, CallTypes DEF SealFails, GiveUp, Refused, TypeOK
  <2> QED BY <2>1 DEF Moves, Holds, Phase
<1>6. CASE Send(c)
  BY <1>6, SendForm DEF Moves, Holds, Phase
<1>7. CASE Serve(c)
  BY <1>7, ServeForm DEF Moves, Holds, Phase
<1>8. CASE Saved(c)
  BY <1>8, SavedForm DEF Moves, Holds, Phase
<1> QED BY <1>2, <1>3, <1>4, <1>5, <1>6, <1>7, <1>8

LEMMA OrderlyStep ==
  ASSUME TypeOK, Orderly, [Next]_vars
  PROVE  Orderly'
<1>1. ASSUME NEW n \in Note, Type(n)
      PROVE  Orderly'
  BY <1>1 DEF Type, Orderly, Holds, Reads, CallIn
<1>2. ASSUME NEW n \in Note, NEW c \in Callback, Fire(n, c)
      PROVE  Orderly'
  <2>1. /\ CallIn(c, n, "woken")' /\ \A d \in Callback : d # c => call'[d] = call[d]
        /\ armed[n] /\ call[c].phase = "idle"
        /\ \A d \in Callback : ~CallIn(d, n, "woken") /\ ~CallIn(d, n, "read")
        /\ ui' = ui
    BY <1>2, FireForm
  <2>2. ui = "running"
    BY <2>1 DEF Orderly
  <2>3. ~Holds(c)' /\ \A d \in Callback : Holds(d)' => Holds(d)
    BY <2>1 DEF Holds, CallIn
  <2>4. \A d \in Callback, m \in Note : Reads(d, m)' => Reads(d, m) \/ (d = c /\ m = n)
    BY <2>1 DEF Reads, CallIn
  <2>5. \A d \in Callback : ~Reads(d, n)
    BY <2>1 DEF Reads
  <2> QED BY <2>1, <2>2, <2>3, <2>4, <2>5 DEF Orderly
<1>3. ASSUME NEW c \in Callback,
             Read(c) \/ Assign(c) \/ Seal(c) \/ SealFails(c) \/ Send(c) \/ Serve(c) \/ GiveUp(c)
             \/ Refused(c) \/ Saved(c)
      PROVE  Orderly'
  <2>1. PICK p \in Phase \ {"idle", "woken"} : Moves(c, p)
    BY <1>3, CallbackStep
  <2>2. /\ call[c].phase # "idle"
        /\ call'[c].phase = "read" => call[c].phase = "woken"
        /\ Holds(c)' => Holds(c) \/ ~Locked
        /\ UNCHANGED <<ui, armed>>
    BY <1>3, CallbackStep
  <2>3. ui = "running"
    BY <2>2 DEF Orderly
  <2>4. \A d \in Callback : d # c => (Holds(d)' <=> Holds(d))
    BY <2>1 DEF Moves, Holds
  <2>5. Locked <=> \E d \in Callback : Holds(d)
    BY DEF Locked, Holds
  <2>6. \A d, e \in Callback : Holds(d)' /\ Holds(e)' => d = e
    BY <2>2, <2>4, <2>5 DEF Orderly
  <2>7. \A d \in Callback, n \in Note : Reads(d, n)' => Reads(d, n)
    BY <2>1, <2>2 DEF Moves, Reads, CallIn
  <2> QED BY <2>2, <2>3, <2>6, <2>7 DEF Orderly
<1>4. ASSUME NEW c \in Callback, Finish(c)
      PROVE  Orderly'
  <2>1. /\ call'[c].phase = "idle" /\ call[c].phase = "returned"
        /\ \A d \in Callback : d # c => call'[d] = call[d]
        /\ UNCHANGED <<ui, armed>>
    BY <1>4, FinishForm
  <2> QED BY <2>1 DEF Orderly, Holds, Reads, CallIn
<1>5. ASSUME Quit \/ \E c \in Callback : Panic(c)
      PROVE  Orderly'
  <2>1. PICK how \in {"quit", "panicked"} : End(how)
    BY <1>5 DEF Quit, Panic
  <2>2. /\ \A c \in Callback : call'[c].phase = "idle"
        /\ \A n \in Note : ~armed'[n]
    BY <2>1, EndForm
  <2> QED BY <2>2 DEF Orderly, Holds, Reads, CallIn
<1>6. CASE Open
  BY <1>6 DEF Open, Orderly, Holds, Reads, CallIn
<1>7. CASE UNCHANGED <<ui, armed, call>>
  BY <1>7 DEF Orderly, Holds, Reads, CallIn
<1>8. Expire \/ UNCHANGED vars \/ (\E r \in left : ServeLeft(r)) => UNCHANGED <<ui, armed, call>>
  BY DEF Expire, vars, ServeLeft
<1> QED BY <1>1, <1>2, <1>3, <1>4, <1>5, <1>6, <1>7, <1>8 DEF Next, Progress

LEMMA OrderlyFirst == Init => Orderly /\ LeftAstray
BY IdleType DEF Init, Orderly, Holds, Reads, CallIn, LeftAstray

-----------------------------------------------------------------------------
(* No text is forgotten.                                                   *)

Sealing(c, n) == Holds(c) /\ call[c].note = n

\* The text of the editor was assigned, and nothing else is about to be.
Assigned(n) == text[n] = editor[n] /\ \A c \in Callback : ~CallIn(c, n, "read")

\* It is what the callback that has the mutex sends, is on the server, or the
\* user was told.
Resolved(n) ==
  /\ \A c \in Callback : Sealing(c, n) => call[c].text = editor[n]
  /\ \/ \E c \in Callback : /\ Sealing(c, n)
                            /\ call[c].phase = "answered" => call[c].answer # "saved"
     \/ OnServer(n) \/ told[n] = editor[n]

\* How far the text of the editor is on its way to the server.
Settled(n) ==
  \/ armed[n]
  \/ \E c \in Callback : CallIn(c, n, "woken")
  \/ \E c \in Callback : CallIn(c, n, "read") /\ call[c].text = editor[n]
  \/ Assigned(n) /\ \E c \in Callback : CallIn(c, n, "waiting")
  \/ Assigned(n) /\ Resolved(n)

\* A step of a callback of another note.
LEMMA SettledAside ==
  ASSUME NEW n \in Note, Settled(n), NEW c \in Callback, NEW p, Moves(c, p), call[c].note # n,
         armed'[n] = armed[n], editor'[n] = editor[n], text'[n] = text[n],
         told'[n] = told[n], stored'[n] = stored[n]
  PROVE  Settled(n)'
<1>1. call'[c].note # n /\ \A d \in Callback : d # c => call'[d] = call[d]
  BY DEF Moves
<1>2. \A d \in Callback, q \in Phase : CallIn(d, n, q)' <=> CallIn(d, n, q)
  BY <1>1 DEF CallIn
<1>3. \A d \in Callback : (Sealing(d, n)' <=> Sealing(d, n)) /\ (Sealing(d, n) => d # c)
  BY <1>1 DEF Sealing, Holds
<1>4. \A d \in Callback, q \in Phase : CallIn(d, n, q) => d # c
  BY DEF CallIn
<1>5. OnServer(n)' <=> OnServer(n)
  BY DEF OnServer
<1>6. Assigned(n) => Assigned(n)'
  BY <1>2 DEF Assigned, Phase
<1>7. Resolved(n) => Resolved(n)'
  BY <1>1, <1>3, <1>5 DEF Resolved
<1> QED BY <1>1, <1>2, <1>4, <1>6, <1>7 DEF Settled, Phase

\* The steps of a callback, for its own note.
LEMMA SettledByRead ==
  ASSUME TypeOK, NEW c \in Callback, Read(c), NEW n \in Note, n = call[c].note
  PROVE  Settled(n)'
<1>1. Moves(c, "read") /\ call'[c].text = editor[call[c].note] /\ UNCHANGED editor
  BY ReadForm
<1> QED BY <1>1 DEF Settled, CallIn, Moves

LEMMA SettledByAssign ==
  ASSUME TypeOK, Orderly, NEW c \in Callback, Assign(c), NEW n \in Note, n = call[c].note,
         Settled(n)
  PROVE  Settled(n)'
<1>1. /\ Moves(c, "waiting") /\ call[c].phase = "read"
      /\ text'[n] = call[c].text /\ UNCHANGED <<armed, editor>>
  BY AssignForm
<1>2. CallIn(c, n, "read") /\ Reads(c, n)
  BY <1>1 DEF CallIn, Reads
<1>3. \A d \in Callback : CallIn(d, n, "woken") \/ CallIn(d, n, "read") => d = c
  BY <1>2 DEF Orderly, Reads
<1>4. ~CallIn(c, n, "woken")
  BY <1>1 DEF CallIn
<1>5. armed[n] \/ call[c].text = editor[n]
  BY <1>2, <1>3, <1>4 DEF Settled, Assigned
<1>6. /\ call'[c].note = n /\ call'[c].phase = "waiting"
      /\ \A d \in Callback : d # c => call'[d] = call[d]
  BY <1>1 DEF Moves
<1>7. CallIn(c, n, "waiting")' /\ \A d \in Callback : ~CallIn(d, n, "read")'
  BY <1>3, <1>6 DEF CallIn
<1> QED BY <1>1, <1>5, <1>7 DEF Settled, Assigned

\* What comes after the assignment keeps the first three ways.
LEMMA SettledLater ==
  ASSUME TypeOK, NEW c \in Callback, NEW n \in Note, n = call[c].note, Settled(n),
         NEW p \in {"sealed", "sent", "answered", "returned"}, Moves(c, p),
         call[c].phase \notin {"woken", "read"},
         UNCHANGED <<armed, editor, text>>
  PROVE  /\ Settled(n)' \/ Assigned(n)
         /\ Assigned(n) => Assigned(n)'
         /\ (\E d \in Callback : d # c /\ CallIn(d, n, "waiting")) /\ Assigned(n) => Settled(n)'
         /\ Assigned(n) /\ Resolved(n)' => Settled(n)'
         /\ Assigned(n) /\ ~Resolved(n) => Settled(n)' \/ \E d \in Callback : CallIn(d, n, "waiting")
<1>1. /\ call'[c].note = n /\ call'[c].phase = p
      /\ \A d \in Callback : d # c => call'[d] = call[d]
  BY DEF Moves
<1>2. \A d \in Callback : /\ CallIn(d, n, "woken") => d # c /\ CallIn(d, n, "woken")'
                          /\ CallIn(d, n, "read") <=> CallIn(d, n, "read")'
                          /\ CallIn(d, n, "read") => d # c
                          /\ d # c /\ CallIn(d, n, "waiting") => CallIn(d, n, "waiting")'
  BY <1>1 DEF CallIn
<1>3. Assigned(n) => Assigned(n)'
  BY <1>2 DEF Assigned
<1>4. armed[n] => Settled(n)'
  BY DEF Settled
<1>5. \A d \in Callback : CallIn(d, n, "woken") => Settled(n)'
  BY <1>2 DEF Settled
<1>6. \A d \in Callback : CallIn(d, n, "read") /\ call[d].text = editor[n] => Settled(n)'
  BY <1>1, <1>2 DEF Settled
<1>7. Settled(n)' \/ (Assigned(n) /\ ((\E d \in Callback : CallIn(d, n, "waiting")) \/ Resolved(n)))
  BY <1>4, <1>5, <1>6 DEF Settled
<1>8. \A d \in Callback : d # c /\ CallIn(d, n, "waiting") /\ Assigned(n) => Settled(n)'
  BY <1>2, <1>3 DEF Settled
<1>9. Assigned(n) /\ Resolved(n)' => Settled(n)'
  BY <1>3 DEF Settled
<1> QED BY <1>3, <1>7, <1>8, <1>9

LEMMA SettledBySeal ==
  ASSUME TypeOK, Orderly, NEW c \in Callback, Seal(c) \/ SealFails(c),
         NEW n \in Note, n = call[c].note, Settled(n)
  PROVE  Settled(n)'
<1>0. text[n] \in Int
  BY DEF TypeOK
<1>1. CASE Seal(c)
  <2>1. /\ Moves(c, "sealed") /\ call[c].phase = "waiting" /\ ~Locked
        /\ call'[c].text \in TextRead(c) /\ UNCHANGED <<armed, editor, text>>
    BY <1>1, SealForm
  <2>2. Settled(n)' \/ Assigned(n)
    BY <2>1, SettledLater
  <2>3. Assigned(n) => call'[c].text = editor[n]
    BY <2>1 DEF TextRead, Assigned
  <2>4. Sealing(c, n)' /\ call'[c].phase = "sealed"
    BY <2>1 DEF Moves, Sealing, Holds
  <2>5. \A d \in Callback : Sealing(d, n)' => d = c
    BY <2>1 DEF Moves, Sealing, Holds, Locked
  <2>6. Assigned(n) => Resolved(n)'
    BY <2>1, <2>3, <2>4, <2>5 DEF Resolved
  <2> QED BY <2>1, <2>2, <2>6, SettledLater
<1>2. CASE SealFails(c)
  <2>1. /\ Failed(c, text[n]) /\ call[c].phase = "waiting" /\ ~Locked
        /\ UNCHANGED <<armed, editor, text, stored>>
    BY <1>2 DEF SealFails
  <2>2. Moves(c, "returned") /\ told'[n] = text[n]
    BY <1>0, <2>1, FailedForm DEF Moves
  <2>3. Settled(n)' \/ Assigned(n)
    BY <2>1, <2>2, SettledLater
  <2>4. \A d \in Callback : ~Sealing(d, n)'
    BY <2>1, <2>2 DEF Moves, Sealing, Holds, Locked
  <2>5. Assigned(n) => Resolved(n)'
    BY <2>1, <2>2, <2>4 DEF Resolved, Assigned
  <2> QED BY <2>1, <2>2, <2>3, <2>5, SettledLater
<1> QED BY <1>1, <1>2

\* The steps of the callback that has the mutex.
LEMMA SettledByHolder ==
  ASSUME TypeOK, Orderly, NEW c \in Callback,
         Send(c) \/ Serve(c) \/ GiveUp(c) \/ Refused(c) \/ Saved(c),
         NEW n \in Note, n = call[c].note, Settled(n)
  PROVE  Settled(n)'
<1>0. call[c].text \in Int
  BY CallTypes
<1>1. PICK p \in {"sent", "answered", "returned"} :
        /\ Moves(c, p) /\ Holds(c) /\ UNCHANGED <<armed, editor, text>>
  <2>1. ASSUME GiveUp(c) \/ Refused(c)
        PROVE  Moves(c, "returned") /\ Holds(c) /\ UNCHANGED <<armed, editor, text>>
    <3>1. Failed(c, call[c].text) /\ Holds(c) /\ UNCHANGED <<armed, editor, text>>
      BY <2>1 DEF GiveUp, Refused, Holds
    <3> QED BY <1>0, <3>1, FailedForm DEF Moves
  <2>2. Send(c) => Moves(c, "sent") /\ Holds(c) /\ UNCHANGED <<armed, editor, text>>
    BY SendForm DEF Moves, Holds
  <2>3. Serve(c) => Moves(c, "answered") /\ Holds(c) /\ UNCHANGED <<armed, editor, text>>
    BY ServeForm DEF Moves, Holds
  <2>4. Saved(c) => Moves(c, "returned") /\ Holds(c) /\ UNCHANGED <<armed, editor, text>>
    BY SavedForm DEF Moves, Holds
  <2> QED BY <2>1, <2>2, <2>3, <2>4
<1>2. call[c].phase \notin {"woken", "read", "waiting"} /\ Sealing(c, n)
  BY <1>1 DEF Holds, Sealing
<1>3. \A d \in Callback : Holds(d) => d = c
  BY <1>1 DEF Orderly
<1>4. \A d \in Callback : d # c => call'[d] = call[d] /\ ~Holds(d)'
  BY <1>1, <1>3 DEF Moves, Holds
<1>5. \A d \in Callback : CallIn(d, n, "waiting") => d # c
  BY <1>2 DEF CallIn
<1>6. Settled(n)' \/ (Assigned(n) /\ Resolved(n))
  BY <1>1, <1>2, <1>5, SettledLater
<1>7. ASSUME Resolved(n) PROVE Resolved(n)'
  <2>1. call[c].text = editor[n]
    BY <1>2, <1>7 DEF Resolved
  <2>2. ASSUME ~Holds(c)', OnServer(n)' \/ told'[n] = editor'[n]
        PROVE  Resolved(n)'
    BY <1>4, <2>2 DEF Resolved, Sealing
  <2>3. CASE Send(c)
    <3>1. call'[c].text = editor'[n] /\ call'[c].phase = "sent" /\ call'[c].note = n
      BY <2>1, <2>3, SendForm
    <3>2. Sealing(c, n)'
      BY <3>1 DEF Sealing, Holds
    <3> QED BY <1>4, <3>1, <3>2 DEF Resolved, Sealing
  <2>4. CASE Serve(c)
    <3>1. /\ call'[c].text = editor'[n] /\ call'[c].phase = "answered" /\ call'[c].note = n
          /\ \/ stored'[n].text = editor'[n]
             \/ call'[c].answer # "saved"
      BY <2>1, <2>4, ServeForm
    <3>2. Sealing(c, n)'
      BY <3>1 DEF Sealing, Holds
    <3> QED BY <1>4, <3>1, <3>2 DEF Resolved, Sealing, OnServer
  <2>5. CASE GiveUp(c) \/ Refused(c)
    <3>1. Failed(c, call[c].text) /\ UNCHANGED editor
      BY <2>5 DEF GiveUp, Refused
    <3>2. told'[n] = editor'[n] /\ call'[c].phase = "returned"
      BY <1>0, <2>1, <3>1, FailedForm
    <3> QED BY <2>2, <3>2 DEF Holds
  <2>6. CASE Saved(c)
    <3>1. /\ call'[c].phase = "returned" /\ call[c].phase = "answered"
          /\ call[c].answer = "saved" /\ UNCHANGED <<stored, editor, told>>
      BY <2>6, SavedForm DEF Moves
    <3>2. OnServer(n) \/ told[n] = editor[n]
      BY <1>3, <1>7, <3>1 DEF Resolved, Sealing
    <3> QED BY <2>2, <3>1, <3>2 DEF Holds, OnServer
  <2> QED BY <2>3, <2>4, <2>5, <2>6
<1> QED BY <1>1, <1>2, <1>6, <1>7, SettledLater

AllSettled == ui = "running" => \A n \in Note : Settled(n)

LEMMA SettledStep ==
  ASSUME TypeOK, Orderly, AllSettled, [Next]_vars
  PROVE  AllSettled'
<1>1. ASSUME NEW m \in Note, Type(m)
      PROVE  AllSettled'
  <2>1. /\ UNCHANGED <<ui, item, call, history, server>> /\ ui = "running"
        /\ armed'[m] /\ \A n \in Note : n # m => armed'[n] = armed[n] /\ editor'[n] = editor[n]
    BY <1>1 DEF Type, TypeOK
  <2> QED BY <2>1 DEF AllSettled, Settled, Assigned, Resolved, Sealing, Holds, CallIn, OnServer
<1>2. ASSUME NEW m \in Note, NEW c \in Callback, Fire(m, c)
      PROVE  AllSettled'
  <2>1. /\ CallIn(c, m, "woken")' /\ \A d \in Callback : d # c => call'[d] = call[d]
        /\ call[c].phase = "idle" /\ \A n \in Note : n # m => armed'[n] = armed[n]
        /\ UNCHANGED <<ui, editor, text, told, stored>>
    BY <1>2, FireForm
  <2> SUFFICES ASSUME NEW n \in Note, n # m, Settled(n)
               PROVE  Settled(n)'
    BY <2>1 DEF AllSettled, Settled
  <2>2. \A d \in Callback : CallIn(d, n, "woken") \/ CallIn(d, n, "read") \/ CallIn(d, n, "waiting")
          => d # c
    BY <2>1 DEF CallIn
  <2>3. \A d \in Callback : Sealing(d, n)' <=> Sealing(d, n)
    BY <2>1 DEF Sealing, Holds, CallIn
  <2>4. \A d \in Callback : Sealing(d, n) => d # c
    BY <2>1 DEF Sealing, Holds
  <2>5. Assigned(n) => Assigned(n)'
    BY <2>1 DEF Assigned, CallIn
  <2>6. Resolved(n) => Resolved(n)'
    BY <2>1, <2>3, <2>4 DEF Resolved, OnServer
  <2>7. \A d \in Callback : d # c =>
          /\ CallIn(d, n, "woken") => CallIn(d, n, "woken")'
          /\ CallIn(d, n, "read") => CallIn(d, n, "read")'
          /\ CallIn(d, n, "waiting") => CallIn(d, n, "waiting")'
    BY <2>1 DEF CallIn
  <2> QED BY <2>1, <2>2, <2>5, <2>6, <2>7 DEF Settled
<1>3. ASSUME NEW c \in Callback,
             Read(c) \/ Assign(c) \/ Seal(c) \/ SealFails(c) \/ Send(c) \/ Serve(c) \/ GiveUp(c)
             \/ Refused(c) \/ Saved(c)
      PROVE  AllSettled'
  <2>1. PICK p \in Phase : Moves(c, p)
    BY <1>3, CallbackStep
  <2>2. call[c].note \in Note /\ UNCHANGED <<ui, armed, editor>>
    BY <1>3, CallTypes, CallbackStep
  <2>3. \A n \in Note : n # call[c].note =>
          text'[n] = text[n] /\ told'[n] = told[n] /\ stored'[n] = stored[n]
    <3>1. ASSUME NEW t \in Int, Failed(c, t), UNCHANGED <<item, stored>>
          PROVE  \A n \in Note : n # call[c].note =>
                   text'[n] = text[n] /\ told'[n] = told[n] /\ stored'[n] = stored[n]
      BY <3>1, FailedForm
    <3>2. SealFails(c) \/ GiveUp(c) \/ Refused(c) =>
            (\E t \in Int : Failed(c, t)) /\ UNCHANGED <<item, stored>>
      BY CallTypes DEF SealFails, GiveUp, Refused, TypeOK
    <3>3. Read(c) \/ Seal(c) \/ Send(c) \/ Saved(c) => UNCHANGED <<item, told, stored>>
      BY DEF Read, Seal, Send, Saved
    <3>4. Assign(c) => /\ UNCHANGED <<told, stored>>
                       /\ \A n \in Note : n # call[c].note => text'[n] = text[n]
      BY AssignForm
    <3>5. Serve(c) => /\ UNCHANGED <<told, item>>
                      /\ \A n \in Note : n # call[c].note => stored'[n] = stored[n]
      BY ServeForm
    <3> QED BY <1>3, <3>1, <3>2, <3>3, <3>4, <3>5
  <2> SUFFICES ASSUME NEW n \in Note, Settled(n)
               PROVE  Settled(n)'
    BY <2>2 DEF AllSettled
  <2>4. CASE n # call[c].note
    BY <2>1, <2>2, <2>3, <2>4, SettledAside
  <2>5. CASE n = call[c].note
    <3>1. Read(c) => Settled(n)'
      BY <2>5, SettledByRead
    <3>2. Assign(c) => Settled(n)'
      BY <2>5, SettledByAssign
    <3>3. Seal(c) \/ SealFails(c) => Settled(n)'
      BY <2>5, SettledBySeal
    <3>4. Send(c) \/ Serve(c) \/ GiveUp(c) \/ Refused(c) \/ Saved(c) => Settled(n)'
      BY <2>5, SettledByHolder
    <3> QED BY <1>3, <3>1, <3>2, <3>3, <3>4
  <2> QED BY <2>4, <2>5
<1>4. ASSUME NEW c \in Callback, Finish(c)
      PROVE  AllSettled'
  <2>1. /\ call'[c].phase = "idle" /\ call[c].phase = "returned"
        /\ \A d \in Callback : d # c => call'[d] = call[d]
        /\ UNCHANGED <<ui, armed, editor, text, told, stored>>
    BY <1>4, FinishForm
  <2>2. \A n \in Note, d \in Callback : /\ CallIn(d, n, "woken") <=> CallIn(d, n, "woken")'
                                        /\ CallIn(d, n, "read") <=> CallIn(d, n, "read")'
                                        /\ CallIn(d, n, "waiting") <=> CallIn(d, n, "waiting")'
                                        /\ Sealing(d, n) <=> Sealing(d, n)'
                                        /\ CallIn(d, n, "read") \/ Sealing(d, n) => d # c
    BY <2>1 DEF CallIn, Sealing, Holds
  <2>3. \A n \in Note : (Assigned(n) => Assigned(n)') /\ (Resolved(n) => Resolved(n)')
    BY <2>1, <2>2 DEF Assigned, Resolved, OnServer
  <2> QED BY <2>1, <2>2, <2>3 DEF AllSettled, Settled
<1>5. ASSUME Quit \/ \E c \in Callback : Panic(c)
      PROVE  AllSettled'
  BY <1>5, EndForm DEF Quit, Panic, AllSettled
<1>6. CASE Open
  <2>1. /\ \A c \in Callback : call'[c].phase = "idle"
        /\ \A n \in Note : /\ editor'[n] = stored'[n].text /\ text'[n] = editor'[n]
    BY <1>6 DEF Open, Orderly
  <2> QED BY <2>1 DEF AllSettled, Settled, Assigned, Resolved, Sealing, Holds, CallIn, OnServer
<1>7. ASSUME NEW r \in left, ServeLeft(r)
      PROVE  AllSettled'
  <2>1. /\ UNCHANGED <<input, item, call, history>>
        /\ \A n \in Note : stored'[n] = stored[n] \/ ~stored'[n].awaited
    BY <1>7, ServeLeftForm DEF Request
  <2>2. \A n \in Note : OnServer(n) => OnServer(n)'
    BY <2>1 DEF OnServer
  <2>3. \A n \in Note : (Assigned(n) => Assigned(n)') /\ (Resolved(n) => Resolved(n)')
    BY <2>1, <2>2 DEF Assigned, Resolved, Sealing, Holds, CallIn
  <2> QED BY <2>1, <2>3 DEF AllSettled, Settled, CallIn
<1>8. CASE UNCHANGED <<input, item, call, history, stored>>
  BY <1>8 DEF AllSettled, Settled, Assigned, Resolved, Sealing, Holds, CallIn, OnServer
<1>9. Expire \/ UNCHANGED vars => UNCHANGED <<input, item, call, history, stored>>
  BY DEF Expire, vars
<1> QED BY <1>1, <1>2, <1>3, <1>4, <1>5, <1>6, <1>7, <1>8, <1>9 DEF Next, Progress

\* For any number of notes and callbacks in progress, a text that is not on the
\* server is about to be sent, or the user was told of it.
THEOREM NoTextForgotten == Spec => []NothingForgotten
<1>1. Init => AllSettled
  BY IdleType DEF Init, AllSettled, Settled, Assigned, Resolved, Sealing, Holds, CallIn, OnServer
<1>2. AllSettled => NothingForgotten
  BY DEF AllSettled, NothingForgotten, Settled, Resolved, Sealing, Holds, CallIn, InProgress
<1> QED BY <1>1, <1>2, SettledStep, OrderlyStep, OrderlyFirst, TypeCorrect, PTL DEF Spec

-----------------------------------------------------------------------------
(* Conflicts of an editor with itself.                                     *)

\* The callback c of note n, in phase p, is the only one to assign updated_at.
Alone(c, n) == \A d \in Callback : CallIn(d, n, "returned") => d = c

SavedIn(c, n) == CallIn(c, n, "answered") /\ call[c].answer = "saved"

\* The updated_at of note n and what will be assigned to it are the server's.
Agreed(n) ==
  /\ \A c \in Callback : CallIn(c, n, "sent") \/ CallIn(c, n, "answered") \/ CallIn(c, n, "returned")
       => Alone(c, n)
  /\ \A c \in Callback : CallIn(c, n, "sent") \/ SavedIn(c, n) \/ CallIn(c, n, "returned")
       => call[c].at = stored[n].at
  /\ \/ updatedAt[n] = stored[n].at
     \/ \E c \in Callback : SavedIn(c, n) \/ CallIn(c, n, "returned")

\* They are unless a request was given up or updated_at read too early.
AllAgreed ==
  /\ LeftAstray
  /\ ui = "running" => \A n \in Note : astray[n] \/ raced[n] \/ Agreed(n)

\* A step of a callback of another note, or one that is not in these phases.
LEMMA AgreedAside ==
  ASSUME NEW n \in Note, Agreed(n), NEW c \in Callback,
         \A d \in Callback : d # c => call'[d] = call[d],
         \A p \in {"sent", "answered", "returned"} : ~CallIn(c, n, p) /\ ~CallIn(c, n, p)',
         updatedAt'[n] = updatedAt[n], stored'[n] = stored[n]
  PROVE  Agreed(n)'
<1>1. \A d \in Callback, p \in {"sent", "answered", "returned"} :
        (CallIn(d, n, p)' <=> CallIn(d, n, p)) /\ (CallIn(d, n, p) => call'[d] = call[d])
  BY DEF CallIn
<1>2. \A d \in Callback : (SavedIn(d, n)' <=> SavedIn(d, n)) /\ (Alone(d, n)' <=> Alone(d, n))
  BY <1>1 DEF SavedIn, Alone
<1>3. \A d \in Callback : SavedIn(d, n) => CallIn(d, n, "answered")
  BY DEF SavedIn
<1> QED BY <1>1, <1>2, <1>3 DEF Agreed

\* A step after which callback c, in phase p, is the one that knows updated_at.
LEMMA AgreedBy ==
  ASSUME NEW n \in Note, NEW c \in Callback, NEW p, Moves(c, p), n = call[c].note,
         p \in {"sent", "answered", "returned"},
         \A d \in Callback \ {c} :
           ~CallIn(d, n, "sent") /\ ~CallIn(d, n, "answered") /\ ~CallIn(d, n, "returned"),
         (p = "answered" /\ call'[c].answer # "saved") \/ call'[c].at = stored'[n].at,
         updatedAt'[n] = stored'[n].at \/ p = "returned"
           \/ (p = "answered" /\ call'[c].answer = "saved")
  PROVE  Agreed(n)'
<1>1. /\ call'[c].note = n /\ call'[c].phase = p
      /\ \A d \in Callback : d # c => call'[d] = call[d]
  BY DEF Moves
<1>2. \A d \in Callback \ {c}, q \in {"sent", "answered", "returned"} : ~CallIn(d, n, q)'
  BY <1>1 DEF CallIn
<1>3. CallIn(c, n, p)'
  BY <1>1 DEF CallIn
<1>4. \A d \in Callback : SavedIn(d, n)' =>
        d = c /\ p = "answered" /\ call'[c].answer = "saved"
  BY <1>1, <1>2 DEF SavedIn, CallIn
<1>5. Alone(c, n)'
  BY <1>2 DEF Alone
<1>6. \A q \in {"sent", "answered", "returned"} : CallIn(c, n, q)' => q = p
  BY <1>1 DEF CallIn
<1>7. p = "answered" /\ call'[c].answer = "saved" => SavedIn(c, n)'
  BY <1>3 DEF SavedIn
<1> QED BY <1>1, <1>2, <1>3, <1>4, <1>5, <1>6, <1>7 DEF Agreed

\* The steps of a callback from the mutex on, for its own note.
LEMMA AgreedByHolder ==
  ASSUME TypeOK, Orderly, NEW c \in Callback, NEW n \in Note, n = call[c].note,
         SealFails(c) \/ Send(c) \/ Serve(c) \/ Refused(c) \/ Saved(c),
         ~raced'[n], Agreed(n)
  PROVE  Agreed(n)'
<1>1. Holds(c) => \A d \in Callback \ {c} : ~CallIn(d, n, "sent") /\ ~CallIn(d, n, "answered")
  BY DEF Orderly, Holds, CallIn
<1>2. ~Locked => \A d \in Callback : ~CallIn(d, n, "sent") /\ ~CallIn(d, n, "answered")
  BY DEF Locked, CallIn
<1>3. CASE SealFails(c) \/ Refused(c)
  <2>1. PICK t \in Int : Failed(c, t)
    BY <1>3, CallTypes DEF SealFails, Refused, TypeOK
  <2>2. UNCHANGED <<item, stored>>
    BY <1>3 DEF SealFails, Refused
  <2>3. /\ Moves(c, "returned") /\ call'[c].at = updatedAt[n]
        /\ \A d \in Callback \ {c} : ~CallIn(d, n, "returned")
    BY <2>1, FailedForm DEF Moves
  <2>4. \/ ~Locked /\ call[c].phase = "waiting"
        \/ call[c].phase = "answered" /\ call[c].answer = "refused"
    BY <1>3 DEF SealFails, Refused
  <2>5. \A d \in Callback \ {c} : ~CallIn(d, n, "sent") /\ ~CallIn(d, n, "answered")
    BY <1>1, <1>2, <2>4 DEF Holds
  <2>6. \A d \in Callback : ~SavedIn(d, n) /\ ~CallIn(d, n, "returned")
    BY <2>3, <2>4, <2>5 DEF SavedIn, CallIn
  <2>7. updatedAt[n] = stored[n].at
    BY <2>6 DEF Agreed
  <2>8. call'[c].at = stored'[n].at
    BY <2>2, <2>3, <2>7
  <2> QED BY <2>3, <2>5, <2>8, AgreedBy
<1>4. CASE Send(c)
  <2>1. /\ Moves(c, "sent") /\ call'[c].at = updatedAt[n] /\ call[c].phase = "sealed"
        /\ \A d \in Callback \ {c} : ~CallIn(d, n, "returned")
        /\ UNCHANGED <<item, stored>>
    BY <1>4, SendForm DEF Moves
  <2>2. \A d \in Callback \ {c} : ~CallIn(d, n, "sent") /\ ~CallIn(d, n, "answered")
    BY <1>1, <2>1 DEF Holds
  <2>3. \A d \in Callback : ~SavedIn(d, n) /\ ~CallIn(d, n, "returned")
    BY <2>1, <2>2 DEF SavedIn, CallIn
  <2>4. updatedAt[n] = stored[n].at
    BY <2>3 DEF Agreed
  <2>5. call'[c].at = stored'[n].at /\ updatedAt'[n] = stored'[n].at
    BY <2>1, <2>4
  <2> QED BY <2>1, <2>2, <2>5, AgreedBy
<1>5. CASE Serve(c)
  <2>1. /\ Moves(c, "answered") /\ call[c].phase = "sent" /\ UNCHANGED item
        /\ \/ call'[c].answer = "saved" /\ stored'[n].at = call'[c].at
           \/ call'[c].answer # "saved" /\ stored' = stored
    BY <1>5, ServeForm DEF Moves
  <2>2. CallIn(c, n, "sent")
    BY <2>1 DEF CallIn
  <2>3. \A d \in Callback \ {c} :
          ~CallIn(d, n, "sent") /\ ~CallIn(d, n, "answered") /\ ~CallIn(d, n, "returned")
    BY <1>1, <2>1, <2>2 DEF Holds, Agreed, Alone
  <2>4. \A d \in Callback : ~SavedIn(d, n) /\ ~CallIn(d, n, "returned")
    BY <2>1, <2>3 DEF SavedIn, CallIn
  <2>5. updatedAt[n] = stored[n].at
    BY <2>4 DEF Agreed
  <2>6. \/ call'[c].answer = "saved" /\ stored'[n].at = call'[c].at
        \/ call'[c].answer # "saved" /\ updatedAt'[n] = stored'[n].at
    BY <2>1, <2>5
  <2> QED BY <2>1, <2>3, <2>6, AgreedBy
<1>6. CASE Saved(c)
  <2>1. /\ Moves(c, "returned") /\ call[c].phase = "answered" /\ call[c].answer = "saved"
        /\ call'[c].at = call[c].at /\ UNCHANGED <<item, stored>>
    BY <1>6, SavedForm
  <2>2. CallIn(c, n, "answered") /\ SavedIn(c, n)
    BY <2>1 DEF CallIn, SavedIn
  <2>3. \A d \in Callback \ {c} :
          ~CallIn(d, n, "sent") /\ ~CallIn(d, n, "answered") /\ ~CallIn(d, n, "returned")
    BY <1>1, <2>1, <2>2 DEF Holds, Agreed, Alone
  <2>4. call'[c].at = stored'[n].at
    BY <2>1, <2>2 DEF Agreed
  <2> QED BY <2>1, <2>3, <2>4, AgreedBy
<1> QED BY <1>3, <1>4, <1>5, <1>6

LEMMA AgreedStep ==
  ASSUME TypeOK, Orderly, AllAgreed, [Next]_vars
  PROVE  AllAgreed'
<1>1. ASSUME NEW m \in Note, NEW c \in Callback, Fire(m, c)
      PROVE  AllAgreed'
  <2>1. /\ CallIn(c, m, "woken")' /\ \A d \in Callback : d # c => call'[d] = call[d]
        /\ call[c].phase = "idle" /\ UNCHANGED <<ui, item, history, server>>
    BY <1>1, FireForm
  <2>2. \A n \in Note, p \in {"sent", "answered", "returned"} : ~CallIn(c, n, p) /\ ~CallIn(c, n, p)'
    BY <2>1 DEF CallIn
  <2>3. \A n \in Note : Agreed(n) => Agreed(n)'
    BY <2>1, <2>2, AgreedAside
  <2> QED BY <2>1, <2>3 DEF AllAgreed, LeftAstray
<1>2. ASSUME NEW c \in Callback, Read(c) \/ Assign(c) \/ Seal(c)
      PROVE  AllAgreed'
  <2>1. PICK p \in {"read", "waiting", "sealed"} :
          /\ Moves(c, p) /\ call[c].phase \in {"woken", "read", "waiting"}
          /\ UNCHANGED <<ui, updatedAt, history, server>>
    BY <1>2, ReadForm, AssignForm, SealForm
  <2>2. \A n \in Note, q \in {"sent", "answered", "returned"} : ~CallIn(c, n, q) /\ ~CallIn(c, n, q)'
    BY <2>1 DEF CallIn, Moves
  <2>3. \A n \in Note : Agreed(n) => Agreed(n)'
    BY <2>1, <2>2, AgreedAside DEF Moves
  <2> QED BY <2>1, <2>3 DEF AllAgreed, LeftAstray
<1>3. ASSUME NEW c \in Callback,
             SealFails(c) \/ Send(c) \/ Serve(c) \/ Refused(c) \/ Saved(c) \/ GiveUp(c)
      PROVE  AllAgreed'
  <2>1. PICK p \in Phase : Moves(c, p)
    BY <1>3, CallbackStep
  <2>2. call[c].note \in Note /\ UNCHANGED ui
    BY <1>3, CallTypes, CallbackStep
  <2>3. /\ \A n \in Note : raced[n] => raced'[n]
        /\ \A n \in Note : n # call[c].note => stored'[n] = stored[n]
        /\ UNCHANGED updatedAt
    <3>1. SealFails(c) \/ Refused(c) \/ GiveUp(c) =>
            (\E t \in Int : Failed(c, t)) /\ UNCHANGED <<item, stored>>
      BY CallTypes DEF SealFails, Refused, GiveUp, TypeOK
    <3>2. ASSUME NEW t \in Int, Failed(c, t) PROVE \A n \in Note : raced[n] => raced'[n]
      BY <3>2, FailedForm
    <3> QED BY <1>3, <3>1, <3>2, SendForm, ServeForm, SavedForm
  <2>4. /\ \A n \in Note : astray[n] => astray'[n]
        /\ GiveUp(c) => astray'[call[c].note]
        /\ LeftAstray'
    <3>1. CASE GiveUp(c)
      <4>1. /\ astray' = [astray EXCEPT ![call[c].note] = TRUE]
            /\ left' \subseteq left \cup {Sent(c)}
        BY <3>1 DEF GiveUp
      <4>2. \A n \in Note : astray[n] => astray'[n]
        BY <4>1 DEF TypeOK
      <4>3. astray'[call[c].note]
        BY <2>2, <4>1 DEF TypeOK
      <4>4. \A r \in left : r.note \in Note
        BY DEF TypeOK, Request
      <4> QED BY <4>1, <4>2, <4>3, <4>4 DEF AllAgreed, LeftAstray, Sent
    <3>2. SealFails(c) \/ Send(c) \/ Serve(c) \/ Refused(c) \/ Saved(c) => UNCHANGED <<astray, left>>
      BY SendForm, ServeForm, SavedForm DEF SealFails, Refused
    <3> QED BY <1>3, <3>1, <3>2 DEF AllAgreed, LeftAstray
  <2>5. ASSUME NEW n \in Note, n # call[c].note, Agreed(n)
        PROVE  Agreed(n)'
    <3>1. \A q \in {"sent", "answered", "returned"} : ~CallIn(c, n, q) /\ ~CallIn(c, n, q)'
      BY <2>1, <2>5 DEF CallIn, Moves
    <3> QED BY <2>1, <2>3, <2>5, <3>1, AgreedAside DEF Moves
  <2>6. ASSUME NEW n \in Note, n = call[c].note, Agreed(n), ~GiveUp(c), ~raced'[n]
        PROVE  Agreed(n)'
    BY <1>3, <2>6, AgreedByHolder
  <2> QED BY <2>2, <2>3, <2>4, <2>5, <2>6 DEF AllAgreed
<1>4. ASSUME NEW c \in Callback, Finish(c)
      PROVE  AllAgreed'
  <2>1. /\ call'[c].phase = "idle" /\ call[c].phase = "returned"
        /\ \A d \in Callback : d # c => call'[d] = call[d]
        /\ updatedAt'[call[c].note] = call[c].at
        /\ \A n \in Note : n # call[c].note => updatedAt'[n] = updatedAt[n]
        /\ UNCHANGED <<ui, history, server>>
    BY <1>4, FinishForm
  <2>2. ASSUME NEW n \in Note, n # call[c].note, Agreed(n)
        PROVE  Agreed(n)'
    <3>1. \A q \in {"sent", "answered", "returned"} : ~CallIn(c, n, q) /\ ~CallIn(c, n, q)'
      BY <2>1, <2>2 DEF CallIn
    <3> QED BY <2>1, <2>2, <3>1, AgreedAside
  <2>3. ASSUME NEW n \in Note, n = call[c].note, Agreed(n)
        PROVE  Agreed(n)'
    <3>1. CallIn(c, n, "returned")
      BY <2>1, <2>3 DEF CallIn
    <3>2. \A d \in Callback :
            ~CallIn(d, n, "sent")' /\ ~CallIn(d, n, "answered")' /\ ~CallIn(d, n, "returned")'
      <4>1. \A d \in Callback \ {c} :
              ~CallIn(d, n, "sent") /\ ~CallIn(d, n, "answered") /\ ~CallIn(d, n, "returned")
        BY <2>3, <3>1 DEF Agreed, Alone
      <4> QED BY <2>1, <4>1 DEF CallIn
    <3>3. updatedAt'[n] = stored'[n].at
      BY <2>1, <2>3, <3>1 DEF Agreed
    <3> QED BY <3>2, <3>3 DEF Agreed, SavedIn
  <2> QED BY <2>1, <2>2, <2>3 DEF AllAgreed, LeftAstray
<1>5. ASSUME Quit \/ \E c \in Callback : Panic(c)
      PROVE  AllAgreed'
  <2>1. PICK how \in {"quit", "panicked"} : End(how)
    BY <1>5 DEF Quit, Panic
  <2>2. /\ ui' = how /\ \A n \in Note : astray[n] => astray'[n]
        /\ \A r \in left' : r \in left \/ (r.note \in Note /\ astray'[r.note])
    BY <2>1, EndForm
  <2>3. \A r \in left : r.note \in Note
    BY DEF TypeOK, Request
  <2> QED BY <2>2, <2>3 DEF AllAgreed, LeftAstray
<1>6. CASE Open
  <2>1. /\ \A c \in Callback : call'[c].phase = "idle"
        /\ \A n \in Note : updatedAt'[n] = stored'[n].at
        /\ UNCHANGED <<left, astray>>
    BY <1>6 DEF Open, Orderly
  <2>2. \A n \in Note : Agreed(n)'
    BY <2>1 DEF Agreed, SavedIn, CallIn
  <2> QED BY <2>1, <2>2 DEF AllAgreed, LeftAstray
<1>7. ASSUME NEW r \in left, ServeLeft(r)
      PROVE  AllAgreed'
  <2>1. /\ left' \subseteq left /\ UNCHANGED <<input, item, call, history>>
        /\ \A n \in Note : n # r.note => stored'[n] = stored[n]
    BY <1>7, ServeLeftForm
  <2>2. astray[r.note]
    BY DEF AllAgreed, LeftAstray
  <2>3. \A n \in Note : n # r.note => (Agreed(n) => Agreed(n)')
    BY <2>1 DEF Agreed, Alone, SavedIn, CallIn
  <2> QED BY <2>1, <2>2, <2>3 DEF AllAgreed, LeftAstray
<1>8. CASE UNCHANGED <<ui, item, call, history, stored, left>>
  BY <1>8 DEF AllAgreed, LeftAstray, Agreed, Alone, SavedIn, CallIn
<1>9. Expire \/ UNCHANGED vars \/ (\E n \in Note : Type(n)) =>
        UNCHANGED <<ui, item, call, history, stored, left>>
  BY DEF Expire, vars, Type
<1> QED BY <1>1, <1>2, <1>3, <1>4, <1>5, <1>6, <1>7, <1>8, <1>9 DEF Next, Progress

\* For any number of notes and callbacks, the editor runs into a conflict with
\* itself only after a request was given up or updated_at read too early.
THEOREM ConflictsHaveReasons == Spec => []ConflictsExplained
<1>1. Init => AllAgreed
  BY OrderlyFirst, IdleType DEF Init, AllAgreed, Agreed, Alone, SavedIn, CallIn
<1>2. TypeOK /\ Orderly /\ AllAgreed => ConflictsExplained
  <2> SUFFICES ASSUME TypeOK, Orderly, AllAgreed, NEW c \in Callback, call[c].phase = "sent",
                      ~astray[call[c].note], ~raced[call[c].note]
               PROVE  Admits(Sent(c))
    BY DEF ConflictsExplained
  <2>1. ui = "running" /\ call[c].note \in Note
    BY CallTypes DEF Orderly
  <2>2. Agreed(call[c].note) /\ CallIn(c, call[c].note, "sent")
    BY <2>1 DEF AllAgreed, CallIn
  <2> QED BY <2>1, <2>2 DEF Agreed, Admits, Sent
<1> QED BY <1>1, <1>2, AgreedStep, OrderlyStep, OrderlyFirst, TypeCorrect, PTL DEF Spec

-----------------------------------------------------------------------------
(* Texts reach the server in the order they were typed in.                 *)

\* From the server to the editor, every text of note n is at least as new as
\* those before it, but for a torn one.
Newer(n) ==
  /\ Torn <= stored[n].text /\ stored[n].text <= text[n]
  /\ text[n] <= editor[n] /\ editor[n] <= typed
  /\ \A c \in Callback : CallIn(c, n, "read") => text[n] <= call[c].text /\ call[c].text <= editor[n]
  /\ \A c \in Callback : Sealing(c, n) =>
       call[c].text = Torn \/ (stored[n].text <= call[c].text /\ call[c].text <= text[n])

AllNewer == \A n \in Note : astray[n] \/ Newer(n)

LEMMA Texts ==
  ASSUME TypeOK, NEW n \in Note
  PROVE  /\ stored[n].text \in Int /\ text[n] \in Int /\ editor[n] \in Int /\ typed \in Int
         /\ Torn \in Int
         /\ \A c \in Callback : call[c].text \in Int
BY CallTypes DEF TypeOK, Stored, Torn

LEMMA NewerAside ==
  ASSUME NEW n \in Note, Newer(n), NEW c \in Callback,
         \A d \in Callback : d # c => call'[d] = call[d],
         ~CallIn(c, n, "read")', ~Sealing(c, n)',
         stored'[n] = stored[n], text'[n] = text[n], UNCHANGED <<editor, typed>>
  PROVE  Newer(n)'
BY DEF Newer, CallIn, Sealing, Holds

LEMMA NewerStep ==
  ASSUME TypeOK, Orderly, LeftAstray, AllNewer, [Next]_vars
  PROVE  AllNewer' /\ \A n \in Note : \/ stored'[n].text >= stored[n].text
                                      \/ stored'[n].text = Torn \/ astray[n]
<1> DEFINE Never == \A n \in Note : \/ stored'[n].text >= stored[n].text
                                    \/ stored'[n].text = Torn \/ astray[n]
<1>0. UNCHANGED stored => Never
  BY Texts
<1>1. ASSUME NEW m \in Note, Type(m)
      PROVE  AllNewer' /\ Never
  <2>1. /\ typed' = typed + 1 /\ editor' \in [Note -> Int] /\ editor'[m] = typed'
        /\ \A n \in Note : n # m => editor'[n] = editor[n]
        /\ UNCHANGED <<text, call, stored, astray>>
    BY <1>1 DEF Type, TypeOK
  <2>2. \A n \in Note : Newer(n) => Newer(n)'
    <3> SUFFICES ASSUME NEW n \in Note, Newer(n)
                 PROVE  Newer(n)'
      OBVIOUS
    <3>1. editor'[n] \in Int /\ editor[n] <= editor'[n] /\ editor'[n] <= typed'
      BY <2>1, Texts DEF Newer
    <3> QED BY <2>1, <3>1, Texts DEF Newer, CallIn, Sealing, Holds
  <2> QED BY <1>0, <2>1, <2>2 DEF AllNewer
<1>2. ASSUME NEW m \in Note, NEW c \in Callback, Fire(m, c)
      PROVE  AllNewer' /\ Never
  <2>1. /\ CallIn(c, m, "woken")' /\ \A d \in Callback : d # c => call'[d] = call[d]
        /\ UNCHANGED <<editor, typed, text, astray, stored>>
    BY <1>2, FireForm
  <2>2. \A n \in Note : ~CallIn(c, n, "read")' /\ ~Sealing(c, n)'
    BY <2>1 DEF CallIn, Sealing, Holds
  <2>3. \A n \in Note : Newer(n) => Newer(n)'
    BY <2>1, <2>2, NewerAside
  <2> QED BY <1>0, <2>1, <2>3 DEF AllNewer
<1>3. ASSUME NEW c \in Callback, Read(c)
      PROVE  AllNewer' /\ Never
  <2>1. /\ Moves(c, "read") /\ call'[c].text = editor[call[c].note]
        /\ UNCHANGED <<editor, typed, text, astray, stored>>
    BY <1>3, ReadForm
  <2>2. \A n \in Note : n # call[c].note /\ Newer(n) => Newer(n)'
    BY <2>1, NewerAside DEF Moves, CallIn, Sealing
  <2>3. ASSUME NEW n \in Note, n = call[c].note, Newer(n)
        PROVE  Newer(n)'
    BY <2>1, <2>3, Texts DEF Newer, Moves, CallIn, Sealing, Holds
  <2> QED BY <1>0, <2>1, <2>2, <2>3 DEF AllNewer
<1>4. ASSUME NEW c \in Callback, Assign(c)
      PROVE  AllNewer' /\ Never
  <2>1. /\ Moves(c, "waiting") /\ call[c].phase = "read"
        /\ text'[call[c].note] = call[c].text
        /\ \A n \in Note : n # call[c].note => text'[n] = text[n]
        /\ UNCHANGED <<editor, typed, astray, stored>>
    BY <1>4, AssignForm
  <2>2. \A n \in Note : n # call[c].note /\ Newer(n) => Newer(n)'
    BY <2>1, NewerAside DEF Moves, CallIn, Sealing
  <2>3. ASSUME NEW n \in Note, n = call[c].note, Newer(n)
        PROVE  Newer(n)'
    <3>1. CallIn(c, n, "read") /\ Reads(c, n)
      BY <2>1, <2>3 DEF CallIn, Reads
    <3>2. \A d \in Callback : d # c => ~CallIn(d, n, "read")
      BY <3>1 DEF Orderly, Reads
    <3>3. \A d \in Callback : ~CallIn(d, n, "read")'
      BY <2>1, <3>2 DEF Moves, CallIn
    <3>4. text[n] <= text'[n] /\ text'[n] <= editor[n] /\ text'[n] \in Int
      BY <2>1, <2>3, <3>1, Texts DEF Newer
    <3>5. \A d \in Callback : Sealing(d, n)' => Sealing(d, n) /\ call'[d] = call[d]
      BY <2>1 DEF Moves, Sealing, Holds
    <3>6. Torn <= stored[n].text /\ stored[n].text <= text'[n]
      BY <2>3, <3>4, Texts DEF Newer
    <3>7. \A d \in Callback : Sealing(d, n)' =>
            call'[d].text = Torn \/ (stored[n].text <= call'[d].text /\ call'[d].text <= text'[n])
      BY <2>3, <3>4, <3>5, Texts DEF Newer
    <3> QED BY <2>1, <2>3, <3>3, <3>4, <3>6, <3>7 DEF Newer
  <2> QED BY <1>0, <2>1, <2>2, <2>3 DEF AllNewer
<1>5. ASSUME NEW c \in Callback, Seal(c)
      PROVE  AllNewer' /\ Never
  <2>1. /\ Moves(c, "sealed") /\ call'[c].text \in TextRead(c)
        /\ UNCHANGED <<editor, typed, text, astray, stored>>
    BY <1>5, SealForm
  <2>2. \A n \in Note : n # call[c].note /\ Newer(n) => Newer(n)'
    BY <2>1, NewerAside DEF Moves, CallIn, Sealing
  <2>3. ASSUME NEW n \in Note, n = call[c].note, Newer(n)
        PROVE  Newer(n)'
    <3>1. call'[c].text = Torn \/ call'[c].text = text[n]
      BY <2>1, <2>3 DEF TextRead
    <3> QED BY <2>1, <2>3, <3>1, Texts DEF Newer, Moves, CallIn, Sealing, Holds
  <2> QED BY <1>0, <2>1, <2>2, <2>3 DEF AllNewer
<1>6. ASSUME NEW c \in Callback, Send(c)
      PROVE  AllNewer' /\ Never
  <2>1. /\ Moves(c, "sent") /\ call[c].phase = "sealed" /\ call'[c].text = call[c].text
        /\ UNCHANGED <<editor, typed, text, astray, stored>>
    BY <1>6, SendForm DEF Moves
  <2>2. \A n \in Note : Newer(n) => Newer(n)'
    BY <2>1 DEF Newer, Moves, CallIn, Sealing, Holds
  <2> QED BY <1>0, <2>1, <2>2 DEF AllNewer
<1>7. ASSUME NEW c \in Callback, SealFails(c) \/ GiveUp(c) \/ Refused(c) \/ Saved(c)
      PROVE  AllNewer' /\ Never
  <2>1. /\ Moves(c, "returned") /\ UNCHANGED <<editor, typed, text, stored>>
        /\ \A n \in Note : astray[n] => astray'[n]
    <3>1. ASSUME NEW t \in Int, Failed(c, t) PROVE Moves(c, "returned")
      BY <3>1, FailedForm DEF Moves
    <3>2. SealFails(c) \/ GiveUp(c) \/ Refused(c) =>
            /\ \E t \in Int : Failed(c, t)
            /\ UNCHANGED <<editor, typed, text, stored>>
            /\ astray' = astray \/ astray' = [astray EXCEPT ![call[c].note] = TRUE]
      BY CallTypes DEF SealFails, GiveUp, Refused, TypeOK
    <3>3. Saved(c) => Moves(c, "returned") /\ UNCHANGED <<editor, typed, text, stored, astray>>
      BY SavedForm
    <3> QED BY <1>7, <3>1, <3>2, <3>3 DEF TypeOK
  <2>2. \A n \in Note : Newer(n) => Newer(n)'
    BY <2>1, NewerAside DEF Moves, CallIn, Sealing, Holds
  <2> QED BY <1>0, <2>1, <2>2 DEF AllNewer
<1>8. ASSUME NEW c \in Callback, Finish(c)
      PROVE  AllNewer' /\ Never
  <2>1. /\ call'[c].phase = "idle" /\ \A d \in Callback : d # c => call'[d] = call[d]
        /\ UNCHANGED <<editor, typed, text, astray, stored>>
    BY <1>8, FinishForm
  <2>2. \A n \in Note : Newer(n) => Newer(n)'
    BY <2>1, NewerAside DEF CallIn, Sealing, Holds
  <2> QED BY <1>0, <2>1, <2>2 DEF AllNewer
<1>9. ASSUME NEW c \in Callback, Serve(c)
      PROVE  AllNewer' /\ Never
  <2>1. /\ Moves(c, "answered") /\ call[c].phase = "sent" /\ call'[c].text = call[c].text
        /\ \A n \in Note : n # call[c].note => stored'[n] = stored[n]
        /\ stored'[call[c].note].text = call[c].text \/ stored' = stored
        /\ UNCHANGED <<editor, typed, text, astray>>
    BY <1>9, ServeForm DEF Moves
  <2>2. \A n \in Note : n # call[c].note /\ Newer(n) => Newer(n)'
    BY <2>1, NewerAside DEF Moves, CallIn, Sealing
  <2>3. ASSUME NEW n \in Note, n = call[c].note, Newer(n)
        PROVE  /\ Newer(n)'
               /\ stored'[n].text >= stored[n].text \/ stored'[n].text = Torn
    <3>1. Sealing(c, n)
      BY <2>1, <2>3 DEF Sealing, Holds
    <3>2. \A d \in Callback : Sealing(d, n)' => d = c
      BY <2>1, <3>1 DEF Orderly, Moves, Sealing, Holds
    <3>3. \/ stored'[n].text = stored[n].text
          \/ stored'[n].text = Torn /\ call[c].text = Torn
          \/ /\ stored'[n].text = call[c].text
             /\ stored[n].text <= call[c].text /\ call[c].text <= text[n]
      BY <2>1, <2>3, <3>1 DEF Newer
    <3>4. /\ Torn <= stored'[n].text /\ stored'[n].text <= text[n]
          /\ stored'[n].text >= stored[n].text \/ stored'[n].text = Torn
          /\ call[c].text = Torn \/ (stored'[n].text <= call[c].text /\ call[c].text <= text[n])
      BY <2>3, <3>1, <3>3, Texts DEF Newer
    <3>5. \A d \in Callback : CallIn(d, n, "read")' => CallIn(d, n, "read") /\ call'[d] = call[d]
      BY <2>1 DEF Moves, CallIn
    <3> QED BY <2>1, <2>3, <3>2, <3>4, <3>5 DEF Newer
  <2>4. Never
    BY <2>1, <2>3, Texts DEF AllNewer
  <2> QED BY <2>1, <2>2, <2>3, <2>4 DEF AllNewer
<1>10. ASSUME Quit \/ \E c \in Callback : Panic(c)
       PROVE  AllNewer' /\ Never
  <2>1. PICK how \in {"quit", "panicked"} : End(how)
    BY <1>10 DEF Quit, Panic
  <2>2. /\ \A n \in Note : astray[n] => astray'[n]
        /\ \A c \in Callback : call'[c].phase = "idle"
        /\ UNCHANGED <<editor, typed, text, stored>>
    BY <2>1, EndForm
  <2>3. \A n \in Note : Newer(n) => Newer(n)'
    BY <2>2 DEF Newer, CallIn, Sealing, Holds
  <2> QED BY <1>0, <2>2, <2>3 DEF AllNewer
<1>11. CASE Open
  <2>1. /\ \A c \in Callback : call'[c].phase = "idle"
        /\ \A n \in Note : editor'[n] = stored[n].text /\ text'[n] = stored[n].text
        /\ UNCHANGED <<typed, stored, astray>>
    BY <1>11 DEF Open, Orderly
  <2>2. ASSUME NEW n \in Note, Newer(n)
        PROVE  Newer(n)'
    <3>1. stored[n].text <= typed /\ Torn <= stored[n].text /\ stored[n].text <= stored[n].text
      BY <2>2, Texts DEF Newer
    <3> QED BY <2>1, <3>1 DEF Newer, CallIn, Sealing, Holds
  <2> QED BY <1>0, <2>1, <2>2 DEF AllNewer
<1>12. ASSUME NEW r \in left, ServeLeft(r)
       PROVE  AllNewer' /\ Never
  <2>1. /\ UNCHANGED <<input, item, call, history>>
        /\ \A n \in Note : n # r.note => stored'[n] = stored[n]
    BY <1>12, ServeLeftForm
  <2>2. astray[r.note]
    BY DEF LeftAstray
  <2>3. \A n \in Note : n # r.note /\ Newer(n) => Newer(n)'
    BY <2>1 DEF Newer, CallIn, Sealing, Holds
  <2>4. Never
    BY <2>1, <2>2, Texts
  <2> QED BY <2>1, <2>2, <2>3, <2>4 DEF AllNewer
<1>13. ASSUME Expire \/ UNCHANGED vars
       PROVE  AllNewer' /\ Never
  <2>1. UNCHANGED <<input, item, call, history, stored>>
    BY <1>13 DEF Expire, vars
  <2> QED BY <1>0, <2>1 DEF AllNewer, Newer, CallIn, Sealing, Holds
<1> QED BY <1>1, <1>2, <1>3, <1>4, <1>5, <1>6, <1>7, <1>8, <1>9, <1>10, <1>11, <1>12,
           <1>13 DEF Next, Progress

\* For any number of notes and callbacks, the server never goes back to an older
\* text unless a request was given up.
THEOREM NeverGoesBack == Spec => NeverOlder
<1>1. Init => AllNewer
  <2> SUFFICES ASSUME Init PROVE AllNewer
    OBVIOUS
  <2>1. /\ \A n \in Note : stored[n].text = 0 /\ text[n] = 0 /\ editor[n] = 0
        /\ typed = 0 /\ \A c \in Callback : call[c].phase = "idle"
    BY IdleType DEF Init
  <2> QED BY <2>1 DEF AllNewer, Newer, CallIn, Sealing, Holds, Torn
<1>2. AllAgreed => LeftAstray
  BY DEF AllAgreed
<1>3. Init => AllAgreed
  BY OrderlyFirst, IdleType DEF Init, AllAgreed, Agreed, Alone, SavedIn, CallIn
<1>4. TypeOK /\ Orderly /\ LeftAstray /\ AllNewer /\ [Next]_vars =>
        /\ AllNewer'
        /\ [\A n \in Note :
               stored'[n].text >= stored[n].text \/ stored'[n].text = Torn \/ astray[n]]_vars
  BY NewerStep
<1> QED BY <1>1, <1>2, <1>3, <1>4, AgreedStep, OrderlyStep, OrderlyFirst, TypeCorrect, PTL
        DEF Spec, NeverOlder

=============================================================================

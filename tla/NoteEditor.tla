----------------------------- MODULE NoteEditor -----------------------------
(***************************************************************************)
(* The note editor of sfc: what is typed into a note is synchronized by a  *)
(* debounced callback, in a goroutine of its own, under one mutex, with a  *)
(* server that compares updated_at (API 20200115).  The account has no     *)
(* other client.                                                           *)
(*                                                                         *)
(* Texts are numbers in the order they are typed in.  Times are those of   *)
(* the server, and equal if they are within its conflict interval.         *)
(***************************************************************************)
EXTENDS Integers, FiniteSets

CONSTANTS
  Note,        \* notes of the account
  Callback,    \* goroutines of debounced callbacks
  Faulty,      \* requests, responses and database calls may fail
  MaxTyped     \* bound of a run: texts typed

ASSUME EditorAssumption == Note # {} /\ Faulty \in BOOLEAN /\ MaxTyped \in Nat

VARIABLES
  ui,          \* "running", or how it ended: "quit" or "panicked"
  typed,       \* how many texts were typed
  editor,      \* editor[n]: the text of the edit widget
  armed,       \* armed[n]: the debounce timer runs
  text,        \* text[n]: item.Note.Text
  updatedAt,   \* updatedAt[n]: item.UpdatedAt
  call,        \* call[c]: a callback in progress
  session,     \* whether the access token is still accepted
  stored,      \* stored[n]: the note on the server
  clock,       \* the time of the last save on the server
  left,        \* requests nobody waits for and the server may still get
  told,        \* told[n]: the text of which the user was told last that it is not saved
  astray,      \* astray[n]: a request for n was given up
  raced        \* raced[n]: UpdatedAt was read while another callback of n still
               \* had to assign it

input == <<ui, typed, editor, armed>>
item == <<text, updatedAt>>
history == <<told, astray, raced>>
server == <<session, stored, clock, left>>
vars == <<input, item, call, history, server>>

\* What a reader of a string that is being assigned may get.
Torn == -1

Phase == {"idle", "woken", "read", "waiting", "sealed", "sent", "answered", "returned"}
Answer == {"none", "refused", "conflict", "saved"}
Request == [note : Note, text : Int, at : Nat]
Call == [phase : Phase, note : Note, text : Int, at : Nat, answer : Answer]

\* awaited: whether the client was waiting when it was saved.
Stored == [text : Int, at : Nat, awaited : BOOLEAN]

Idle == [phase |-> "idle", note |-> CHOOSE n \in Note : TRUE, text |-> 0, at |-> 0,
         answer |-> "none"]

Init ==
  /\ ui = "running" /\ typed = 0 /\ session = TRUE /\ clock = 0 /\ left = {}
  /\ stored = [n \in Note |-> [text |-> 0, at |-> 0, awaited |-> TRUE]]
  /\ editor = [n \in Note |-> 0] /\ armed = [n \in Note |-> FALSE]
  /\ text = [n \in Note |-> 0] /\ updatedAt = [n \in Note |-> 0]
  /\ call = [c \in Callback |-> Idle]
  /\ told = [n \in Note |-> 0]
  /\ astray = [n \in Note |-> FALSE] /\ raced = [n \in Note |-> FALSE]

\* A callback of note n in phase p.
CallIn(c, n, p) == call[c].phase = p /\ call[c].note = n

InProgress(n) == \E c \in Callback : call[c].phase # "idle" /\ call[c].note = n

\* The synchronizer's mutex is held.
Locked == \E c \in Callback : call[c].phase \in {"sealed", "sent", "answered"}

\* Variants a mistake in the code would give, here and below, for showing that
\* the properties depend on it; no specification uses them.
SentWithoutTime(c) == [note |-> call[c].note, text |-> call[c].text, at |-> -1]

Sent(c) == [note |-> call[c].note, text |-> call[c].text, at |-> call[c].at]

-----------------------------------------------------------------------------
(* The user.                                                               *)

\* Variant: no timer while a callback of the note is at work.
TypeUnlessSyncing(n) ==
  /\ ui = "running" /\ typed < MaxTyped
  /\ typed' = typed + 1
  /\ editor' = [editor EXCEPT ![n] = typed + 1]
  /\ armed' = [armed EXCEPT ![n] = ~InProgress(n)]
  /\ UNCHANGED <<ui, item, call, history, server>>

\* A note is edited; its debounce timer starts anew.
Type(n) ==
  /\ ui = "running" /\ typed < MaxTyped
  /\ typed' = typed + 1
  /\ editor' = [editor EXCEPT ![n] = typed + 1]
  /\ armed' = [armed EXCEPT ![n] = TRUE]
  /\ UNCHANGED <<ui, item, call, history, server>>

\* The process ends: timers and callbacks are gone, what was sent is not.
End(how) ==
  /\ ui' = how
  /\ armed' = [n \in Note |-> FALSE]
  /\ call' = [c \in Callback |-> Idle]
  /\ left' = left \cup {Sent(c) : c \in {c \in Callback : call[c].phase = "sent"}}
  /\ astray' = [n \in Note |-> astray[n] \/ \E c \in Callback : CallIn(c, n, "sent")]
  /\ UNCHANGED <<typed, editor, item, told, raced, session, stored, clock>>

\* Ctrl+Q.
Quit == ui = "running" /\ End("quit")

\* Note() again: a fresh session, and all notes from the server.
Open ==
  /\ ui # "running" /\ typed < MaxTyped
  /\ ui' = "running" /\ session' = TRUE
  /\ editor' = [n \in Note |-> stored[n].text]
  /\ text' = [n \in Note |-> stored[n].text]
  /\ updatedAt' = [n \in Note |-> stored[n].at]
  /\ UNCHANGED <<typed, armed, call, history, stored, clock, left>>

-----------------------------------------------------------------------------
(* A callback.                                                             *)

\* The timer of n runs off.  The callback before had the delay of the timer to
\* get from the text it read to the mutex.
Fire(n, c) ==
  /\ armed[n] /\ call[c].phase = "idle"
  /\ \A d \in Callback : ~CallIn(d, n, "woken") /\ ~CallIn(d, n, "read")
  /\ armed' = [armed EXCEPT ![n] = FALSE]
  /\ call' = [call EXCEPT ![c] = [Idle EXCEPT !.phase = "woken", !.note = n]]
  /\ UNCHANGED <<ui, typed, editor, item, history, server>>

\* editor.Text() ...
Read(c) ==
  /\ call[c].phase = "woken"
  /\ call' = [call EXCEPT ![c].phase = "read", ![c].text = editor[call[c].note]]
  /\ UNCHANGED <<input, item, history, server>>

\* ... is assigned to item.Note.Text outside the mutex.
Assign(c) ==
  /\ call[c].phase = "read"
  /\ text' = [text EXCEPT ![call[c].note] = call[c].text]
  /\ call' = [call EXCEPT ![c].phase = "waiting"]
  /\ UNCHANGED <<input, updatedAt, history, server>>

\* Variant: the text the callback has read itself.
TextOfCall(c) == {call[c].text}

\* What Seal reads of the text of its note: another callback may be assigning it.
TextRead(c) ==
  LET n == call[c].note
  IN {text[n]} \cup {Torn : d \in {d \in Callback : CallIn(d, n, "read")}}

\* The synchronizer gets the mutex and seals the note ...
Seal(c) ==
  /\ call[c].phase = "waiting" /\ ~Locked
  /\ \E t \in TextRead(c) : call' = [call EXCEPT ![c].phase = "sealed", ![c].text = t]
  /\ UNCHANGED <<input, item, history, server>>

\* Callback c reads item.UpdatedAt and gets to phase p.
ReadUpdatedAt(c, p) ==
  LET n == call[c].note
  IN /\ call' = [call EXCEPT ![c].phase = p, ![c].at = updatedAt[n]]
     /\ raced' = [raced EXCEPT ![n] = @ \/ \E d \in Callback \ {c} : CallIn(d, n, "returned")]

\* Variant: the error is returned and not shown.
FailedSilently(c, t) == ReadUpdatedAt(c, "returned") /\ told' = told

\* An error is shown and item.UpdatedAt returned.
Failed(c, t) ==
  /\ ReadUpdatedAt(c, "returned")
  /\ told' = [told EXCEPT ![call[c].note] = t]

\* ... or fails to.
SealFails(c) ==
  /\ Faulty /\ call[c].phase = "waiting" /\ ~Locked
  /\ Failed(c, text[call[c].note])
  /\ UNCHANGED <<input, item, astray, server>>

\* SyncItems: the request holds the updated_at of now.
Send(c) ==
  /\ call[c].phase = "sealed"
  /\ ReadUpdatedAt(c, "sent")
  /\ UNCHANGED <<input, item, told, astray, server>>

\* It fails, with the request still under way or its response lost.
GiveUp(c) ==
  /\ Faulty /\ call[c].phase \in {"sent", "answered"}
  /\ Failed(c, call[c].text)
  /\ astray' = [astray EXCEPT ![call[c].note] = TRUE]
  /\ left' = IF call[c].phase = "sent" THEN left \cup {Sent(c)} ELSE left
  /\ UNCHANGED <<input, item, session, stored, clock>>

\* The server refused.
Refused(c) ==
  /\ call[c].phase = "answered" /\ call[c].answer = "refused"
  /\ Failed(c, call[c].text)
  /\ UNCHANGED <<input, item, astray, server>>

\* It reports a conflict: panic, which nothing recovers in this goroutine.
Panic(c) ==
  /\ call[c].phase = "answered" /\ call[c].answer = "conflict"
  /\ End("panicked")

\* It saved: items.Saved[0].UpdatedAt is returned.
Saved(c) ==
  /\ call[c].phase = "answered" /\ call[c].answer = "saved"
  /\ call' = [call EXCEPT ![c].phase = "returned"]
  /\ UNCHANGED <<input, item, history, server>>

\* Variant: what was returned is not assigned.
FinishUnassigned(c) ==
  /\ call[c].phase = "returned"
  /\ call' = [call EXCEPT ![c] = Idle]
  /\ UNCHANGED <<input, item, history, server>>

\* Once the mutex is released, item.UpdatedAt is assigned what was returned.
Finish(c) ==
  /\ call[c].phase = "returned"
  /\ updatedAt' = [updatedAt EXCEPT ![call[c].note] = call[c].at]
  /\ call' = [call EXCEPT ![c] = Idle]
  /\ UNCHANGED <<input, text, history, server>>

-----------------------------------------------------------------------------
(* The server.                                                             *)

\* The comparison of updated_at.
Admits(r) == stored[r.note].at = r.at

\* It saves request r, possibly within the conflict interval of the last save.
Store(r, time, awaited) ==
  /\ stored' = [stored EXCEPT ![r.note] = [text |-> r.text, at |-> time, awaited |-> awaited]]
  /\ clock' = time

Answered(c, answer, time) ==
  call' = [call EXCEPT ![c].phase = "answered", ![c].answer = answer, ![c].at = time]

Serve(c) ==
  /\ call[c].phase = "sent"
  /\ \/ /\ session /\ Admits(Sent(c))
        /\ \E time \in {clock, clock + 1} :
             Store(Sent(c), time, TRUE) /\ Answered(c, "saved", time)
     \/ /\ session /\ (~Admits(Sent(c)) \/ Faulty)
        /\ Answered(c, "conflict", 0)
        /\ UNCHANGED <<stored, clock>>
     \/ /\ ~session \/ Faulty
        /\ Answered(c, "refused", 0)
        /\ UNCHANGED <<stored, clock>>
  /\ UNCHANGED <<input, item, history, session, left>>

\* A request nobody waits for arrives, or never does.
ServeLeft(r) ==
  /\ left' = left \ {r}
  /\ \/ session /\ Admits(r) /\ \E time \in {clock, clock + 1} : Store(r, time, FALSE)
     \/ UNCHANGED <<stored, clock>>
  /\ UNCHANGED <<input, item, call, history, session>>

\* The access token expires: the editor does not refresh it.
Expire ==
  /\ session /\ session' = FALSE
  /\ UNCHANGED <<input, item, call, history, stored, clock, left>>

-----------------------------------------------------------------------------

Progress(c) ==
  \/ Read(c) \/ Assign(c) \/ Send(c) \/ Serve(c)
  \/ Refused(c) \/ Panic(c) \/ Saved(c) \/ Finish(c)

Next ==
  \/ \E n \in Note : Type(n) \/ \E c \in Callback : Fire(n, c)
  \/ \E c \in Callback : Progress(c) \/ Seal(c) \/ SealFails(c) \/ GiveUp(c)
  \/ \E r \in left : ServeLeft(r)
  \/ Quit \/ Open \/ Expire

Spec == Init /\ [][Next]_vars

\* Timers run off, goroutines go on, requests are answered or fail, and a mutex
\* is not kept from one goroutine for ever.
FairSpec ==
  /\ Spec
  /\ \A n \in Note : WF_vars(\E c \in Callback : Fire(n, c))
  /\ \A c \in Callback : WF_vars(Progress(c)) /\ SF_vars(Seal(c) \/ SealFails(c))

-----------------------------------------------------------------------------
(* Properties.                                                             *)

\* Every variable keeps the shape its comment gives it.
TypeOK ==
  /\ ui \in {"running", "quit", "panicked"} /\ session \in BOOLEAN
  /\ typed \in Nat /\ clock \in Nat
  /\ editor \in [Note -> Int] /\ text \in [Note -> Int] /\ told \in [Note -> Int]
  /\ updatedAt \in [Note -> Nat]
  /\ armed \in [Note -> BOOLEAN] /\ astray \in [Note -> BOOLEAN] /\ raced \in [Note -> BOOLEAN]
  /\ call \in [Callback -> Call]
  /\ stored \in [Note -> Stored]
  /\ left \subseteq Request

\* The server has what the editor shows, or was overwritten by a request the
\* editor had given up.
OnServer(n) == editor[n] = stored[n].text \/ ~stored[n].awaited

\* While the editor runs, a text that is not on the server is about to be sent,
\* or the user was told of this very text that it is not saved: no callback
\* saves or reports an older text in its stead (item.go:33, note.go:131).
NothingForgotten ==
  ui = "running" =>
    \A n \in Note : OnServer(n) \/ armed[n] \/ InProgress(n) \/ told[n] = editor[n]

\* The server finds a conflict only after a request was given up, or UpdatedAt was
\* read while another callback of the note had it still to assign
\* (item.go:34): an account with one client has no others (note.go:137).
ConflictsExplained ==
  \A c \in Callback : LET n == call[c].note
                      IN call[c].phase = "sent" =>
                           Admits(Sent(c)) \/ astray[n] \/ raced[n]

\* Unless a request was given up, the text of the server is never replaced by an
\* older one, in whichever order callbacks get the mutex; a torn one is not older.
NeverOlder ==
  [][\A n \in Note :
       stored'[n].text >= stored[n].text \/ stored'[n].text = Torn \/ astray[n]]_vars

\* A text that was typed gets saved, or the user is told, unless the editor ends.
Synchronized ==
  \A n \in Note :
    ui = "running" /\ ~OnServer(n)
      ~> ui # "running" \/ OnServer(n) \/ told[n] = editor[n]

=============================================================================

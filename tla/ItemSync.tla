------------------------------ MODULE ItemSync ------------------------------
(***************************************************************************)
(* The items of one account and POST /items/sync, in both protocol         *)
(* versions.  Each database call of a request (the query of get(), the     *)
(* per-item FindItemByUserID, the bolt transaction of Save) is atomic; the *)
(* requests of the account's devices interleave between them.  Save reads  *)
(* the wall clock before its transaction starts, so stamping and           *)
(* committing are two steps.                                               *)
(*                                                                         *)
(* Time is counted in microseconds from an epoch before the account, 0     *)
(* being the zero time; a version of an item is named by its updated_at.   *)
(* The content and the type of items are left out: no decision of the      *)
(* service looks at them.                                                  *)
(***************************************************************************)
EXTENDS Integers, FiniteSets, FiniteSetsExt

CONSTANTS
  Item,               \* UUIDs of items
  Device,             \* clients of the account, one sync request at a time each
  Creator,            \* Creator[i]: the device that draws the UUID i
  Api,                \* protocol versions the devices use
  Limits,             \* values of the limit parameter, 0 being none
  Steps,              \* distances between two stamps of the clock
  Losses,             \* what a client's rounding of updated_at may take off it
  ConflictInterval,   \* minConflictIntervalMicrosecond20190520
  ConflictInterval16, \* minConflictInterval20161215
  Overlap,            \* whether requests of different devices may overlap
  OmitUpdatedAt,      \* whether clients may send items without updated_at
  Faulty,             \* whether database calls fail and the server crashes
  MaxClock            \* bound of a run: no edit is sent from there on

ASSUME IntervalAssumption ==
  /\ ConflictInterval \in Nat \ {0} /\ ConflictInterval16 \in Nat
  /\ Losses \subseteq 0 .. (ConflictInterval - 1)

ASSUME ParameterAssumption ==
  /\ IsFiniteSet(Item)
  /\ Creator \in [Item -> Device]
  /\ Api \subseteq {"20161215", "20190520"}
  /\ Limits \subseteq Nat /\ Steps \subseteq Nat \ {0} /\ MaxClock \in Nat
  /\ {Overlap, OmitUpdatedAt, Faulty} \subseteq BOOLEAN

VARIABLES
  clock,   \* the server's wall clock
  db,      \* db[i]: the stored version of item i
  req,     \* req[d]: the request of device d in progress
  known,   \* known[d][i]: the version of item i that device d holds
  token,   \* token[d]: the sync_token of device d, 0 before its first sync
  cursor,  \* cursor[d]: the cursor_token it was given with it, 0 if none
  hashed   \* hashed[d]: updated_at of the items behind the integrity_hash it got

vars == <<clock, db, req, known, token, cursor, hashed>>

Omitted == -1

\* base is not stored by the program: the version the author started from.
Stored == [upd : Nat, deleted : BOOLEAN, base : Nat]
Absent == [upd |-> 0, deleted |-> FALSE, base |-> 0]

\* An item of the request: the updated_at it carries, the version it was made
\* from (not sent) and whether it deletes the item.
Edit == [upd : Int, base : Nat, deleted : BOOLEAN]
NoEdit == [upd |-> 0, base |-> 0, deleted |-> FALSE]

\* An item of the response.
Shown == [id : Item, upd : Nat, deleted : BOOLEAN]

Copy == [upd : Nat, deleted : BOOLEAN]
NoCopy == [upd |-> 0, deleted |-> FALSE]

Phase == {"idle", "get", "save", "stamp", "commit", "panicked"}

Request == [phase : Phase, api : Api \cup {"none"}, limit : Nat,
            batch : [Item -> Edit], todo : SUBSET Item, at : SUBSET Item,
            stamp : Nat, retrieved : SUBSET Shown, next : Nat,
            saved : SUBSET Shown, conflicts : SUBSET Shown]

Idle == [phase |-> "idle", api |-> "none", limit |-> 0,
         batch |-> [i \in Item |-> NoEdit], todo |-> {}, at |-> {},
         stamp |-> 0, retrieved |-> {}, next |-> 0,
         saved |-> {}, conflicts |-> {}]

-----------------------------------------------------------------------------
(* The decisions of the service.                                           *)

Show(i, v) == [id |-> i, upd |-> v.upd, deleted |-> v.deleted]

Distance(s, t) == IF s > t THEN s - t ELSE t - s

\* Variants a mistake in the code would give, for showing that the properties
\* below depend on it; no specification uses them.
MatchesHidingDeleted(tok, cur, v) ==
  /\ v.upd # 0 /\ ~v.deleted
  /\ IF cur # 0 THEN v.upd >= cur ELSE v.upd > tok

AdmitsAnyOlder(api, edit, found) ==
  \/ api = "20161215"
  \/ found.upd = 0
  \/ edit.upd # Omitted /\ edit.upd - found.upd < ConflictInterval

AdmitsEqualOnly(api, edit, found) ==
  api = "20161215" \/ found.upd = 0 \/ edit.upd = found.upd

UnsavedSigned(r) ==
  {v \in r.retrieved : \E s \in r.saved :
     s.id = v.id /\ v.upd - s.upd > ConflictInterval16}

SyncTokenOfSavedOnly(r, now) ==
  (IF r.saved = {} THEN -2 ELSE Max({s.upd : s \in r.saved})) + 1

SyncTokenUnshifted(r, now) ==
  IF r.saved = {} THEN now ELSE Max({s.upd : s \in r.saved})

SignatureOfAll(store) == {store[i].upd : i \in {j \in Item : store[j].upd # 0}}

\* get(): a cursor takes precedence and compares with >=, a sync token with >;
\* without either, deleted items are left out.
Matches(tok, cur, v) ==
  /\ v.upd # 0
  /\ IF cur # 0 THEN v.upd >= cur
     ELSE IF tok # 0 THEN v.upd > tok ELSE ~v.deleted

\* FindItemsByParams: newest first, cut after the limit.
Pages(items, store, limit) ==
  IF limit = 0 THEN {items}
  ELSE {page \in SUBSET items :
          /\ Cardinality(page) = Min({limit, Cardinality(items)})
          /\ \A i \in page, j \in items \ page : store[i].upd >= store[j].upd}

\* The cursor_token of the response: the oldest item of a page cut short.
NextCursor(items, page, store) ==
  IF page = items THEN 0 ELSE Min({store[i].upd : i \in page})

\* Whether save() goes on to write the edit over the version it found.
Admits(api, edit, found) ==
  \/ api = "20161215"
  \/ found.upd = 0
  \/ edit.upd # Omitted /\ Distance(edit.upd, found.upd) < ConflictInterval

\* checkForConflicts of 20161215: retrieved versions this request overwrote.
Overwritten(r) == {v \in r.retrieved : \E s \in r.saved : s.id = v.id}

Unsaved(r) ==
  {v \in Overwritten(r) : \E s \in r.saved :
     s.id = v.id /\ Distance(s.upd, v.upd) > ConflictInterval16}

\* retrieved_items of the response, without the conflicting ones.
Retrieved(r) ==
  IF r.api = "20161215" THEN r.retrieved \ Overwritten(r)
  ELSE {v \in r.retrieved : \A c \in r.conflicts : c.id # v.id}

\* sync_token: one microsecond after the last save, or after now.
SyncToken(r, now) ==
  (IF r.saved = {} THEN now ELSE Max({s.upd : s \in r.saved})) + 1

\* The items computeDataSignature hashes.
Signature(store) ==
  {store[i].upd : i \in {j \in Item : store[j].upd # 0 /\ ~store[j].deleted}}

-----------------------------------------------------------------------------
(* The devices.                                                            *)

\* A device's copies after it takes over what a response shows it.
Merge(copies, shown) ==
  [i \in Item |-> IF \E v \in shown : v.id = i
                  THEN LET v == CHOOSE w \in shown : w.id = i
                       IN [upd |-> v.upd, deleted |-> v.deleted]
                  ELSE copies[i]]

\* Retrieved items first, then what became of the items sent.
View(copies, r) == Merge(Merge(copies, Retrieved(r)), r.saved \cup r.conflicts)

\* A device edits items it holds and creates those whose UUID it drew.
Editable(d) ==
  {i \in Item : /\ ~known[d][i].deleted
                /\ known[d][i].upd # 0 \/ Creator[i] = d}

\* The edit device d sends for item i, its updated_at rounded or left out.
EditOf(d, i, loss, omit, deleted) ==
  [upd |-> IF omit THEN Omitted
           ELSE IF known[d][i].upd = 0 THEN 0 ELSE known[d][i].upd - loss,
   base |-> known[d][i].upd,
   deleted |-> deleted]

Quiet == \A d \in Device : req[d].phase = "idle"

-----------------------------------------------------------------------------

Init ==
  /\ clock = ConflictInterval
  /\ db = [i \in Item |-> Absent]
  /\ req = [d \in Device |-> Idle]
  /\ known = [d \in Device |-> [i \in Item |-> NoCopy]]
  /\ token = [d \in Device |-> 0]
  /\ cursor = [d \in Device |-> 0]
  /\ hashed = [d \in Device |-> {}]

clients == <<known, token, cursor, hashed>>

\* The request with the edits of the dirty items, of which gone are deletions.
NewRequest(d, api, limit, dirty, gone, loss, omit) ==
  [Idle EXCEPT
    !.phase = "get", !.api = api, !.limit = limit, !.todo = dirty,
    !.batch = [i \in Item |-> IF i \in dirty THEN EditOf(d, i, loss, omit, i \in gone)
                                             ELSE NoEdit]]

\* Device d sends its edits and its tokens.
Submit(d) ==
  /\ req[d].phase = "idle"
  /\ Overlap \/ Quiet
  /\ \E dirty \in SUBSET Editable(d), api \in Api, limit \in Limits,
        loss \in Losses, omit \in {FALSE, OmitUpdatedAt} :
       /\ clock < MaxClock \/ dirty = {}
       /\ \E gone \in SUBSET dirty :
            req' = [req EXCEPT ![d] = NewRequest(d, api, limit, dirty, gone, loss, omit)]
  /\ UNCHANGED <<clock, db, clients>>

\* get(): without a sync token the limit is dropped.
Get(d) ==
  LET items == {i \in Item : Matches(token[d], cursor[d], db[i])}
      limit == IF token[d] = 0 THEN 0 ELSE req[d].limit
  IN /\ req[d].phase = "get"
     /\ \E page \in Pages(items, db, limit) :
          req' = [req EXCEPT ![d] =
            [@ EXCEPT !.phase = "save",
                      !.retrieved = {Show(i, db[i]) : i \in page},
                      !.next = NextCursor(items, page, db)]]
     /\ UNCHANGED <<clock, db, clients>>

\* save(): the next item is found acceptable (20161215 does not look).
Accept(d, i) ==
  /\ req[d].phase = "save" /\ i \in req[d].todo
  /\ Admits(req[d].api, req[d].batch[i], db[i])
  /\ req' = [req EXCEPT ![d] = [@ EXCEPT !.phase = "stamp", !.at = {i}]]
  /\ UNCHANGED <<clock, db, clients>>

\* save() of 20190520: the item found differs too much, and is returned.
Conflict(d, i) ==
  /\ req[d].phase = "save" /\ i \in req[d].todo
  /\ ~Admits(req[d].api, req[d].batch[i], db[i])
  /\ req[d].batch[i].upd # Omitted
  /\ LET r == req[d] IN
     req' = [req EXCEPT ![d] =
       [r EXCEPT !.todo = r.todo \ {i}, !.conflicts = r.conflicts \cup {Show(i, db[i])}]]
  /\ UNCHANGED <<clock, db, clients>>

\* save() of 20190520: the item exists and the edit has no updated_at, whose
\* nil pointer is dereferenced.
Panic(d, i) ==
  /\ req[d].phase = "save" /\ i \in req[d].todo
  /\ ~Admits(req[d].api, req[d].batch[i], db[i])
  /\ req[d].batch[i].upd = Omitted
  /\ req' = [req EXCEPT ![d] = [@ EXCEPT !.phase = "panicked"]]
  /\ UNCHANGED <<clock, db, clients>>

\* The Recover middleware answers 500: the client learns nothing.
Recover(d) ==
  /\ req[d].phase = "panicked"
  /\ req' = [req EXCEPT ![d] = Idle]
  /\ UNCHANGED <<clock, db, clients>>

\* Save reads the clock ...
Stamp(d) ==
  /\ req[d].phase = "stamp"
  /\ \E step \in Steps : clock' = clock + step
  /\ req' = [req EXCEPT ![d] = [@ EXCEPT !.phase = "commit", !.stamp = clock']]
  /\ UNCHANGED <<db, clients>>

\* ... and upserts the item in a transaction.
Commit(d, i) ==
  LET r == req[d]
      edit == r.batch[i]
      version == [upd |-> r.stamp, deleted |-> edit.deleted, base |-> edit.base]
  IN /\ r.phase = "commit" /\ i \in r.at
     /\ db' = [db EXCEPT ![i] = version]
     /\ req' = [req EXCEPT ![d] =
          [r EXCEPT !.phase = "save", !.at = {}, !.todo = r.todo \ {i},
                    !.saved = r.saved \cup {Show(i, version)}]]
     /\ UNCHANGED <<clock, clients>>

\* FindItemByUserID or Save fails: the item is listed as not saved and the
\* loop goes on.
SkipFailed(d, i) ==
  /\ Faulty
  /\ \/ req[d].phase = "save" /\ i \in req[d].todo /\ req[d].api = "20190520"
     \/ req[d].phase = "commit" /\ i \in req[d].at
  /\ LET r == req[d] IN
     req' = [req EXCEPT ![d] =
       [r EXCEPT !.phase = "save", !.at = {}, !.todo = r.todo \ {i}]]
  /\ UNCHANGED <<clock, db, clients>>

\* The rest of Execute, and the client taking over the response.
Finish(d) ==
  LET r == req[d]
  IN /\ r.phase = "save" /\ r.todo = {}
     /\ known' = [known EXCEPT ![d] = View(@, r)]
     /\ token' = [token EXCEPT ![d] = SyncToken(r, clock)]
     /\ cursor' = [cursor EXCEPT ![d] = r.next]
     /\ hashed' = [hashed EXCEPT ![d] = Signature(db)]
     /\ req' = [req EXCEPT ![d] = Idle]
     /\ UNCHANGED <<clock, db>>

\* Execute fails in get() or computeDataSignature, or its response is lost.
Fail(d) ==
  /\ Faulty
  /\ req[d].phase = "get" \/ (req[d].phase = "save" /\ req[d].todo = {})
  /\ req' = [req EXCEPT ![d] = Idle]
  /\ UNCHANGED <<clock, db, clients>>

\* The server stops: every request in progress is gone.
Crash ==
  /\ Faulty /\ ~Quiet
  /\ req' = [d \in Device |-> Idle]
  /\ UNCHANGED <<clock, db, clients>>

Serve(d) ==
  \/ Get(d) \/ Recover(d) \/ Stamp(d) \/ Finish(d)
  \/ \E i \in Item : Accept(d, i) \/ Conflict(d, i) \/ Panic(d, i) \/ Commit(d, i)

Failure == Crash \/ \E d \in Device : Fail(d) \/ \E i \in Item : SkipFailed(d, i)

Next == Failure \/ \E d \in Device : Submit(d) \/ Serve(d)

Spec == Init /\ [][Next]_vars

\* Handlers run to their end, and every client keeps synchronizing.
Fairness == \A d \in Device : WF_vars(Serve(d)) /\ SF_vars(Submit(d))

FairSpec == Spec /\ Fairness

-----------------------------------------------------------------------------
(* Properties.                                                             *)

\* Every variable keeps the shape its comment gives it.
TypeOK ==
  /\ clock \in Nat
  /\ db \in [Item -> Stored]
  /\ req \in [Device -> Request]
  /\ known \in [Device -> [Item -> Copy]]
  /\ token \in [Device -> Nat] /\ cursor \in [Device -> Nat]
  /\ hashed \in [Device -> SUBSET Nat]

\* A client that has got its last page and waits holds, of every item, the
\* version stored now or one its next sync will replace: no version written by
\* another device falls between two of its syncs (get, save, sync_token).  A
\* first sync does not show deleted items.
NothingMissed ==
  \A d \in Device, i \in Item :
    (req[d].phase = "idle" /\ token[d] # 0 /\ cursor[d] = 0) =>
      \/ known[d][i] = [upd |-> db[i].upd, deleted |-> db[i].deleted]
      \/ db[i].upd > token[d]
      \/ known[d][i] = NoCopy /\ db[i].deleted

\* In every response the sync token is past all that the response shows as
\* retrieved or saved, so that the next sync returns none of it again
\* (SyncToken against the interleaving of get with other requests' stamps).
TokenCoversResponse ==
  \A d \in Device :
    req[d].phase = "save" =>
      \A v \in req[d].retrieved \cup req[d].saved : v.upd < SyncToken(req[d], clock)

\* A conflict is reported only to a client that does not hold the version it
\* conflicts with: rounding updated_at within the interval is forgiven.
NoSpuriousConflict ==
  \A d \in Device : \A c \in req[d].conflicts : req[d].batch[c.id].base # c.upd

\* The inductive invariant behind the last two.  All that a response shows was
\* stamped by now; what the request saved, or has stamped to save, is stamped
\* later than what it retrieved before, and saved items have a latest one.
InOrder(r, now) ==
  /\ r.phase = "get" => r.saved = {}
  /\ \A v \in r.retrieved \cup r.saved : v.upd <= now
  /\ \A v \in r.retrieved, s \in r.saved : v.upd < s.upd
  /\ r.saved # {} => \E m \in r.saved : \A s \in r.saved : m.upd >= s.upd
  /\ r.phase = "commit" =>
       /\ r.stamp <= now
       /\ \A v \in r.retrieved \cup r.saved : v.upd < r.stamp

StampsOrdered ==
  /\ \A i \in Item : db[i].upd <= clock
  /\ \A d \in Device : InOrder(req[d], clock)

\* An edit carries updated_at of the version it was made from, rounded by less
\* than the interval; a conflicting version is at least the interval away.
Founded(r) ==
  /\ \A i \in Item :
       r.batch[i].upd # Omitted => /\ r.batch[i].upd <= r.batch[i].base
                                   /\ r.batch[i].base - r.batch[i].upd < ConflictInterval
  /\ \A c \in r.conflicts : /\ r.batch[c.id].upd # Omitted
                            /\ Distance(r.batch[c.id].upd, c.upd) >= ConflictInterval

ConflictsFounded == \A d \in Device : Founded(req[d])

\* Each write replaces the version its author held: the abstract registers.
Register == INSTANCE ItemRegister
              WITH store <- [i \in Item |-> [upd |-> db[i].upd, base |-> db[i].base]]

RegisterSpec == Register!Spec

\* Once the edits stop, nothing fails any more and no client leaves updated_at
\* out of an item that exists, every device ends up holding what is stored (a
\* first sync does not show deleted items).  A step that the
\* server takes too when all is well, such as a Finish that changes nothing for
\* its client, is no failure.
Converges ==
  <>[][/\ Failure => \E d \in Device : Serve(d)
       /\ \A d \in Device, i \in Item : ~Panic(d, i)]_vars =>
    <>[](\A d \in Device, i \in Item :
           \/ known[d][i] = [upd |-> db[i].upd, deleted |-> db[i].deleted]
           \/ known[d][i] = NoCopy /\ db[i].deleted)

=============================================================================

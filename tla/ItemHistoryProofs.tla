-------------------------- MODULE ItemHistoryProofs --------------------------
(***************************************************************************)
(* What holds of the items however the requests of the devices interleave  *)
(* and whichever fail, for any number of items and devices.                *)
(*                                                                         *)
(* First, an item is a register whose writes replace what their author     *)
(* held until one of its saves is overtaken, does not look, or follows the *)
(* version it replaces within minConflictInterval.                         *)
(*                                                                         *)
(* Second, in both protocol versions, the only versions a device misses    *)
(* are those in its gaps, the integrity hash differs from what it holds    *)
(* for no other reason, and nothing else is overwritten without a word,    *)
(* where no two saves are in one microsecond.                              *)
(***************************************************************************)
EXTENDS ItemSyncProofs, ItemHistory

\* What request r shows and is still to save is spaced from what is stored of
\* the items that are not lost; at an item nobody overtook it at, save() found
\* the version the edit was made from.
Tight(r, store, gone, over) ==
  /\ \A v \in r.retrieved \cup r.saved \cup r.conflicts :
       v.id \notin gone => Spaced(v.upd, store[v.id].upd)
  /\ \A i \in r.todo \ gone : Spaced(r.batch[i].base, store[i].upd)
  /\ (~over /\ r.api # "20161215") =>
       \A i \in r.at \ gone : r.batch[i].base = store[i].upd
  /\ r.phase = "idle" => r = Idle

TightInv ==
  /\ \A d \in Device, i \in Item \ lost : Spaced(known[d][i].upd, db[i].upd)
  /\ \A d \in Device : Tight(req[d], db, lost, d \in overtaken)

\* A step of the specification with history is one of ItemSync.
LEMMA HistoryStep ==
  [HistoryNext]_<<vars, history>> => [Next]_vars
BY DEF HistoryNext, vars, history

\* Nothing is overtaken or lost where nothing is stored; a device that is not
\* at an item is not overtaken.
LEMMA NothingStored ==
  ASSUME Track, UNCHANGED db
  PROVE  lost' = lost /\ \A d \in Device : d \in overtaken' => d \in overtaken
BY DEF Track, Changed

\* No request, no claim.
LEMMA IdleTight == \A store, gone, over : Tight(Idle, store, gone, over)
BY DEF Tight, Idle

\* Without a store, only the request of one device is to be looked at.
LEMMA TightKept ==
  ASSUME TightInv, NEW d \in Device, OnlyRequestOf(d, req'[d]),
         UNCHANGED <<db, known>>, Track, Tight(req'[d], db, lost, d \in overtaken)
  PROVE  TightInv'
<1>1. \A e \in Device \ {d} : req'[e] = req[e]
  BY DEF OnlyRequestOf
<1>2. /\ lost' = lost
      /\ \A e \in Device : e \in overtaken /\ req'[e].at # {} => e \in overtaken'
  BY DEF Track, Changed
<1>3. \A e \in Device : Tight(req'[e], db, lost, e \in overtaken)
  BY <1>1 DEF TightInv
<1>4. ASSUME NEW e \in Device
      PROVE  Tight(req'[e], db, lost, e \in overtaken')
  <2>1. CASE req'[e].at = {}
    BY <1>3, <2>1 DEF Tight
  <2>2. CASE req'[e].at # {}
    BY <1>2, <1>3, <2>2 DEF Tight
  <2> QED BY <2>1, <2>2
<1> QED BY <1>2, <1>4 DEF TightInv

\* Copies that are spaced, apart from lost items, stay so when spaced versions
\* are taken over.
LEMMA MergeTight ==
  ASSUME NEW copies, NEW shown,
         \A i \in Item \ lost : Spaced(copies[i].upd, db[i].upd),
         \A v \in shown : v.id \notin lost => Spaced(v.upd, db[v.id].upd)
  PROVE  \A i \in Item \ lost : Spaced(Merge(copies, shown)[i].upd, db[i].upd)
<1> SUFFICES ASSUME NEW i \in Item \ lost
             PROVE  Spaced(Merge(copies, shown)[i].upd, db[i].upd)
  OBVIOUS
<1>1. CASE \E v \in shown : v.id = i
  <2> DEFINE w == CHOOSE v \in shown : v.id = i
  <2>1. w \in shown /\ w.id = i
    BY <1>1
  <2>2. Merge(copies, shown)[i].upd = w.upd
    BY <1>1 DEF Merge
  <2> HIDE DEF w
  <2> QED BY <2>1, <2>2
<1>2. CASE ~ \E v \in shown : v.id = i
  BY <1>2 DEF Merge
<1> QED BY <1>1, <1>2

\* A save that is not given up is the interval later than what it replaces.
LEMMA CommitTight ==
  ASSUME TypeOK, TightInv, Track, NEW d \in Device, NEW i \in Item, Commit(d, i)
  PROVE  TightInv'
<1> DEFINE old == req[d]
           version == [upd |-> old.stamp, deleted |-> old.batch[i].deleted,
                       base |-> old.batch[i].base]
           shown == Show(i, version)
           r == [old EXCEPT !.phase = "save", !.at = {}, !.todo = old.todo \ {i},
                            !.saved = old.saved \cup {shown}]
<1>1. /\ old \in Request /\ Tight(old, db, lost, d \in overtaken)
      /\ old.phase = "commit" /\ i \in old.at
  BY DEF TypeOK, TightInv, Commit
<1>2. /\ req' = [req EXCEPT ![d] = r]
      /\ db' = [db EXCEPT ![i] = version]
      /\ UNCHANGED known
  BY DEF Commit, clients
<1>3. /\ r.phase = "save" /\ r.api = old.api /\ r.at = {} /\ r.todo = old.todo \ {i}
      /\ r.batch = old.batch /\ r.retrieved = old.retrieved
      /\ r.saved = old.saved \cup {shown} /\ r.conflicts = old.conflicts
  BY <1>1 DEF Request
<1>4. shown.id = i /\ shown.upd = old.stamp /\ version.upd = old.stamp /\ old.stamp \in Nat
  BY <1>1 DEF Show, Request
<1>5. req'[d] = r /\ \A e \in Device \ {d} : req'[e] = req[e]
  BY <1>2 DEF TypeOK
<1> HIDE DEF old, version, shown, r
<1>6. /\ db'[i] = version
      /\ \A j \in Item \ {i} : db'[j] = db[j]
      /\ Changed \subseteq {i}
      /\ \A j \in Item \ Changed : db'[j] = db[j]
  BY <1>2 DEF TypeOK, Changed
<1>7. lost \subseteq lost'
  BY DEF Track
<1>8. i \in Changed /\ i \notin lost' => db[i].upd + ConflictInterval <= old.stamp
  <2>1. db[i].upd \in Nat
    BY DEF TypeOK, Stored
  <2>2. i \in Changed /\ i \notin lost' => ~(db[i].upd + ConflictInterval > old.stamp)
    BY <1>1, <1>3, <1>5 DEF Track, old
  <2> QED BY <1>4, <2>1, <2>2, IntervalAssumption
<1>9. ASSUME NEW u \in Nat, NEW j \in Item \ lost', Spaced(u, db[j].upd)
      PROVE  Spaced(u, db'[j].upd)
  <2>1. CASE j \notin Changed
    BY <1>6, <1>9, <2>1
  <2>2. CASE j \in Changed
    <3>1. j = i /\ i \notin lost
      BY <1>6, <1>7, <2>2
    <3>2. db[i].upd + ConflictInterval <= old.stamp
      BY <1>8, <1>9, <2>2, <3>1
    <3>3. db[i].upd \in Nat
      BY DEF TypeOK, Stored
    <3> QED BY <1>4, <1>6, <1>9, <3>1, <3>2, <3>3, SpacedOn
  <2> QED BY <2>1, <2>2
<1>10. \A e \in Device, j \in Item \ lost' : Spaced(known'[e][j].upd, db'[j].upd)
  <2>1. \A e \in Device, j \in Item : known[e][j].upd \in Nat
    BY DEF TypeOK, Copy
  <2>2. \A e \in Device, j \in Item \ lost' : Spaced(known[e][j].upd, db[j].upd)
    BY <1>7 DEF TightInv
  <2> QED BY <1>2, <1>9, <2>1, <2>2
<1>11. Tight(r, db', lost', d \in overtaken')
  <2>1. ASSUME NEW v \in r.retrieved \cup r.saved \cup r.conflicts, v.id \notin lost'
        PROVE  Spaced(v.upd, db'[v.id].upd)
    <3>1. CASE v = shown
      BY <1>4, <1>6, <3>1 DEF Spaced
    <3>2. CASE v # shown
      <4>1. v \in old.retrieved \cup old.saved \cup old.conflicts
        BY <1>3, <2>1, <3>2
      <4>2. v.upd \in Nat /\ v.id \in Item \ lost' /\ v.id \notin lost
        BY <1>1, <1>7, <2>1, <4>1 DEF Request, Shown
      <4>3. Spaced(v.upd, db[v.id].upd)
        BY <1>1, <4>1, <4>2 DEF Tight
      <4> QED BY <1>9, <4>2, <4>3
    <3> QED BY <3>1, <3>2
  <2>2. ASSUME NEW j \in r.todo \ lost' PROVE Spaced(r.batch[j].base, db'[j].upd)
    <3>1. j \in old.todo \ lost /\ j # i /\ j \in Item
      BY <1>1, <1>3, <1>7 DEF Request
    <3> QED BY <1>1, <1>3, <1>6, <3>1 DEF Tight
  <2> QED BY <1>3, <2>1, <2>2 DEF Tight
<1>12. ASSUME NEW e \in Device \ {d} PROVE Tight(req[e], db', lost', e \in overtaken')
  <2>1. req[e] \in Request /\ Tight(req[e], db, lost, e \in overtaken) /\ req'[e] = req[e]
    BY <1>5 DEF TypeOK, TightInv
  <2>2. ASSUME NEW v \in req[e].retrieved \cup req[e].saved \cup req[e].conflicts,
               v.id \notin lost'
        PROVE  Spaced(v.upd, db'[v.id].upd)
    <3>1. v.upd \in Nat /\ v.id \in Item \ lost' /\ v.id \notin lost
      BY <1>7, <2>1, <2>2 DEF Request, Shown
    <3>2. Spaced(v.upd, db[v.id].upd)
      BY <2>1, <2>2, <3>1 DEF Tight
    <3> QED BY <1>9, <3>1, <3>2
  <2>3. ASSUME NEW j \in req[e].todo \ lost' PROVE Spaced(req[e].batch[j].base, db'[j].upd)
    <3>1. j \in Item \ lost' /\ j \notin lost /\ req[e].batch[j].base \in Nat
      BY <1>7, <2>1 DEF Request, Edit
    <3>2. Spaced(req[e].batch[j].base, db[j].upd)
      BY <2>1, <3>1 DEF Tight
    <3> QED BY <1>9, <3>1, <3>2
  <2>4. ASSUME e \notin overtaken', req[e].api # "20161215", NEW j \in req[e].at \ lost'
        PROVE  req[e].batch[j].base = db'[j].upd
    <3>1. e \notin overtaken /\ j \notin Changed
      BY <2>1, <2>4 DEF Track
    <3>2. j \in Item /\ j \notin lost
      BY <1>7, <2>1 DEF Request
    <3> QED BY <1>6, <2>1, <2>4, <3>1, <3>2 DEF Tight
  <2> QED BY <2>1, <2>2, <2>3, <2>4 DEF Tight
<1> QED BY <1>5, <1>10, <1>11, <1>12 DEF TightInv

\* Every step keeps what is held and shown spaced: one step per action.
LEMMA TightStep ==
  /\ TypeOK /\ StampsOrdered /\ ConflictsFounded /\ TightInv
  /\ [HistoryNext]_<<vars, history>>
  => TightInv'
<1> SUFFICES ASSUME TypeOK, StampsOrdered, ConflictsFounded, TightInv,
                    [HistoryNext]_<<vars, history>>
             PROVE  TightInv'
  OBVIOUS
<1>0. /\ req \in [Device -> Request] /\ known \in [Device -> [Item -> Copy]]
      /\ db \in [Item -> Stored] /\ clock \in Nat
      /\ \A d \in Device : /\ req[d] \in Request /\ Founded(req[d])
                           /\ Tight(req[d], db, lost, d \in overtaken)
  BY DEF TypeOK, TightInv, ConflictsFounded
<1> SUFFICES ASSUME Next, Track PROVE TightInv'
  BY DEF HistoryNext, vars, history, TightInv
<1>1. ASSUME NEW d \in Device, Submit(d) PROVE TightInv'
  <2>1. PICK dirty \in SUBSET Item, api \in Api, limit \in Limits, loss \in Losses,
             omit \in BOOLEAN : \E gone \in SUBSET dirty :
          req' = [req EXCEPT ![d] = NewRequest(d, api, limit, dirty, gone, loss, omit)]
    BY <1>1, SubmitSends
  <2>2. PICK gone \in SUBSET dirty :
          req' = [req EXCEPT ![d] = NewRequest(d, api, limit, dirty, gone, loss, omit)]
    BY <2>1
  <2> DEFINE r == NewRequest(d, api, limit, dirty, gone, loss, omit)
  <2>3. /\ r.phase = "get" /\ r.todo = dirty /\ r.at = {}
        /\ r.retrieved = {} /\ r.saved = {} /\ r.conflicts = {}
        /\ r.batch = [i \in Item |-> IF i \in dirty THEN EditOf(d, i, loss, omit, i \in gone)
                                                    ELSE NoEdit]
    BY DEF NewRequest, Idle
  <2> HIDE DEF r
  <2>4. \A i \in dirty : r.batch[i].base = known[d][i].upd
    BY <2>3 DEF EditOf
  <2>5. Tight(r, db, lost, d \in overtaken)
    BY <2>3, <2>4 DEF Tight, TightInv
  <2>6. OnlyRequestOf(d, req'[d]) /\ req'[d] = r /\ UNCHANGED <<db, known>>
    BY <1>0, <1>1, <2>2 DEF Submit, clients, OnlyRequestOf, r
  <2> QED BY <2>5, <2>6, TightKept
<1>2. ASSUME NEW d \in Device, Get(d) PROVE TightInv'
  <2>1. PICK page \in SUBSET Item, next \in Nat :
          req' = [req EXCEPT ![d] =
            [@ EXCEPT !.phase = "save", !.retrieved = {Show(i, db[i]) : i \in page},
                      !.next = next]]
    BY <1>2, GetShows
  <2>2. OnlyRequestOf(d, req'[d]) /\ UNCHANGED <<db, known>> /\ req[d].phase = "get"
    BY <1>0, <1>2, <2>1 DEF Get, clients, OnlyRequestOf
  <2>3. /\ req'[d].phase = "save" /\ req'[d].retrieved = {Show(i, db[i]) : i \in page}
        /\ req'[d].saved = req[d].saved /\ req'[d].conflicts = req[d].conflicts
        /\ req'[d].todo = req[d].todo /\ req'[d].at = req[d].at
        /\ req'[d].batch = req[d].batch /\ req'[d].api = req[d].api
    BY <1>0, <2>1 DEF Request
  <2>4. \A v \in req'[d].retrieved : Spaced(v.upd, db[v.id].upd)
    BY <2>3 DEF Show, Spaced
  <2>5. Tight(req'[d], db, lost, d \in overtaken)
    BY <1>0, <2>2, <2>3, <2>4 DEF Tight
  <2> QED BY <2>2, <2>5, TightKept
<1>3. ASSUME NEW d \in Device, NEW i \in Item, Accept(d, i) PROVE TightInv'
  <2>1. /\ i \in req[d].todo /\ Admits(req[d].api, req[d].batch[i], db[i])
        /\ OnlyRequestOf(d, req'[d]) /\ UNCHANGED <<db, known>>
        /\ req' = [req EXCEPT ![d] = [req[d] EXCEPT !.phase = "stamp", !.at = {i}]]
    BY <1>0, <1>3 DEF Accept, clients, OnlyRequestOf
  <2>2. /\ req[d].batch[i] \in Edit /\ db[i] \in Stored
        /\ req[d].batch[i].upd # Omitted =>
             /\ req[d].batch[i].upd <= req[d].batch[i].base
             /\ req[d].batch[i].base - req[d].batch[i].upd < ConflictInterval
    BY <1>0 DEF Request, Founded
  <2>3. req[d].api # "20161215" /\ i \notin lost => req[d].batch[i].base = db[i].upd
    <3>1. i \notin lost => Spaced(req[d].batch[i].base, db[i].upd)
      BY <1>0, <2>1 DEF Tight
    <3> QED BY <2>1, <2>2, <3>1, AdmitsCurrent
  <2>4. /\ req'[d].phase = "stamp" /\ req'[d].at = {i}
        /\ req'[d].retrieved = req[d].retrieved
        /\ req'[d].saved = req[d].saved /\ req'[d].conflicts = req[d].conflicts
        /\ req'[d].todo = req[d].todo
        /\ req'[d].batch = req[d].batch /\ req'[d].api = req[d].api
    BY <1>0, <2>1 DEF Request
  <2>5. Tight(req'[d], db, lost, d \in overtaken)
    BY <1>0, <2>3, <2>4 DEF Tight
  <2> QED BY <2>1, <2>5, TightKept
<1>4. ASSUME NEW d \in Device, NEW i \in Item, Conflict(d, i) PROVE TightInv'
  <2>1. /\ OnlyRequestOf(d, req'[d]) /\ UNCHANGED <<db, known>>
        /\ req' = [req EXCEPT ![d] =
             [req[d] EXCEPT !.todo = req[d].todo \ {i},
                            !.conflicts = req[d].conflicts \cup {Show(i, db[i])}]]
        /\ req[d].phase = "save"
    BY <1>0, <1>4 DEF Conflict, clients, OnlyRequestOf
  <2>2. /\ req'[d].phase = "save" /\ req'[d].at = req[d].at
        /\ req'[d].retrieved = req[d].retrieved /\ req'[d].saved = req[d].saved
        /\ req'[d].conflicts = req[d].conflicts \cup {Show(i, db[i])}
        /\ req'[d].todo = req[d].todo \ {i}
        /\ req'[d].batch = req[d].batch /\ req'[d].api = req[d].api
    BY <1>0, <2>1 DEF Request
  <2>3. Show(i, db[i]).id = i /\ Spaced(Show(i, db[i]).upd, db[i].upd)
    BY DEF Show, Spaced
  <2>4. Tight(req'[d], db, lost, d \in overtaken)
    BY <1>0, <2>2, <2>3 DEF Tight
  <2> QED BY <2>1, <2>4, TightKept
<1>5. ASSUME NEW d \in Device, NEW i \in Item, Panic(d, i) PROVE TightInv'
  <2>1. /\ OnlyRequestOf(d, req'[d]) /\ UNCHANGED <<db, known>>
        /\ req' = [req EXCEPT ![d] = [req[d] EXCEPT !.phase = "panicked"]]
    BY <1>0, <1>5 DEF Panic, clients, OnlyRequestOf
  <2>2. /\ req'[d].phase = "panicked" /\ req'[d].at = req[d].at
        /\ req'[d].retrieved = req[d].retrieved /\ req'[d].saved = req[d].saved
        /\ req'[d].conflicts = req[d].conflicts /\ req'[d].todo = req[d].todo
        /\ req'[d].batch = req[d].batch /\ req'[d].api = req[d].api
    BY <1>0, <2>1 DEF Request
  <2>3. Tight(req'[d], db, lost, d \in overtaken)
    BY <1>0, <1>5, <2>2 DEF Tight, Panic
  <2> QED BY <2>1, <2>3, TightKept
<1>6. ASSUME NEW d \in Device, Recover(d) \/ Fail(d) PROVE TightInv'
  <2>1. OnlyRequestOf(d, req'[d]) /\ UNCHANGED <<db, known>> /\ req'[d] = Idle
    BY <1>0, <1>6 DEF Recover, Fail, clients, OnlyRequestOf
  <2> QED BY <2>1, IdleTight, TightKept
<1>7. ASSUME NEW d \in Device, Stamp(d) PROVE TightInv'
  <2>1. /\ OnlyRequestOf(d, req'[d]) /\ UNCHANGED <<db, known>>
        /\ req' = [req EXCEPT ![d] = [req[d] EXCEPT !.phase = "commit", !.stamp = clock']]
    BY <1>0, <1>7 DEF Stamp, clients, OnlyRequestOf
  <2>2. /\ req'[d].phase = "commit" /\ req'[d].stamp = clock' /\ req'[d].at = req[d].at
        /\ req'[d].retrieved = req[d].retrieved /\ req'[d].saved = req[d].saved
        /\ req'[d].conflicts = req[d].conflicts /\ req'[d].todo = req[d].todo
        /\ req'[d].batch = req[d].batch /\ req'[d].api = req[d].api
        /\ req[d].at \subseteq Item
    BY <1>0, <2>1 DEF Request
  <2>3. Tight(req'[d], db, lost, d \in overtaken)
    BY <1>0, <1>7, <2>2 DEF Tight, Stamp
  <2> QED BY <2>1, <2>3, TightKept
<1>8. ASSUME NEW d \in Device, NEW i \in Item, SkipFailed(d, i) PROVE TightInv'
  <2>1. /\ OnlyRequestOf(d, req'[d]) /\ UNCHANGED <<db, known>>
        /\ req' = [req EXCEPT ![d] =
             [req[d] EXCEPT !.phase = "save", !.at = {}, !.todo = req[d].todo \ {i}]]
    BY <1>0, <1>8 DEF SkipFailed, clients, OnlyRequestOf
  <2>2. /\ req'[d].phase = "save" /\ req'[d].at = {}
        /\ req'[d].retrieved = req[d].retrieved /\ req'[d].saved = req[d].saved
        /\ req'[d].conflicts = req[d].conflicts /\ req'[d].todo = req[d].todo \ {i}
        /\ req'[d].batch = req[d].batch /\ req'[d].api = req[d].api
    BY <1>0, <2>1 DEF Request
  <2>3. Tight(req'[d], db, lost, d \in overtaken)
    BY <1>0, <2>2 DEF Tight
  <2> QED BY <2>1, <2>3, TightKept
<1>9. ASSUME NEW d \in Device, Finish(d) PROVE TightInv'
  <2> DEFINE r == req[d]
  <2>1. /\ OnlyRequestOf(d, Idle) /\ UNCHANGED db
        /\ known' = [known EXCEPT ![d] = View(known[d], r)]
    BY <1>0, <1>9 DEF Finish, OnlyRequestOf
  <2>2. lost' = lost /\ \A e \in Device \ {d} : Tight(req'[e], db, lost, e \in overtaken')
    <3>1. lost' = lost /\ \A e \in Device : e \in overtaken /\ req'[e].at # {} => e \in overtaken'
      BY <2>1 DEF Track, Changed
    <3>2. ASSUME NEW e \in Device \ {d} PROVE Tight(req'[e], db, lost, e \in overtaken')
      <4>1. req'[e] = req[e] /\ Tight(req[e], db, lost, e \in overtaken)
        BY <1>0, <2>1 DEF OnlyRequestOf
      <4>2. CASE req[e].at = {}
        BY <4>1, <4>2 DEF Tight
      <4>3. CASE req[e].at # {}
        BY <3>1, <4>1, <4>3 DEF Tight
      <4> QED BY <4>2, <4>3
    <3> QED BY <3>1, <3>2
  <2>3. /\ \A v \in Retrieved(r) : v.id \notin lost => Spaced(v.upd, db[v.id].upd)
        /\ \A v \in r.saved \cup r.conflicts : v.id \notin lost => Spaced(v.upd, db[v.id].upd)
    BY <1>0 DEF Retrieved, Tight
  <2> HIDE DEF r
  <2>4. \A i \in Item \ lost : Spaced(Merge(known[d], Retrieved(r))[i].upd, db[i].upd)
    BY <2>3, MergeTight DEF TightInv
  <2>5. \A i \in Item \ lost : Spaced(View(known[d], r)[i].upd, db[i].upd)
    BY <2>3, <2>4, MergeTight DEF View
  <2>6. \A e \in Device, i \in Item \ lost' : Spaced(known'[e][i].upd, db'[i].upd)
    BY <1>0, <2>1, <2>2, <2>5 DEF TightInv
  <2>7. \A e \in Device : Tight(req'[e], db', lost', e \in overtaken')
    BY <2>1, <2>2, IdleTight DEF OnlyRequestOf
  <2> QED BY <2>6, <2>7 DEF TightInv
<1>10. ASSUME Crash PROVE TightInv'
  <2>1. (\A e \in Device : req'[e] = Idle) /\ UNCHANGED <<db, known>>
    BY <1>10 DEF Crash, clients
  <2> QED BY <2>1, IdleTight, NothingStored DEF TightInv
<1>11. ASSUME NEW d \in Device, NEW i \in Item, Commit(d, i) PROVE TightInv'
  BY <1>11, CommitTight
<1> QED
  BY <1>1, <1>2, <1>3, <1>4, <1>5, <1>6, <1>7, <1>8, <1>9, <1>10, <1>11
  DEF Next, Failure, Serve

\* The types, the stamps and the conflicts hold with history as without.
LEMMA HistoryInvariant == HistorySpec => [](TypeOK /\ StampsOrdered /\ ConflictsFounded)
<1>1. HistoryInit => TypeOK /\ StampsOrdered /\ ConflictsFounded
  BY InitTyped, IdleFounded DEF HistoryInit, Init, ConflictsFounded
<1>2. TypeOK /\ StampsOrdered /\ ConflictsFounded /\ [HistoryNext]_<<vars, history>> =>
        (TypeOK /\ StampsOrdered /\ ConflictsFounded)'
  BY HistoryStep, TypeStep, StampsStep, ConflictsStep
<1> QED BY <1>1, <1>2, PTL DEF HistorySpec

\* The registers of the items, those that are lost given up.
Store == [i \in Item |-> IF i \in lost THEN [upd |-> -1, base |-> -1]
                         ELSE [upd |-> db[i].upd, base |-> db[i].base]]

\* A save is a write of the register of its item, or gives it up.
LEMMA CommitWritesOrLoses ==
  ASSUME TypeOK, TightInv, Track, NEW d \in Device, NEW i \in Item, Commit(d, i)
  PROVE  [LostRegister!Next \/ \E j \in Item : LostRegister!Lose(j)]_Store
<1> DEFINE r == req[d]
           version == [upd |-> r.stamp, deleted |-> r.batch[i].deleted,
                       base |-> r.batch[i].base]
<1>1. /\ r \in Request /\ r.phase = "commit" /\ i \in r.at
      /\ Tight(r, db, lost, d \in overtaken)
      /\ db' = [db EXCEPT ![i] = version]
      /\ req'[d].at = {}
  BY DEF Commit, TypeOK, TightInv, Request
<1>2. version.upd = r.stamp /\ version.base = r.batch[i].base /\ r.stamp \in Nat
  BY <1>1 DEF Request
<1> HIDE DEF r, version
<1>3. /\ db'[i] = version /\ \A j \in Item \ {i} : db'[j] = db[j]
      /\ lost \subseteq lost' /\ lost' \subseteq lost \cup Changed /\ Changed \subseteq {i}
  BY <1>1 DEF TypeOK, Track, Changed
<1>4. CASE i \notin lost /\ i \in lost'
  <2>1. Store' = [Store EXCEPT ![i] = [upd |-> -1, base |-> -1]]
    BY <1>3, <1>4 DEF Store
  <2> QED BY <2>1 DEF Store, LostRegister!Lose, LostRegister!Lost
<1>5. CASE i \in lost \/ i \notin Changed
  <2>1. lost' = lost /\ \A j \in Item \ lost : db'[j] = db[j]
    BY <1>3, <1>5 DEF Changed
  <2>2. Store' = Store
    BY <2>1 DEF Store
  <2> QED BY <2>2
<1>6. CASE i \notin lost /\ i \notin lost' /\ i \in Changed
  <2>1. /\ d \notin overtaken /\ r.api # "20161215"
        /\ ~(db[i].upd + ConflictInterval > r.stamp)
    BY <1>1, <1>6 DEF Track, r
  <2>2. r.batch[i].base = db[i].upd
    BY <1>1, <1>6, <2>1 DEF Tight
  <2>3. db[i].upd \in Nat /\ r.stamp > db[i].upd
    <3>1. db[i].upd \in Nat
      BY DEF TypeOK, Stored
    <3> QED BY <1>2, <2>1, <3>1, IntervalAssumption
  <2>4. lost' = lost
    BY <1>3, <1>6
  <2>5. /\ Store[i].upd = db[i].upd /\ Store'[i].upd = r.stamp
        /\ Store' = [Store EXCEPT ![i] = [upd |-> r.stamp, base |-> db[i].upd]]
    BY <1>2, <1>3, <1>6, <2>2, <2>4 DEF Store
  <2>6. Store[i] # [upd |-> -1, base |-> -1]
    BY <2>3, <2>5
  <2>7. /\ Store'[i].upd \in Nat /\ Store'[i].upd > Store[i].upd
        /\ Store' = [Store EXCEPT ![i] = [upd |-> Store'[i].upd, base |-> Store[i].upd]]
    BY <1>2, <2>3, <2>5
  <2> QED
    BY <2>6, <2>7 DEF Store, LostRegister!Next, LostRegister!Write, LostRegister!Lost
<1> QED BY <1>4, <1>5, <1>6

\* For any number of devices and items, in any interleaving and whatever fails,
\* however close the saves: each write of an item replaces the version its author
\* held, until one is overtaken between the look of save() and its Save, comes
\* from a request of 20161215, which does not look, or is stamped less than the
\* interval after the version it replaces.
THEOREM RefinesRegisterUntilLost == HistorySpec => RegisterUntilLost
<1>1. HistoryInit => TightInv
  BY IdleTight DEF HistoryInit, Init, TightInv, Spaced, NoCopy, Absent
<1>2. /\ TypeOK /\ StampsOrdered /\ ConflictsFounded /\ TightInv
      /\ [HistoryNext]_<<vars, history>>
      => TightInv'
  BY TightStep
<1>3. HistoryInit => LostRegister!Init
  BY DEF HistoryInit, Init, Absent, LostRegister!Init
<1>4. TypeOK /\ TightInv /\ [HistoryNext]_<<vars, history>> =>
        [LostRegister!Next \/ \E i \in Item : LostRegister!Lose(i)]_Store
  <2> SUFFICES ASSUME TypeOK, TightInv, [HistoryNext]_<<vars, history>>
               PROVE  [LostRegister!Next \/ \E i \in Item : LostRegister!Lose(i)]_Store
    OBVIOUS
  <2>1. CASE UNCHANGED <<db, lost>>
    BY <2>1 DEF Store
  <2>2. CASE ~UNCHANGED <<db, lost>>
    <3>1. Next /\ Track
      BY <2>2 DEF HistoryNext, vars, history
    <3>2. ~UNCHANGED db
      BY <2>2, <3>1, NothingStored
    <3>3. \E d \in Device, i \in Item : Commit(d, i)
      BY <3>1, <3>2, OnlyCommitStores
    <3> QED BY <3>1, <3>3, CommitWritesOrLoses
  <2> QED BY <2>1, <2>2
<1> QED
  BY <1>1, <1>2, <1>3, <1>4, HistoryInvariant, PTL
  DEF HistorySpec, RegisterUntilLost, LostRegister!LosingSpec, Store

-----------------------------------------------------------------------------
(* What a device misses.                                                   *)

\* More than the microsecond between two saves that a sync token is past the
\* first of them.
Prompt == \A step \in Steps : step >= 2

\* A device holds what is stored, apart from deleted items a first sync leaves out.
Same(copy, v) ==
  \/ copy = [upd |-> v.upd, deleted |-> v.deleted]
  \/ copy = NoCopy /\ v.deleted

\* What device d holds is stored, or its next sync will replace it, but for gaps.
CaughtUp(d) ==
  /\ token[d] = 0 => /\ cursor[d] = 0 /\ gaps[d] = {}
                     /\ \A i \in Item : known[d][i] = NoCopy
  /\ token[d] # 0 => \A i \in Item : \/ i \in gaps[d]
                                     \/ Same(known[d][i], db[i])
                                     \/ Asks(d, db[i].upd)
  /\ token[d] <= clock + 1 /\ cursor[d] <= clock

\* What is stamped and not stored yet will not escape device d, but for gaps.
Awaited(d) ==
  \A e \in Device, i \in Item :
    req[e].phase = "commit" /\ i \in req[e].at => i \in gaps[d] \/ Asks(d, req[e].stamp)

\* What a response tells of each item, but for those in out: of one the request
\* saved or that conflicts, once and for all the version stored; of one it
\* retrieved, that or what became of it; the client holds the rest, but for
\* what it missed.
Told(r, copies, store, out, missed) ==
  /\ \A v \in r.saved \cup r.conflicts :
       v.id \notin r.todo /\ (v.id \in out \/ v = Show(v.id, store[v.id]))
  /\ \A v \in r.retrieved :
       \/ v.id \in out \/ v = Show(v.id, store[v.id])
       \/ \E s \in r.saved \cup r.conflicts : s.id = v.id
  /\ \A i \in Item :
       \/ i \in out \cup missed
       \/ \E v \in r.retrieved \cup r.saved \cup r.conflicts : v.id = i
       \/ Same(copies[i], store[i])

InTouch(r, copies, store, out, missed) ==
  /\ r.phase = "idle" => r = Idle
  /\ r.at \subseteq r.todo
  /\ r.phase = "get" => r.saved = {} /\ r.conflicts = {}
  /\ r.phase \in {"get", "save"} => r.at = {}
  /\ r.phase = "commit" => r.stamp # 0
  /\ r.phase \in {"save", "stamp", "commit"} => Told(r, copies, store, out, missed)
  /\ \A i \in r.todo : r.batch[i].base = copies[i].upd

TouchInv ==
  /\ HashMissesOnlyGaps
  /\ \A i \in Item : db[i].upd = 0 => ~db[i].deleted
  /\ \A d \in Device :
       /\ CaughtUp(d) /\ Awaited(d) /\ req[d].next <= clock
       /\ InTouch(req[d], known[d], db, unseen[d], gaps[d])

\* The sync token is at most one past the clock.
LEMMA SyncTokenBound ==
  ASSUME NEW r \in Request, NEW now \in Nat, InOrder(r, now)
  PROVE  SyncToken(r, now) \in Nat \ {0} /\ SyncToken(r, now) <= now + 1
<1>1. CASE r.saved = {}
  BY <1>1 DEF SyncToken
<1>2. CASE r.saved # {}
  <2> DEFINE times == {s.upd : s \in r.saved}
  <2>1. PICK m \in r.saved : \A s \in r.saved : m.upd >= s.upd
    BY <1>2 DEF InOrder
  <2>2. m.upd \in times /\ \A t \in times : m.upd >= t
    BY <2>1
  <2>3. Max(times) \in times
    BY <2>2 DEF Max
  <2>4. \A t \in times : t \in Nat /\ t <= now
    BY DEF InOrder, Request, Shown
  <2>5. SyncToken(r, now) = Max(times) + 1
    BY <1>2 DEF SyncToken
  <2> HIDE DEF times
  <2> QED BY <2>3, <2>4, <2>5
<1> QED BY <1>1, <1>2

\* The cursor of a page is not past the clock.
LEMMA NextCursorBound ==
  ASSUME NEW items \in SUBSET Item, NEW store \in [Item -> Stored], NEW now \in Nat,
         \A i \in Item : store[i].upd <= now,
         NEW limit \in Nat, NEW page \in Pages(items, store, limit)
  PROVE  NextCursor(items, page, store) <= now
<1> DEFINE times == {store[i].upd : i \in page}
<1>1. page \subseteq items /\ NextCursor(items, page, store) \in Nat
  BY PageType
<1>2. CASE page = items
  BY <1>2 DEF NextCursor
<1>3. CASE page # items /\ page # {}
  <2>1. times \subseteq Nat /\ times # {} /\ \A t \in times : t <= now
    BY <1>1, <1>3 DEF Stored
  <2>2. NextCursor(items, page, store) = Min(times)
    BY <1>3 DEF NextCursor
  <2> HIDE DEF times
  <2> QED BY <2>1, <2>2, MinInNat
<1>4. CASE page # items /\ page = {}
  <2>1. IsFiniteSet(items) /\ limit # 0 /\ Cardinality(page) = Min({limit, Cardinality(items)})
    BY <1>1, <1>4, ParameterAssumption, FS_Subset DEF Pages
  <2>2. Cardinality(items) \in Nat \ {0} /\ Cardinality(page) = 0
    BY <1>1, <1>4, <2>1, FS_CardinalityType, FS_EmptySet
  <2>3. Min({limit, Cardinality(items)}) \in {limit, Cardinality(items)}
    BY <2>2, MinInNat
  <2> QED BY <2>1, <2>2, <2>3
<1> QED BY <1>2, <1>3, <1>4

\* A time within a bound of now is so later.
LEMMA LaterBound ==
  \A now, later \in Nat : now <= later =>
    \A n \in Nat : (n <= now + 1 => n <= later + 1) /\ (n <= now => n <= later)
OBVIOUS

\* Nobody is told anything by no request.
LEMMA IdleInTouch ==
  \A copies, store, out, missed : InTouch(Idle, copies, store, out, missed)
BY DEF InTouch, Idle

\* A request that has retrieved and that a step leaves alone has not seen what
\* the step stores.
LEMMA UnseenGrows ==
  ASSUME Track, NEW e \in Device, req'[e] = req[e], Past(req[e])
  PROVE  unseen'[e] = unseen[e] \cup Changed
BY DEF Track, Past, Learnt

\* Where nothing is stored and shown, a request in progress has seen as much as before.
LEMMA UnseenSame ==
  ASSUME Track, UNCHANGED db, NEW d \in Device, Past(req'[d]), req[d].phase # "get",
         req'[d].saved = req[d].saved, req'[d].conflicts = req[d].conflicts
  PROVE  unseen'[d] = unseen[d]
BY DEF Track, Past, Learnt, Changed

\* Only the response to a device makes a gap.
LEMMA GapsSame ==
  ASSUME Track, NEW d \in Device, ~Finish(d)
  PROVE  gaps'[d] = gaps[d]
BY DEF Track

\* What a step that stores nothing leaves of the requests it does not change.
LEMMA OthersInTouch ==
  ASSUME Track, UNCHANGED db, NEW e \in Device, req'[e] = req[e], known'[e] = known[e],
         gaps'[e] = gaps[e], InTouch(req[e], known[e], db, unseen[e], gaps[e])
  PROVE  InTouch(req'[e], known'[e], db', unseen'[e], gaps'[e])
<1>1. CASE Past(req[e])
  <2>1. unseen'[e] = unseen[e]
    BY <1>1, UnseenGrows DEF Changed
  <2> QED BY <2>1
<1>2. CASE ~Past(req[e])
  BY <1>2 DEF InTouch, Past
<1> QED BY <1>1, <1>2

\* Only one request changes, and neither the items nor what the devices hold.
LEMMA TouchKept ==
  ASSUME TypeOK, TouchInv, Track, NEW d \in Device, OnlyRequestOf(d, req'[d]),
         UNCHANGED <<db, clients>>, clock' \in Nat, clock <= clock',
         \A e \in Device : ~Finish(e),
         InTouch(req'[d], known[d], db, unseen'[d], gaps[d]), req'[d].next <= clock',
         \A e \in Device, i \in Item :
           req'[d].phase = "commit" /\ i \in req'[d].at =>
             i \in gaps[e] \/ Asks(e, req'[d].stamp)
  PROVE  TouchInv'
<1>1. /\ \A e \in Device \ {d} : req'[e] = req[e]
      /\ UNCHANGED <<db, known, token, cursor, hashed>>
      /\ \A e \in Device : gaps'[e] = gaps[e]
  BY GapsSame DEF OnlyRequestOf, clients
<1>2. ASSUME NEW e \in Device
      PROVE  CaughtUp(e)'
  <2>1. token[e] \in Nat /\ cursor[e] \in Nat /\ CaughtUp(e) /\ clock \in Nat
    BY DEF TypeOK, TouchInv
  <2>2. token[e] <= clock' + 1 /\ cursor[e] <= clock'
    BY <2>1, LaterBound DEF CaughtUp
  <2> QED BY <1>1, <2>1, <2>2 DEF CaughtUp, Asks
<1>3. \A e \in Device : Awaited(e)'
  BY <1>1 DEF TouchInv, Awaited, Asks
<1>4. ASSUME NEW e \in Device \ {d}
      PROVE  req'[e].next <= clock' /\ InTouch(req'[e], known'[e], db', unseen'[e], gaps'[e])
  <2>1. req[e].next \in Nat /\ clock \in Nat /\ req[e].next <= clock
    BY DEF TypeOK, TouchInv, Request
  <2>2. req'[e].next <= clock'
    BY <1>1, <2>1, LaterBound
  <2>3. InTouch(req[e], known[e], db, unseen[e], gaps[e])
    BY DEF TouchInv
  <2> QED BY <1>1, <2>2, <2>3, OthersInTouch
<1>5. HashMissesOnlyGaps' /\ \A i \in Item : db'[i].upd = 0 => ~db'[i].deleted
  BY <1>1 DEF TouchInv, HashMissesOnlyGaps
<1> QED BY <1>1, <1>2, <1>3, <1>4, <1>5 DEF TouchInv

\* Taking over what is stored of the items shown gives a device what is stored.
LEMMA MergeStored ==
  ASSUME NEW copies, NEW shown, NEW version, NEW i \in Item,
         \A v \in shown : v.id = i => v = Show(i, version)
  PROVE  /\ (\E v \in shown : v.id = i) =>
              Merge(copies, shown)[i] = [upd |-> version.upd, deleted |-> version.deleted]
         /\ (\A v \in shown : v.id # i) => Merge(copies, shown)[i] = copies[i]
<1>1. CASE \E v \in shown : v.id = i
  <2> DEFINE w == CHOOSE v \in shown : v.id = i
  <2>1. w = Show(i, version)
    BY <1>1
  <2>2. Merge(copies, shown)[i] = [upd |-> w.upd, deleted |-> w.deleted]
    BY <1>1 DEF Merge
  <2> HIDE DEF w
  <2> QED BY <1>1, <2>1, <2>2 DEF Show
<1>2. CASE ~ \E v \in shown : v.id = i
  BY <1>2 DEF Merge
<1> QED BY <1>1, <1>2

\* A device that took over a response holds what is stored of an item, unless
\* it is out of the response, or not in it and missed before.
LEMMA ViewStored ==
  ASSUME NEW copies, NEW store, NEW r, NEW out, NEW missed,
         Told(r, copies, store, out, missed), NEW i \in Item, i \notin out,
         i \in missed => i \in ShownIds(r)
  PROVE  Same(View(copies, r)[i], store[i])
<1> DEFINE copy == [upd |-> store[i].upd, deleted |-> store[i].deleted]
           first == Merge(copies, Retrieved(r))
           own == r.saved \cup r.conflicts
<1>0. View(copies, r) = Merge(first, own)
  BY DEF View
<1>1. \A v \in own : v.id = i => v = Show(i, store[i])
  BY DEF Told
<1>2. View(copies, r)[i] = IF \E v \in own : v.id = i THEN copy ELSE first[i]
  <2> HIDE DEF own, first
  <2> QED BY <1>0, <1>1, MergeStored
<1>3. CASE \E v \in own : v.id = i
  BY <1>2, <1>3 DEF Same
<1>4. CASE ~ \E v \in own : v.id = i
  <2>1. \A v \in Retrieved(r) : v.id = i => v = Show(i, store[i])
    BY <1>4 DEF Told, Retrieved
  <2>2. \A v \in r.retrieved : v.id = i => v \in Retrieved(r)
    BY <1>4 DEF Retrieved, Overwritten
  <2>3. first[i] = IF \E v \in Retrieved(r) : v.id = i THEN copy ELSE copies[i]
    <3> DEFINE shown == Retrieved(r)
    <3>1. \A v \in shown : v.id = i => v = Show(i, store[i])
      BY <2>1
    <3> HIDE DEF shown
    <3>2. /\ (\E v \in shown : v.id = i) => Merge(copies, shown)[i] = copy
          /\ (\A v \in shown : v.id # i) => Merge(copies, shown)[i] = copies[i]
      <4> HIDE DEF own, first
      <4> QED BY <3>1, MergeStored
    <3> QED BY <3>2 DEF shown
  <2>4. (\E v \in Retrieved(r) : v.id = i) \/ Same(copies[i], store[i])
    <3>1. i \in missed => \E v \in r.retrieved : v.id = i
      BY <1>4 DEF ShownIds
    <3> QED BY <1>4, <2>2, <3>1 DEF Told
  <2>5. View(copies, r)[i] = first[i]
    BY <1>2, <1>4
  <2> HIDE DEF first
  <2> QED BY <2>3, <2>4, <2>5 DEF Same
<1> QED BY <1>3, <1>4

\* get() asks for all a device does not hold, but for its gaps.
LEMMA RetrievalTells ==
  ASSUME TypeOK, TouchInv, NEW d \in Device, NEW i \in Item,
         ~Matches(token[d], cursor[d], db[i]), i \notin gaps[d]
  PROVE  Same(known[d][i], db[i])
<1>1. /\ token[d] \in Nat /\ cursor[d] \in Nat /\ db[i] \in Stored
      /\ db[i].upd = 0 => ~db[i].deleted
      /\ CaughtUp(d)
  BY DEF TypeOK, TouchInv
<1>2. CASE token[d] = 0
  <2>1. known[d][i] = NoCopy /\ (db[i].upd = 0 \/ db[i].deleted)
    BY <1>1, <1>2 DEF Matches, CaughtUp
  <2>2. db[i].upd = 0 => NoCopy = [upd |-> db[i].upd, deleted |-> db[i].deleted]
    BY <1>1 DEF NoCopy, Stored
  <2> QED BY <2>1, <2>2 DEF Same
<1>3. CASE token[d] # 0
  <2>1. ~Asks(d, db[i].upd)
    BY <1>1, <1>3 DEF Matches, Stored, Asks
  <2> QED BY <1>1, <1>3, <2>1 DEF CaughtUp
<1> QED BY <1>2, <1>3

\* A save is told to its device, is noted by those past their retrieval, and
\* will be asked for by the others, but for their gaps.
LEMMA CommitTouch ==
  ASSUME TypeOK, TouchInv, Track, NEW d \in Device, NEW i \in Item, Commit(d, i)
  PROVE  TouchInv'
<1> DEFINE old == req[d]
           version == [upd |-> old.stamp, deleted |-> old.batch[i].deleted,
                       base |-> old.batch[i].base]
           shown == Show(i, version)
           r == [old EXCEPT !.phase = "save", !.at = {}, !.todo = old.todo \ {i},
                            !.saved = old.saved \cup {shown}]
<1>1. /\ old \in Request /\ InTouch(old, known[d], db, unseen[d], gaps[d])
      /\ old.phase = "commit" /\ i \in old.at
      /\ \A e \in Device : i \in gaps[e] \/ Asks(e, old.stamp)
  BY DEF TypeOK, TouchInv, Commit, Awaited
<1>2. /\ req' = [req EXCEPT ![d] = r]
      /\ db' = [db EXCEPT ![i] = version]
      /\ UNCHANGED <<clock, known, token, cursor, hashed>>
  BY DEF Commit, clients
<1>3. /\ r.phase = "save" /\ r.at = {} /\ r.todo = old.todo \ {i}
      /\ r.batch = old.batch /\ r.retrieved = old.retrieved
      /\ r.saved = old.saved \cup {shown} /\ r.conflicts = old.conflicts
      /\ r.next = old.next
  BY <1>1 DEF Request
<1>4. /\ i \in old.todo /\ old.stamp # 0
      /\ Told(old, known[d], db, unseen[d], gaps[d])
      /\ \A j \in old.todo : old.batch[j].base = known[d][j].upd
  BY <1>1 DEF InTouch
<1>5. shown.id = i /\ shown = Show(i, version) /\ version.upd = old.stamp
  BY DEF Show
<1>6. req'[d] = r /\ \A e \in Device \ {d} : req'[e] = req[e]
  BY <1>2 DEF TypeOK
<1>7. \A e \in Device : gaps'[e] = gaps[e]
  <2>1. \A e \in Device : ~Finish(e)
    <3> SUFFICES ASSUME NEW e \in Device, Finish(e) PROVE FALSE
      OBVIOUS
    <3>1. req'[e] = Idle /\ req[e].phase = "save" /\ Idle.phase = "idle"
      BY DEF Finish, TypeOK, Idle
    <3> QED BY <1>3, <1>6, <3>1
  <2> QED BY <2>1, GapsSame
<1> HIDE DEF old, version, shown, r
<1>8. /\ db'[i] = version
      /\ \A j \in Item \ {i} : db'[j] = db[j]
      /\ Changed \subseteq {i} /\ \A j \in Item \ Changed : db'[j] = db[j]
  BY <1>2 DEF TypeOK, Changed
<1>9. \A e \in Device : CaughtUp(e)'
  <2>1. \A e \in Device : CaughtUp(e)
    BY DEF TouchInv
  <2> QED BY <1>1, <1>2, <1>5, <1>7, <1>8, <2>1 DEF CaughtUp, Asks
<1>10. \A e \in Device : Awaited(e)'
  BY <1>2, <1>3, <1>6, <1>7 DEF TouchInv, Awaited, Asks
<1>11. \A j \in Item : db'[j].upd = 0 => ~db'[j].deleted
  BY <1>4, <1>5, <1>8 DEF TouchInv
<1>12. \A j \in Item : j # i /\ j \in unseen[d] => j \in unseen'[d]
  <2>1. Learnt(d) \subseteq {i}
    BY <1>3, <1>5, <1>6 DEF Learnt, old
  <2>2. unseen'[d] = (unseen[d] \cup Changed) \ Learnt(d)
    BY <1>1, <1>3, <1>6 DEF Track, Past, old
  <2> QED BY <2>1, <2>2
<1>13. Told(r, known[d], db', unseen'[d], gaps[d])
  <2>1. ASSUME NEW v \in r.saved \cup r.conflicts
        PROVE  v.id \notin r.todo /\ (v.id \in unseen'[d] \/ v = Show(v.id, db'[v.id]))
    <3>1. CASE v = shown
      BY <1>3, <1>5, <1>8, <3>1
    <3>2. CASE v # shown
      <4>1. v \in old.saved \cup old.conflicts /\ v.id \in Item
        BY <1>1, <1>3, <2>1, <3>2 DEF Request, Shown
      <4>2. /\ v.id \notin old.todo /\ v.id # i
            /\ v.id \in unseen[d] \/ v = Show(v.id, db[v.id])
        BY <1>4, <4>1 DEF Told
      <4>3. db'[v.id] = db[v.id]
        BY <1>8, <4>1, <4>2
      <4> QED BY <1>3, <1>12, <4>1, <4>2, <4>3
    <3> QED BY <3>1, <3>2
  <2>2. ASSUME NEW v \in r.retrieved
        PROVE  \/ v.id \in unseen'[d] \/ v = Show(v.id, db'[v.id])
               \/ \E s \in r.saved \cup r.conflicts : s.id = v.id
    <3>1. v \in old.retrieved /\ v.id \in Item
      BY <1>1, <1>3 DEF Request, Shown
    <3>2. CASE v.id = i
      BY <1>3, <1>5, <3>2
    <3>3. CASE v.id # i
      <4>1. db'[v.id] = db[v.id]
        BY <1>8, <3>1, <3>3
      <4>2. \/ v.id \in unseen[d] \/ v = Show(v.id, db[v.id])
            \/ \E s \in old.saved \cup old.conflicts : s.id = v.id
        BY <1>4, <3>1 DEF Told
      <4> QED BY <1>3, <1>12, <3>1, <3>3, <4>1, <4>2
    <3> QED BY <3>2, <3>3
  <2>3. ASSUME NEW j \in Item
        PROVE  \/ j \in unseen'[d] \cup gaps[d]
               \/ \E v \in r.retrieved \cup r.saved \cup r.conflicts : v.id = j
               \/ Same(known[d][j], db'[j])
    <3>1. CASE j = i
      BY <1>3, <1>5, <3>1
    <3>2. CASE j # i
      <4>1. db'[j] = db[j]
        BY <1>8, <3>2
      <4>2. \/ j \in unseen[d] \cup gaps[d]
            \/ \E v \in old.retrieved \cup old.saved \cup old.conflicts : v.id = j
            \/ Same(known[d][j], db[j])
        BY <1>4 DEF Told
      <4> QED BY <1>3, <1>12, <3>2, <4>1, <4>2
    <3> QED BY <3>1, <3>2
  <2> QED BY <2>1, <2>2, <2>3 DEF Told
<1>14. InTouch(r, known[d], db', unseen'[d], gaps[d])
  BY <1>3, <1>4, <1>13 DEF InTouch
<1>15. ASSUME NEW e \in Device \ {d}
       PROVE  InTouch(req[e], known[e], db', unseen'[e], gaps[e])
  <2>1. req[e] \in Request /\ InTouch(req[e], known[e], db, unseen[e], gaps[e])
    BY DEF TypeOK, TouchInv
  <2>2. CASE Past(req[e])
    <3>1. unseen'[e] = unseen[e] \cup Changed
      BY <1>6, <2>2, UnseenGrows
    <3>2. \A v \in req[e].retrieved \cup req[e].saved \cup req[e].conflicts :
            v.id \in Item
      BY <2>1 DEF Request, Shown
    <3>3. Told(req[e], known[e], db, unseen[e], gaps[e]) =>
            Told(req[e], known[e], db', unseen'[e], gaps[e])
      BY <1>8, <3>1, <3>2 DEF Told
    <3> QED BY <2>1, <3>3 DEF InTouch
  <2>3. CASE ~Past(req[e])
    BY <2>1, <2>3 DEF InTouch, Past
  <2> QED BY <2>2, <2>3
<1>16. HashMissesOnlyGaps'
  BY <1>2, <1>7 DEF TouchInv, HashMissesOnlyGaps
<1>17. \A e \in Device : req'[e].next <= clock'
  BY <1>2, <1>3, <1>6 DEF TouchInv, old
<1>18. \A e \in Device : InTouch(req'[e], known'[e], db', unseen'[e], gaps'[e])
  BY <1>2, <1>6, <1>7, <1>14, <1>15
<1> QED BY <1>9, <1>10, <1>11, <1>16, <1>17, <1>18 DEF TouchInv

\* With a response taken over, a device agrees with the integrity hash, and it
\* will ask for all it does not hold, but for its gaps.
LEMMA FinishTouch ==
  ASSUME TypeOK, StampsOrdered, TouchInv, Track, NEW d \in Device, Finish(d)
  PROVE  TouchInv'
<1> DEFINE r == req[d]
<1>1. /\ r \in Request /\ r.phase = "save" /\ r # Idle /\ Idle.phase = "idle"
      /\ InTouch(r, known[d], db, unseen[d], gaps[d])
      /\ InOrder(r, clock) /\ clock \in Nat /\ r.next <= clock /\ r.next \in Nat
      /\ UNCHANGED <<clock, db>>
  BY DEF Finish, TypeOK, TouchInv, StampsOrdered, Idle, Request
<1>2. /\ req' = [req EXCEPT ![d] = Idle]
      /\ known' = [known EXCEPT ![d] = View(known[d], r)]
      /\ token' = [token EXCEPT ![d] = SyncToken(r, clock)]
      /\ cursor' = [cursor EXCEPT ![d] = r.next]
      /\ hashed' = [hashed EXCEPT ![d] = Signature(db)]
      /\ gaps'[d] = (gaps[d] \ ShownIds(r)) \cup unseen[d] \cup Pending(d)
  BY DEF Finish, Track
<1>3. Told(r, known[d], db, unseen[d], gaps[d])
  BY <1>1 DEF InTouch
<1>4. SyncToken(r, clock) \in Nat \ {0} /\ SyncToken(r, clock) <= clock + 1
  BY <1>1, SyncTokenBound
<1>5. \A e \in Device \ {d} : gaps'[e] = gaps[e]
  <2>1. ASSUME NEW e \in Device \ {d} PROVE ~Finish(e)
    <3>1. req'[e] = req[e]
      BY <1>2 DEF TypeOK
    <3>2. Finish(e) => req'[e] = Idle /\ req[e].phase = "save"
      BY DEF Finish, TypeOK
    <3> QED BY <1>1, <3>1, <3>2
  <2> QED BY <2>1, GapsSame
<1> HIDE DEF r
<1>6. /\ known'[d] = View(known[d], r) /\ token'[d] = SyncToken(r, clock)
      /\ cursor'[d] = r.next /\ hashed'[d] = Signature(db) /\ req'[d] = Idle
      /\ \A e \in Device \ {d} : /\ known'[e] = known[e] /\ token'[e] = token[e]
                                 /\ cursor'[e] = cursor[e] /\ hashed'[e] = hashed[e]
                                 /\ req'[e] = req[e]
  BY <1>2 DEF TypeOK
<1>7. \A i \in Item \ gaps'[d] : Same(known'[d][i], db[i])
  BY <1>2, <1>3, <1>6, ViewStored
<1>8. \A e \in Device : CaughtUp(e)'
  <2>1. CaughtUp(d)'
    BY <1>1, <1>4, <1>6, <1>7 DEF CaughtUp
  <2>2. ASSUME NEW e \in Device \ {d}
        PROVE  CaughtUp(e)'
    <3>1. CaughtUp(e)
      BY DEF TouchInv
    <3> QED BY <1>1, <1>5, <1>6, <3>1 DEF CaughtUp, Asks
  <2> QED BY <2>1, <2>2
<1>9. \A e \in Device : Awaited(e)'
  <2>1. ASSUME NEW e \in Device, NEW f \in Device, NEW i \in Item,
               req'[f].phase = "commit", i \in req'[f].at
        PROVE  i \in gaps'[e] \/ Asks(e, req[f].stamp)'
    <3>1. f # d /\ req'[f] = req[f]
      BY <1>1, <1>6, <2>1
    <3>2. CASE e = d
      BY <1>2, <2>1, <3>1, <3>2 DEF Pending
    <3>3. CASE e # d
      <4>1. i \in gaps[e] \/ Asks(e, req[f].stamp)
        BY <2>1, <3>1 DEF TouchInv, Awaited
      <4> QED BY <1>5, <1>6, <3>1, <3>3, <4>1 DEF Asks
    <3> QED BY <3>2, <3>3
  <2> QED BY <2>1 DEF Awaited
<1>10. HashMissesOnlyGaps'
  <2> DEFINE Visible(copies) ==
               {copies[i].upd : i \in {j \in Item : copies[j].upd # 0 /\ ~copies[j].deleted}}
  <2>1. ASSUME gaps'[d] = {}
        PROVE  Signature(db) = Visible(known'[d])
    <3>1. \A i \in Item :
            /\ (db[i].upd # 0 /\ ~db[i].deleted)
                 <=> (known'[d][i].upd # 0 /\ ~known'[d][i].deleted)
            /\ ~db[i].deleted => known'[d][i].upd = db[i].upd
      <4> SUFFICES ASSUME NEW i \in Item
                   PROVE  /\ (db[i].upd # 0 /\ ~db[i].deleted)
                               <=> (known'[d][i].upd # 0 /\ ~known'[d][i].deleted)
                          /\ ~db[i].deleted => known'[d][i].upd = db[i].upd
        OBVIOUS
      <4> DEFINE copy == known'[d][i]
      <4>1. Same(copy, db[i])
        BY <1>7, <2>1
      <4> HIDE DEF copy
      <4>2. \/ copy.upd = db[i].upd /\ copy.deleted = db[i].deleted
            \/ copy.upd = 0 /\ db[i].deleted
        BY <4>1 DEF Same, NoCopy
      <4> QED BY <4>2 DEF copy
    <3> QED BY <3>1 DEF Signature
  <2>2. gaps'[d] = {} => hashed'[d] = Visible(known'[d])
    BY <1>6, <2>1
  <2>3. ASSUME NEW e \in Device \ {d}
        PROVE  gaps'[e] = {} => hashed'[e] = Visible(known'[e])
    BY <1>5, <1>6 DEF TouchInv, HashMissesOnlyGaps
  <2> QED BY <2>2, <2>3 DEF HashMissesOnlyGaps
<1>11. ASSUME NEW e \in Device
       PROVE  /\ req'[e].next <= clock'
              /\ InTouch(req'[e], known'[e], db', unseen'[e], gaps'[e])
  <2>1. CASE e = d
    <3>1. Idle.next = 0
      BY DEF Idle
    <3> QED BY <1>1, <1>6, <2>1, <3>1, IdleInTouch
  <2>2. CASE e # d
    <3>1. req[e].next <= clock /\ InTouch(req[e], known[e], db, unseen[e], gaps[e])
      BY DEF TouchInv
    <3>2. /\ UNCHANGED db /\ req'[e] = req[e] /\ known'[e] = known[e]
          /\ gaps'[e] = gaps[e]
      BY <1>1, <1>5, <1>6, <2>2
    <3> QED BY <1>1, <3>1, <3>2, OthersInTouch
  <2> QED BY <2>1, <2>2
<1>12. \A i \in Item : db'[i].upd = 0 => ~db'[i].deleted
  BY <1>1 DEF TouchInv
<1> QED BY <1>8, <1>9, <1>10, <1>11, <1>12 DEF TouchInv

\* Every step keeps the devices in touch, but for their gaps: one step per action.
LEMMA TouchStep ==
  ASSUME Prompt
  PROVE  TypeOK /\ StampsOrdered /\ TouchInv /\ [HistoryNext]_<<vars, history>> => TouchInv'
<1> SUFFICES ASSUME TypeOK, StampsOrdered, TouchInv, [HistoryNext]_<<vars, history>>
             PROVE  TouchInv'
  OBVIOUS
<1>a. CASE UNCHANGED <<vars, history>>
  BY <1>a
  DEF vars, history, TouchInv, CaughtUp, Awaited, HashMissesOnlyGaps, Asks
<1>b. CASE Track /\ \E d \in Device : Finish(d)
  BY <1>b, FinishTouch
<1> SUFFICES ASSUME Next, Track, \A e \in Device : ~Finish(e) PROVE TouchInv'
  BY <1>a, <1>b DEF HistoryNext
<1>0. /\ req \in [Device -> Request] /\ clock \in Nat /\ clock <= clock
      /\ \A d \in Device : /\ req[d] \in Request /\ req[d].next <= clock
                           /\ InTouch(req[d], known[d], db, unseen[d], gaps[d])
      /\ Idle.phase = "idle" /\ Idle.next = 0
  BY DEF TypeOK, TouchInv, Idle
<1>1. ASSUME NEW d \in Device, Submit(d) PROVE TouchInv'
  <2>1. PICK dirty \in SUBSET Item, api \in Api, limit \in Limits, loss \in Losses,
             omit \in BOOLEAN : \E gone \in SUBSET dirty :
          req' = [req EXCEPT ![d] = NewRequest(d, api, limit, dirty, gone, loss, omit)]
    BY <1>1, SubmitSends
  <2>2. PICK gone \in SUBSET dirty :
          req' = [req EXCEPT ![d] = NewRequest(d, api, limit, dirty, gone, loss, omit)]
    BY <2>1
  <2> DEFINE r == NewRequest(d, api, limit, dirty, gone, loss, omit)
  <2>3. /\ r.phase = "get" /\ r.next = 0 /\ r.todo = dirty /\ r.at = {}
        /\ r.saved = {} /\ r.conflicts = {}
        /\ r.batch = [i \in Item |-> IF i \in dirty THEN EditOf(d, i, loss, omit, i \in gone)
                                                    ELSE NoEdit]
    BY DEF NewRequest, Idle
  <2> HIDE DEF r
  <2>4. \A i \in dirty : r.batch[i].base = known[d][i].upd
    BY <2>3 DEF EditOf
  <2>5. InTouch(r, known[d], db, unseen'[d], gaps[d])
    BY <2>3, <2>4 DEF InTouch
  <2>6. /\ OnlyRequestOf(d, req'[d]) /\ req'[d] = r
        /\ UNCHANGED <<db, clients>> /\ clock' = clock
    BY <1>0, <1>1, <2>2 DEF Submit, OnlyRequestOf, r
  <2> QED BY <1>0, <2>3, <2>5, <2>6, TouchKept
<1>2. ASSUME NEW d \in Device, Get(d) PROVE TouchInv'
  <2> DEFINE items == {i \in Item : Matches(token[d], cursor[d], db[i])}
             limit == IF token[d] = 0 THEN 0 ELSE req[d].limit
  <2>1. PICK page \in Pages(items, db, limit) :
          req' = [req EXCEPT ![d] =
            [@ EXCEPT !.phase = "save", !.retrieved = {Show(i, db[i]) : i \in page},
                      !.next = NextCursor(items, page, db)]]
    BY <1>2 DEF Get
  <2> DEFINE shown == {Show(i, db[i]) : i \in page}
             r == req'[d]
  <2>2. /\ OnlyRequestOf(d, r) /\ req[d].phase = "get"
        /\ UNCHANGED <<db, clients>> /\ clock' = clock
    BY <1>0, <1>2, <2>1 DEF Get, OnlyRequestOf
  <2>3. /\ r.phase = "save" /\ r.retrieved = shown /\ r.next = NextCursor(items, page, db)
        /\ r.saved = {} /\ r.conflicts = {} /\ r.at = {} /\ r.todo = req[d].todo
        /\ r.batch = req[d].batch
    <3>1. req[d].saved = {} /\ req[d].conflicts = {} /\ req[d].at = {}
      BY <1>0, <2>2 DEF InTouch
    <3> HIDE DEF items, limit
    <3> QED BY <1>0, <2>1, <3>1 DEF Request
  <2>4. page \subseteq Item /\ r.next <= clock
    <3>1. /\ db \in [Item -> Stored] /\ \A i \in Item : db[i].upd <= clock
          /\ items \in SUBSET Item /\ limit \in Nat
      BY <1>0 DEF TypeOK, StampsOrdered, Request
    <3> HIDE DEF items, limit, r
    <3>2. page \subseteq Item
      BY <2>1, <3>1, PageType
    <3>3. NextCursor(items, page, db) <= clock
      BY <1>0, <2>1, <3>1, NextCursorBound
    <3> QED BY <2>3, <3>2, <3>3
  <2>5. \A v \in shown : v = Show(v.id, db[v.id])
    BY <2>4 DEF Show
  <2>6. ASSUME NEW i \in Item
        PROVE  \/ i \in unseen'[d] \cup gaps[d] \/ \E v \in shown : v.id = i
               \/ Same(known[d][i], db[i])
    <3>1. CASE ~Matches(token[d], cursor[d], db[i])
      BY <3>1, RetrievalTells
    <3>2. CASE Matches(token[d], cursor[d], db[i])
      <4>1. unseen'[d] = items \ ShownIds(r)
        BY <2>2, <2>3 DEF Track, Past
      <4>2. i \in ShownIds(r) => \E v \in shown : v.id = i
        BY <2>3 DEF ShownIds
      <4> HIDE DEF shown, r
      <4> QED BY <3>2, <4>1, <4>2
    <3> QED BY <3>1, <3>2
  <2> HIDE DEF items, limit, shown
  <2>7. Told(r, known[d], db, unseen'[d], gaps[d])
    BY <2>3, <2>5, <2>6 DEF Told
  <2>8. InTouch(r, known[d], db, unseen'[d], gaps[d])
    BY <1>0, <2>3, <2>7 DEF InTouch
  <2> QED BY <1>0, <2>2, <2>3, <2>4, <2>8, TouchKept
<1>3. ASSUME NEW d \in Device, NEW i \in Item, Accept(d, i) PROVE TouchInv'
  <2>1. /\ OnlyRequestOf(d, req'[d]) /\ UNCHANGED <<db, clients>> /\ clock' = clock
        /\ req[d].phase = "save" /\ i \in req[d].todo
        /\ req' = [req EXCEPT ![d] = [req[d] EXCEPT !.phase = "stamp", !.at = {i}]]
    BY <1>0, <1>3 DEF Accept, OnlyRequestOf
  <2>2. /\ req'[d].phase = "stamp" /\ req'[d].at = {i}
        /\ req'[d].retrieved = req[d].retrieved
        /\ req'[d].saved = req[d].saved /\ req'[d].conflicts = req[d].conflicts
        /\ req'[d].todo = req[d].todo /\ req'[d].next = req[d].next
        /\ req'[d].batch = req[d].batch
    BY <1>0, <2>1 DEF Request
  <2>3. unseen'[d] = unseen[d]
    BY <2>1, <2>2, UnseenSame DEF Past
  <2>4. InTouch(req'[d], known[d], db, unseen'[d], gaps[d])
    BY <1>0, <2>1, <2>2, <2>3 DEF InTouch, Told
  <2> QED BY <1>0, <2>1, <2>2, <2>4, TouchKept
<1>4. ASSUME NEW d \in Device, NEW i \in Item, Conflict(d, i) PROVE TouchInv'
  <2> DEFINE shown == Show(i, db[i])
             r == req'[d]
  <2>1. /\ OnlyRequestOf(d, r) /\ UNCHANGED <<db, clients>> /\ clock' = clock
        /\ req' = [req EXCEPT ![d] =
             [req[d] EXCEPT !.todo = req[d].todo \ {i},
                            !.conflicts = req[d].conflicts \cup {shown}]]
        /\ req[d].phase = "save" /\ i \in req[d].todo
    BY <1>0, <1>4 DEF Conflict, OnlyRequestOf
  <2>2. /\ r.phase = "save" /\ r.at = req[d].at
        /\ r.retrieved = req[d].retrieved /\ r.saved = req[d].saved
        /\ r.conflicts = req[d].conflicts \cup {shown}
        /\ r.todo = req[d].todo \ {i} /\ r.next = req[d].next
        /\ r.batch = req[d].batch
    BY <1>0, <2>1 DEF Request
  <2>3. shown.id = i
    BY DEF Show
  <2>4. \A j \in unseen[d] : j # i => j \in unseen'[d]
    <3> HIDE DEF shown
    <3>1. Learnt(d) \subseteq {i}
      BY <2>2, <2>3 DEF Learnt
    <3>2. unseen'[d] = (unseen[d] \cup Changed) \ Learnt(d)
      BY <2>1, <2>2 DEF Track, Past
    <3> QED BY <3>1, <3>2
  <2>5. Told(req[d], known[d], db, unseen[d], gaps[d]) /\ req[d].at = {}
    BY <1>0, <2>1 DEF InTouch
  <2> HIDE DEF r
  <2>6. Told(r, known[d], db, unseen'[d], gaps[d])
    <3>1. ASSUME NEW v \in r.saved \cup r.conflicts
          PROVE  v.id \notin r.todo /\ (v.id \in unseen'[d] \/ v = Show(v.id, db[v.id]))
      <4>1. CASE v = shown
        BY <2>2, <2>3, <4>1
      <4>2. CASE v # shown
        <5>1. /\ v.id \notin req[d].todo /\ v.id # i
              /\ v.id \in unseen[d] \/ v = Show(v.id, db[v.id])
          BY <2>1, <2>2, <2>5, <3>1, <4>2 DEF Told
        <5> QED BY <2>2, <2>4, <5>1
      <4> QED BY <4>1, <4>2
    <3>2. ASSUME NEW v \in r.retrieved
          PROVE  \/ v.id \in unseen'[d] \/ v = Show(v.id, db[v.id])
                 \/ \E s \in r.saved \cup r.conflicts : s.id = v.id
      BY <2>2, <2>3, <2>4, <2>5, <3>2 DEF Told
    <3>3. ASSUME NEW j \in Item
          PROVE  \/ j \in unseen'[d] \cup gaps[d]
                 \/ \E v \in r.retrieved \cup r.saved \cup r.conflicts : v.id = j
                 \/ Same(known[d][j], db[j])
      <4> HIDE DEF shown
      <4>1. CASE j = i
        BY <2>2, <2>3, <4>1
      <4>2. CASE j # i
        BY <2>2, <2>4, <2>5, <4>2 DEF Told
      <4> QED BY <4>1, <4>2
    <3> QED BY <3>1, <3>2, <3>3 DEF Told
  <2>7. InTouch(r, known[d], db, unseen'[d], gaps[d])
    BY <1>0, <2>2, <2>5, <2>6 DEF InTouch
  <2> QED BY <1>0, <2>1, <2>2, <2>7, TouchKept DEF r
<1>5. ASSUME NEW d \in Device, NEW i \in Item, Panic(d, i) PROVE TouchInv'
  <2>1. /\ OnlyRequestOf(d, req'[d]) /\ UNCHANGED <<db, clients>> /\ clock' = clock
        /\ req' = [req EXCEPT ![d] = [req[d] EXCEPT !.phase = "panicked"]]
    BY <1>0, <1>5 DEF Panic, OnlyRequestOf
  <2>2. /\ req'[d].phase = "panicked" /\ req'[d].at = req[d].at
        /\ req'[d].next = req[d].next
        /\ req'[d].todo = req[d].todo /\ req'[d].batch = req[d].batch
    BY <1>0, <2>1 DEF Request
  <2>3. InTouch(req'[d], known[d], db, unseen'[d], gaps[d])
    BY <1>0, <2>2 DEF InTouch
  <2> QED BY <1>0, <2>1, <2>2, <2>3, TouchKept
<1>6. ASSUME NEW d \in Device, Recover(d) \/ Fail(d) PROVE TouchInv'
  <2>1. /\ OnlyRequestOf(d, req'[d]) /\ UNCHANGED <<db, clients>> /\ clock' = clock
        /\ req'[d] = Idle
    BY <1>0, <1>6 DEF Recover, Fail, OnlyRequestOf
  <2>2. InTouch(req'[d], known[d], db, unseen'[d], gaps[d])
    BY <2>1, IdleInTouch
  <2> QED BY <1>0, <2>1, <2>2, TouchKept
<1>7. ASSUME NEW d \in Device, Stamp(d) PROVE TouchInv'
  <2>1. /\ OnlyRequestOf(d, req'[d]) /\ UNCHANGED <<db, clients>>
        /\ req[d].phase = "stamp"
        /\ req' = [req EXCEPT ![d] = [req[d] EXCEPT !.phase = "commit", !.stamp = clock']]
    BY <1>0, <1>7 DEF Stamp, OnlyRequestOf
  <2>2. /\ req'[d].phase = "commit" /\ req'[d].stamp = clock' /\ req'[d].at = req[d].at
        /\ req'[d].retrieved = req[d].retrieved
        /\ req'[d].saved = req[d].saved /\ req'[d].conflicts = req[d].conflicts
        /\ req'[d].todo = req[d].todo /\ req'[d].next = req[d].next
        /\ req'[d].batch = req[d].batch
    BY <1>0, <2>1 DEF Request
  <2>3. PICK step \in Steps : clock' = clock + step
    BY <1>7 DEF Stamp
  <2>4. step \in Nat /\ step >= 2
    BY ParameterAssumption DEF Prompt
  <2>5. clock' \in Nat /\ clock <= clock' /\ clock + 2 <= clock' /\ clock' # 0
    BY <1>0, <2>3, <2>4
  <2>6. \A e \in Device : Asks(e, clock')
    <3>1. \A e \in Device : /\ token[e] \in Nat /\ token[e] <= clock + 1
                            /\ cursor[e] \in Nat /\ cursor[e] <= clock
      BY DEF TypeOK, TouchInv, CaughtUp
    <3> QED BY <1>0, <2>5, <3>1 DEF Asks
  <2>7. unseen'[d] = unseen[d]
    BY <2>1, <2>2, UnseenSame DEF Past
  <2>8. InTouch(req'[d], known[d], db, unseen'[d], gaps[d])
    BY <1>0, <2>1, <2>2, <2>5, <2>7 DEF InTouch, Told
  <2>9. req'[d].next <= clock'
    <3>1. req[d].next \in Nat /\ req[d].next <= clock
      BY <1>0 DEF Request
    <3> QED BY <1>0, <2>2, <2>5, <3>1
  <2> QED BY <2>1, <2>2, <2>5, <2>6, <2>8, <2>9, TouchKept
<1>8. ASSUME NEW d \in Device, NEW i \in Item, SkipFailed(d, i) PROVE TouchInv'
  <2>1. /\ OnlyRequestOf(d, req'[d]) /\ UNCHANGED <<db, clients>> /\ clock' = clock
        /\ req[d].phase \in {"save", "commit"}
        /\ req' = [req EXCEPT ![d] =
             [req[d] EXCEPT !.phase = "save", !.at = {}, !.todo = req[d].todo \ {i}]]
    BY <1>0, <1>8 DEF SkipFailed, OnlyRequestOf
  <2>2. /\ req'[d].phase = "save" /\ req'[d].at = {}
        /\ req'[d].retrieved = req[d].retrieved
        /\ req'[d].saved = req[d].saved /\ req'[d].conflicts = req[d].conflicts
        /\ req'[d].todo = req[d].todo \ {i} /\ req'[d].next = req[d].next
        /\ req'[d].batch = req[d].batch
    BY <1>0, <2>1 DEF Request
  <2>3. unseen'[d] = unseen[d]
    BY <2>1, <2>2, UnseenSame DEF Past
  <2>4. InTouch(req'[d], known[d], db, unseen'[d], gaps[d])
    BY <1>0, <2>1, <2>2, <2>3 DEF InTouch, Told
  <2> QED BY <1>0, <2>1, <2>2, <2>4, TouchKept
<1>9. ASSUME NEW d \in Device, NEW i \in Item, Commit(d, i) PROVE TouchInv'
  BY <1>9, CommitTouch
<1>10. ASSUME Crash PROVE TouchInv'
  <2>1. /\ \A e \in Device : req'[e] = Idle /\ gaps'[e] = gaps[e]
        /\ UNCHANGED <<clock, db, known, token, cursor, hashed>>
    BY <1>10, GapsSame DEF Crash, clients
  <2>2. \A e \in Device : CaughtUp(e)' /\ Awaited(e)'
    BY <1>0, <2>1 DEF TouchInv, CaughtUp, Awaited, Asks
  <2>3. HashMissesOnlyGaps'
    BY <2>1 DEF TouchInv, HashMissesOnlyGaps
  <2>4. \A i \in Item : db'[i].upd = 0 => ~db'[i].deleted
    BY <2>1 DEF TouchInv
  <2> QED BY <1>0, <2>1, <2>2, <2>3, <2>4, IdleInTouch DEF TouchInv
<1> QED
  BY <1>1, <1>2, <1>3, <1>4, <1>5, <1>6, <1>7, <1>8, <1>9, <1>10
  DEF Next, Failure, Serve

LEMMA TouchStart == HistoryInit => TouchInv
<1> SUFFICES ASSUME HistoryInit PROVE TouchInv
  OBVIOUS
<1>0. Init /\ clock \in Nat /\ Idle.next = 0 /\ Idle.phase = "idle"
  BY IntervalAssumption DEF HistoryInit, Init, Idle
<1>1. \A d \in Device : /\ req[d] = Idle /\ req[d].next <= clock
                        /\ InTouch(req[d], known[d], db, unseen[d], gaps[d])
  BY <1>0, IdleInTouch DEF Init
<1>2. \A d \in Device : CaughtUp(d) /\ Awaited(d)
  BY <1>0, <1>1 DEF HistoryInit, Init, CaughtUp, Awaited
<1>3. HashMissesOnlyGaps
  BY <1>0 DEF Init, HashMissesOnlyGaps, NoCopy
<1>4. \A i \in Item : db[i].upd = 0 => ~db[i].deleted
  BY <1>0 DEF Init, Absent
<1> QED BY <1>1, <1>2, <1>3, <1>4 DEF TouchInv

LEMMA TouchInvariant == ASSUME Prompt PROVE HistorySpec => [](TypeOK /\ TouchInv)
<1>1. /\ TypeOK /\ StampsOrdered /\ TouchInv /\ [HistoryNext]_<<vars, history>>
      => TouchInv'
  BY TouchStep
<1> QED BY <1>1, TouchStart, HistoryInvariant, PTL DEF HistorySpec

\* However the requests interleave, in either protocol version, page by page and
\* whatever fails, with no two saves in one microsecond: a waiting client holds
\* what is stored, or will retrieve it, but for its gaps.
THEOREM MissesOnlyGaps == ASSUME Prompt PROVE HistorySpec => []MissedOnlyInGaps
<1>1. TouchInv => MissedOnlyInGaps
  BY DEF TouchInv, CaughtUp, MissedOnlyInGaps, Same
<1> QED BY <1>1, TouchInvariant, PTL

\* And where it has no gap, the integrity hash it got is that of what it holds.
THEOREM HashesAgreeButGaps == ASSUME Prompt PROVE HistorySpec => []HashMissesOnlyGaps
<1>1. TouchInv => HashMissesOnlyGaps
  BY DEF TouchInv
<1> QED BY <1>1, TouchInvariant, PTL

\* A save over a version its device has not seen is one over a version its
\* request retrieved, or that was stored since, or that the device had missed.
LEMMA CommitReports ==
  ASSUME TypeOK, TouchInv, NEW d \in Device, NEW i \in Item, Commit(d, i),
         i \notin unseen[d] \cup gaps[d],
         db[i].upd # req[d].batch[i].base, ~db[i].deleted,
         Distance(req[d].stamp, db[i].upd) > ConflictInterval16
  PROVE  Show(i, db[i]) \in Unsaved(req'[d])
<1> DEFINE old == req[d]
           shown == Show(i, [upd |-> old.stamp, deleted |-> old.batch[i].deleted,
                             base |-> old.batch[i].base])
           r == [old EXCEPT !.phase = "save", !.at = {}, !.todo = old.todo \ {i},
                            !.saved = old.saved \cup {shown}]
<1>1. /\ old \in Request /\ Told(old, known[d], db, unseen[d], gaps[d])
      /\ i \in old.todo /\ old.batch[i].base = known[d][i].upd
  BY DEF TypeOK, TouchInv, Commit, InTouch
<1>2. req'[d] = r
  BY DEF Commit, TypeOK
<1>3. r.retrieved = old.retrieved /\ r.saved = old.saved \cup {shown}
  BY <1>1 DEF Request
<1>4. shown.id = i /\ shown.upd = old.stamp
  BY DEF Show
<1> HIDE DEF shown, r
<1>5. \A v \in old.saved \cup old.conflicts : v.id # i
  BY <1>1 DEF Told
<1>6. ~ Same(known[d][i], db[i])
  BY <1>1 DEF Same
<1>7. \E v \in old.retrieved : v.id = i
  BY <1>1, <1>5, <1>6 DEF Told
<1>8. Show(i, db[i]) \in old.retrieved
  BY <1>1, <1>5, <1>7 DEF Told
<1>9. Show(i, db[i]).id = i /\ Show(i, db[i]).upd = db[i].upd
  BY DEF Show
<1> QED BY <1>2, <1>3, <1>4, <1>8, <1>9 DEF Unsaved, Overwritten

\* And a 20161215 request that overwrites what its device has not seen says so,
\* unless the version was stored since it retrieved, or the device had missed it.
THEOREM OverwritesReported == ASSUME Prompt PROVE HistorySpec => OverwrittenUnseen
<1>1. TypeOK /\ TouchInv =>
        [\A d \in Device, i \in Item :
           (/\ Commit(d, i) /\ req[d].api = "20161215"
            /\ i \notin unseen[d] \cup gaps[d]
            /\ db[i].upd # req[d].batch[i].base /\ ~db[i].deleted
            /\ Distance(req[d].stamp, db[i].upd) > ConflictInterval16)
           => Show(i, db[i]) \in Unsaved(req'[d])]_vars
  BY CommitReports
<1> QED BY <1>1, TouchInvariant, PTL DEF OverwrittenUnseen

-----------------------------------------------------------------------------
(* Where requests do not meet and responses are whole, there are no gaps.  *)

Whole == Prompt /\ Overlap = FALSE /\ Limits \subseteq {0}

NoGap(d) == /\ unseen[d] = {} /\ gaps[d] = {} /\ cursor[d] = 0
            /\ req[d].limit = 0 /\ req[d].next = 0

WholeInv == Alone /\ \A d \in Device : NoGap(d)

\* A save is shown to its device, and there is no other to miss it.
LEMMA SavedSeen ==
  ASSUME TypeOK, TouchInv, WholeInv, Track, NEW d \in Device, NEW i \in Item, Commit(d, i)
  PROVE  \A e \in Device : unseen'[e] = {}
<1> DEFINE old == req[d]
           shown == Show(i, [upd |-> old.stamp, deleted |-> old.batch[i].deleted,
                             base |-> old.batch[i].base])
<1>1. /\ old \in Request /\ old.phase = "commit" /\ Idle.phase = "idle"
      /\ InTouch(old, known[d], db, unseen[d], gaps[d])
      /\ Changed \subseteq {i}
  BY DEF TypeOK, TouchInv, Commit, Changed, Idle
<1>2. \A v \in old.saved \cup old.conflicts : v.id # i
  BY <1>1 DEF InTouch, Told, Commit
<1>3. /\ req'[d].phase = "save" /\ req'[d].saved = old.saved \cup {shown}
      /\ \A e \in Device \ {d} : req'[e] = req[e]
  BY <1>1 DEF Commit, TypeOK, Request
<1>4. shown.id = i
  BY DEF Show
<1> HIDE DEF shown
<1>5. i \in Learnt(d)
  BY <1>2, <1>3, <1>4 DEF Learnt
<1>6. unseen'[d] = {}
  BY <1>1, <1>3, <1>5 DEF Track, Past, WholeInv, NoGap
<1>7. ASSUME NEW e \in Device \ {d} PROVE unseen'[e] = {}
  <2>1. req'[e] = Idle
    BY <1>1, <1>3 DEF WholeInv, Alone
  <2> QED BY <1>1, <2>1 DEF Track, Past
<1> QED BY <1>6, <1>7

\* A response leaves no gap where nothing was left out, and no other is in progress.
LEMMA NoGapMade ==
  ASSUME WholeInv, Track, NEW d \in Device
  PROVE  gaps'[d] = {}
<1>1. Finish(d) => Pending(d) = {}
  BY DEF Finish, Pending, WholeInv, Alone, Idle
<1> QED BY <1>1 DEF Track, WholeInv, NoGap

\* The request in progress goes on, after it has retrieved, and stores nothing.
LEMMA WholeKept ==
  ASSUME TypeOK, WholeInv, Track, UNCHANGED <<db, cursor>>,
         NEW d \in Device, OnlyRequestOf(d, req'[d]), req[d] # Idle, req[d].phase # "get",
         req'[d].limit = 0, req'[d].next = 0
  PROVE  WholeInv'
<1>1. \A e \in Device \ {d} : req[e] = Idle /\ req'[e] = Idle /\ unseen'[e] = {}
  <2>1. \A e \in Device \ {d} : req[e] = Idle /\ req'[e] = Idle
    BY DEF WholeInv, Alone, OnlyRequestOf
  <2>2. ~Past(Idle)
    BY DEF Past, Idle
  <2> QED BY <2>1, <2>2 DEF Track
<1>2. unseen'[d] = {}
  BY DEF WholeInv, NoGap, Track, Changed
<1>3. Idle.limit = 0 /\ Idle.next = 0
  BY DEF Idle
<1> QED BY <1>1, <1>2, <1>3, NoGapMade DEF WholeInv, NoGap, Alone

\* Every step leaves no gap: one step per action.
LEMMA WholeStep ==
  ASSUME Whole
  PROVE  TypeOK /\ TouchInv /\ WholeInv /\ [HistoryNext]_<<vars, history>> => WholeInv'
<1> SUFFICES ASSUME TypeOK, TouchInv, WholeInv, Next, Track PROVE WholeInv'
  BY DEF HistoryNext, vars, history, WholeInv, NoGap, Alone
<1>0. /\ req \in [Device -> Request] /\ cursor \in [Device -> Nat]
      /\ \A d \in Device : /\ req[d] \in Request /\ NoGap(d) /\ gaps'[d] = {}
                           /\ req[d].phase = "idle" => req[d] = Idle
      /\ Idle.phase = "idle" /\ Idle.limit = 0 /\ Idle.next = 0
  BY NoGapMade DEF TypeOK, TouchInv, InTouch, WholeInv, Idle
<1>1. ASSUME NEW d \in Device, Submit(d) PROVE WholeInv'
  <2>1. \A e \in Device : req[e] = Idle
    BY <1>0, <1>1 DEF Submit, Whole, Quiet
  <2>2. PICK dirty \in SUBSET Item, api \in Api, limit \in Limits, loss \in Losses,
             omit \in BOOLEAN : \E gone \in SUBSET dirty :
          req' = [req EXCEPT ![d] = NewRequest(d, api, limit, dirty, gone, loss, omit)]
    BY <1>1, SubmitSends
  <2>3. req'[d].limit = 0 /\ req'[d].next = 0 /\ req'[d].phase = "get"
    BY <1>0, <2>2 DEF NewRequest, Idle, Whole
  <2>4. (\A e \in Device \ {d} : req'[e] = Idle) /\ UNCHANGED cursor
    BY <1>0, <1>1, <2>1, <2>2 DEF Submit, clients
  <2>5. \A e \in Device : unseen'[e] = {}
    BY <1>0, <2>3, <2>4 DEF Track, Past
  <2> QED BY <1>0, <2>3, <2>4, <2>5 DEF WholeInv, NoGap, Alone
<1>2. ASSUME NEW d \in Device, Get(d) PROVE WholeInv'
  <2> DEFINE items == {i \in Item : Matches(token[d], cursor[d], db[i])}
             limit == IF token[d] = 0 THEN 0 ELSE req[d].limit
             shown == {Show(i, db[i]) : i \in items}
  <2>1. /\ limit = 0 /\ req[d].phase = "get" /\ req[d] # Idle /\ UNCHANGED cursor
        /\ \A i \in items : Show(i, db[i]) \in shown /\ Show(i, db[i]).id = i
    BY <1>0, <1>2 DEF NoGap, Get, clients, Show
  <2>2. PICK page \in Pages(items, db, limit) :
          req' = [req EXCEPT ![d] =
            [@ EXCEPT !.phase = "save", !.retrieved = {Show(i, db[i]) : i \in page},
                      !.next = NextCursor(items, page, db)]]
    BY <1>2 DEF Get
  <2> HIDE DEF items, limit
  <2>3. page = items /\ NextCursor(items, page, db) = 0
    BY <2>1, <2>2 DEF Pages, NextCursor
  <2>4. req' = [req EXCEPT ![d] = [req[d] EXCEPT !.phase = "save", !.retrieved = shown,
                                                 !.next = 0]]
    BY <2>2, <2>3
  <2> HIDE DEF shown
  <2>5. /\ req'[d].retrieved = shown /\ req'[d].next = 0 /\ req'[d].phase = "save"
        /\ req'[d].limit = 0
        /\ \A e \in Device \ {d} : req[e] = Idle /\ req'[e] = Idle
    BY <1>0, <2>1, <2>4 DEF Request, NoGap, WholeInv, Alone
  <2>6. unseen'[d] = items \ ShownIds(req'[d])
    BY <2>1, <2>5 DEF Track, Past, items
  <2>7. \A e \in Device : unseen'[e] = {}
    BY <1>0, <2>1, <2>5, <2>6 DEF Track, Past, ShownIds
  <2> QED BY <1>0, <2>1, <2>5, <2>7 DEF WholeInv, NoGap, Alone
<1>3. ASSUME NEW d \in Device, NEW i \in Item, Accept(d, i) PROVE WholeInv'
  <2>1. /\ OnlyRequestOf(d, req'[d]) /\ UNCHANGED <<db, cursor>> /\ req[d].phase = "save"
        /\ req' = [req EXCEPT ![d] = [req[d] EXCEPT !.phase = "stamp", !.at = {i}]]
    BY <1>0, <1>3 DEF Accept, OnlyRequestOf, clients
  <2>2. req'[d].limit = 0 /\ req'[d].next = 0
    BY <1>0, <2>1 DEF Request, NoGap
  <2> QED BY <1>0, <2>1, <2>2, WholeKept
<1>4. ASSUME NEW d \in Device, NEW i \in Item, Conflict(d, i) PROVE WholeInv'
  <2>1. /\ OnlyRequestOf(d, req'[d]) /\ UNCHANGED <<db, cursor>> /\ req[d].phase = "save"
        /\ req' = [req EXCEPT ![d] =
             [req[d] EXCEPT !.todo = req[d].todo \ {i},
                            !.conflicts = req[d].conflicts \cup {Show(i, db[i])}]]
    BY <1>0, <1>4 DEF Conflict, OnlyRequestOf, clients
  <2>2. req'[d].limit = 0 /\ req'[d].next = 0
    BY <1>0, <2>1 DEF Request, NoGap
  <2> QED BY <1>0, <2>1, <2>2, WholeKept
<1>5. ASSUME NEW d \in Device, NEW i \in Item, Panic(d, i) PROVE WholeInv'
  <2>1. /\ OnlyRequestOf(d, req'[d]) /\ UNCHANGED <<db, cursor>> /\ req[d].phase = "save"
        /\ req' = [req EXCEPT ![d] = [req[d] EXCEPT !.phase = "panicked"]]
    BY <1>0, <1>5 DEF Panic, OnlyRequestOf, clients
  <2>2. req'[d].limit = 0 /\ req'[d].next = 0
    BY <1>0, <2>1 DEF Request, NoGap
  <2> QED BY <1>0, <2>1, <2>2, WholeKept
<1>6. ASSUME NEW d \in Device, Stamp(d) PROVE WholeInv'
  <2>1. /\ OnlyRequestOf(d, req'[d]) /\ UNCHANGED <<db, cursor>> /\ req[d].phase = "stamp"
        /\ req' = [req EXCEPT ![d] = [req[d] EXCEPT !.phase = "commit", !.stamp = clock']]
    BY <1>0, <1>6 DEF Stamp, OnlyRequestOf, clients
  <2>2. req'[d].limit = 0 /\ req'[d].next = 0
    BY <1>0, <2>1 DEF Request, NoGap
  <2> QED BY <1>0, <2>1, <2>2, WholeKept
<1>7. ASSUME NEW d \in Device, NEW i \in Item, SkipFailed(d, i) PROVE WholeInv'
  <2>1. /\ OnlyRequestOf(d, req'[d]) /\ UNCHANGED <<db, cursor>>
        /\ req[d].phase \in {"save", "commit"}
        /\ req' = [req EXCEPT ![d] =
             [req[d] EXCEPT !.phase = "save", !.at = {}, !.todo = req[d].todo \ {i}]]
    BY <1>0, <1>7 DEF SkipFailed, OnlyRequestOf, clients
  <2>2. req'[d].limit = 0 /\ req'[d].next = 0
    BY <1>0, <2>1 DEF Request, NoGap
  <2> QED BY <1>0, <2>1, <2>2, WholeKept
<1>8. ASSUME NEW d \in Device, NEW i \in Item, Commit(d, i) PROVE WholeInv'
  <2> DEFINE shown == Show(i, [upd |-> req[d].stamp, deleted |-> req[d].batch[i].deleted,
                               base |-> req[d].batch[i].base])
  <2>1. /\ OnlyRequestOf(d, req'[d]) /\ UNCHANGED cursor /\ req[d].phase = "commit"
        /\ req' = [req EXCEPT ![d] =
             [req[d] EXCEPT !.phase = "save", !.at = {}, !.todo = req[d].todo \ {i},
                            !.saved = req[d].saved \cup {shown}]]
    BY <1>0, <1>8 DEF Commit, OnlyRequestOf, clients
  <2> HIDE DEF shown
  <2>2. /\ req'[d].limit = 0 /\ req'[d].next = 0
        /\ \A e \in Device \ {d} : req'[e] = Idle
    BY <1>0, <2>1 DEF Request, NoGap, OnlyRequestOf, WholeInv, Alone
  <2> QED BY <1>0, <1>8, <2>1, <2>2, SavedSeen DEF WholeInv, NoGap, Alone
<1>9. ASSUME NEW d \in Device, Recover(d) \/ Fail(d) \/ Finish(d) PROVE WholeInv'
  <2>1. /\ req'[d] = Idle /\ req[d] # Idle /\ \A e \in Device \ {d} : req'[e] = req[e]
        /\ \A e \in Device : cursor'[e] = 0
    BY <1>0, <1>9 DEF Recover, Fail, Finish, clients, NoGap
  <2>2. \A e \in Device : req'[e] = Idle
    BY <2>1 DEF WholeInv, Alone
  <2> QED BY <1>0, <2>1, <2>2 DEF WholeInv, NoGap, Alone, Track, Past
<1>10. CASE Crash
  <2>1. (\A e \in Device : req'[e] = Idle) /\ UNCHANGED cursor
    BY <1>10 DEF Crash, clients
  <2> QED BY <1>0, <2>1 DEF WholeInv, NoGap, Alone, Track, Past
<1> QED
  BY <1>1, <1>2, <1>3, <1>4, <1>5, <1>6, <1>7, <1>8, <1>9, <1>10
  DEF Next, Failure, Serve

\* With one request after the other, whole responses, and no two saves in one
\* microsecond, no device misses a version, in either protocol version and
\* whatever fails.
THEOREM NothingIsMissed == ASSUME Whole PROVE HistorySpec => []NothingMissed
<1>1. Prompt
  BY DEF Whole
<1>2. HistoryInit => WholeInv
  BY DEF HistoryInit, Init, WholeInv, NoGap, Alone, Idle
<1>3. TypeOK /\ TouchInv /\ WholeInv /\ [HistoryNext]_<<vars, history>> => WholeInv'
  BY WholeStep
<1>4. WholeInv /\ TouchInv => NothingMissed
  BY DEF WholeInv, NoGap, TouchInv, CaughtUp, Asks, NothingMissed, Same
<1> QED BY <1>1, <1>2, <1>3, <1>4, TouchInvariant, PTL DEF HistorySpec

=============================================================================

--------------------------- MODULE ItemSyncProofs ---------------------------
(***************************************************************************)
(* Proofs about ItemSync: its types, two properties of every interleaving  *)
(* of requests, and the registers its items are where requests do not      *)
(* overlap, for any number of items, devices and any clock.                *)
(***************************************************************************)
EXTENDS ItemSync, FiniteSetTheorems, WellFoundedInduction, TLAPS

\* A non-empty set of naturals has the minimum Min returns.
LEMMA MinInNat ==
  ASSUME NEW S \in SUBSET Nat, S # {}
  PROVE  Min(S) \in S /\ \A n \in S : Min(S) <= n
<1>1. \E x \in S : \A y \in S : ~(<<y, x>> \in OpToRel(<, Nat))
  BY NatLessThanWellFounded, WFMin, Zenon
<1>2. \A x, y \in Nat : y < x => <<y, x>> \in OpToRel(<, Nat)
  BY Zenon DEF OpToRel
<1>3. \E x \in S : \A y \in S : ~(y < x)
  BY <1>1, <1>2
<1>4. \E x \in S : \A y \in S : x =< y
  BY <1>3
<1> QED BY <1>4 DEF Min

\* A page is part of the items asked for, and only an empty one is cut to
\* nothing: the cursor of a cut page is the time of one of its items.
LEMMA PageType ==
  ASSUME NEW items \in SUBSET Item, NEW store \in [Item -> Stored],
         NEW limit \in Nat, NEW page \in Pages(items, store, limit)
  PROVE  page \subseteq items /\ NextCursor(items, page, store) \in Nat
<1>1. page \subseteq items
  BY DEF Pages
<1>2. CASE page = items
  BY <1>1, <1>2 DEF NextCursor
<1>3. CASE page # items
  <2>1. IsFiniteSet(items) /\ IsFiniteSet(page)
    BY <1>1, ParameterAssumption, FS_Subset
  <2>2. limit # 0 /\ Cardinality(page) = Min({limit, Cardinality(items)})
    BY <1>3 DEF Pages
  <2>3. Cardinality(items) \in Nat \ {0}
    BY <1>1, <1>3, <2>1, FS_CardinalityType, FS_EmptySet
  <2>4. Min({limit, Cardinality(items)}) \in {limit, Cardinality(items)}
    BY <2>3, MinInNat
  <2>5. page # {}
    BY <2>1, <2>2, <2>3, <2>4, FS_EmptySet
  <2> DEFINE times == {store[i].upd : i \in page}
  <2>6. times # {} /\ times \subseteq Nat
    BY <2>5, <1>1 DEF Stored
  <2>7. Min(times) \in Nat
    BY <2>6, MinInNat
  <2> QED BY <2>7, <1>1, <1>3 DEF NextCursor
<1> QED BY <1>2, <1>3

\* Taking over shown items gives a device copies again.
LEMMA MergeType ==
  ASSUME NEW copies \in [Item -> Copy], NEW shown \in SUBSET Shown
  PROVE  Merge(copies, shown) \in [Item -> Copy]
<1> SUFFICES ASSUME NEW i \in Item, \E v \in shown : v.id = i
             PROVE  LET v == CHOOSE w \in shown : w.id = i
                    IN [upd |-> v.upd, deleted |-> v.deleted] \in Copy
  BY DEF Merge
<1>1. (CHOOSE w \in shown : w.id = i) \in shown
  OBVIOUS
<1> QED BY <1>1 DEF Shown, Copy

-----------------------------------------------------------------------------

\* No request at all is a request.
LEMMA IdleType == Idle \in Request
BY DEF Idle, Request, Phase, NoEdit, Edit

\* The fields a step of a request reads.
LEMMA FieldTypes ==
  ASSUME NEW r \in Request
  PROVE  /\ r.todo \in SUBSET Item /\ r.stamp \in Nat
         /\ r.saved \in SUBSET Shown /\ r.conflicts \in SUBSET Shown
         /\ \A i \in Item : r.batch[i] \in Edit
BY DEF Request

\* What the steps of a request assign to its fields keeps it a request.
LEMMA UpdateType ==
  ASSUME NEW r \in Request, NEW phase \in Phase
  PROVE  /\ [r EXCEPT !.phase = phase] \in Request
         /\ \A retrieved \in SUBSET Shown, next \in Nat :
              [r EXCEPT !.phase = phase, !.retrieved = retrieved, !.next = next] \in Request
         /\ \A at \in SUBSET Item : [r EXCEPT !.phase = phase, !.at = at] \in Request
         /\ \A stamp \in Nat : [r EXCEPT !.phase = phase, !.stamp = stamp] \in Request
         /\ \A at, todo \in SUBSET Item :
              [r EXCEPT !.phase = phase, !.at = at, !.todo = todo] \in Request
         /\ \A at, todo \in SUBSET Item, saved \in SUBSET Shown :
              [r EXCEPT !.phase = phase, !.at = at, !.todo = todo, !.saved = saved]
                \in Request
         /\ \A todo \in SUBSET Item, conflicts \in SUBSET Shown :
              [r EXCEPT !.todo = todo, !.conflicts = conflicts] \in Request
<1> DEFINE Apis == Api \cup {"none"}
           Batch == [Item -> Edit]
           Items == SUBSET Item
           Versions == SUBSET Shown
           R == [phase : Phase, api : Apis, limit : Nat, batch : Batch, todo : Items,
                 at : Items, stamp : Nat, retrieved : Versions, next : Nat,
                 saved : Versions, conflicts : Versions]
<1>1. Request = R
  BY DEF Request
<1>2. r \in R /\ phase \in Phase
  BY <1>1
<1> HIDE DEF Apis, Batch, Items, Versions
<1>3. [r EXCEPT !.phase = phase] \in R
  BY ONLY <1>2
<1>4. \A retrieved \in Versions, next \in Nat :
        [r EXCEPT !.phase = phase, !.retrieved = retrieved, !.next = next] \in R
  BY ONLY <1>2
<1>5. \A at \in Items : [r EXCEPT !.phase = phase, !.at = at] \in R
  BY ONLY <1>2
<1>6. \A stamp \in Nat : [r EXCEPT !.phase = phase, !.stamp = stamp] \in R
  BY ONLY <1>2
<1>7. \A at, todo \in Items : [r EXCEPT !.phase = phase, !.at = at, !.todo = todo] \in R
  BY ONLY <1>2
<1>8. \A at, todo \in Items, saved \in Versions :
        [r EXCEPT !.phase = phase, !.at = at, !.todo = todo, !.saved = saved] \in R
  BY ONLY <1>2
<1>9. \A todo \in Items, conflicts \in Versions :
        [r EXCEPT !.todo = todo, !.conflicts = conflicts] \in R
  BY ONLY <1>2
<1> HIDE DEF R
<1> QED BY <1>1, <1>3, <1>4, <1>5, <1>6, <1>7, <1>8, <1>9, Zenon DEF Items, Versions

\* The latest of the saved items is what Max finds.
LEMMA SyncTokenPast ==
  ASSUME NEW r \in Request, NEW now \in Nat, InOrder(r, now)
  PROVE  /\ SyncToken(r, now) \in Nat
         /\ \A v \in r.retrieved \cup r.saved : v.upd < SyncToken(r, now)
<1> USE DEF Request, Shown
<1>1. CASE r.saved = {}
  BY <1>1 DEF SyncToken, InOrder
<1>2. CASE r.saved # {}
  <2> DEFINE times == {s.upd : s \in r.saved}
  <2>1. PICK m \in r.saved : \A s \in r.saved : m.upd >= s.upd
    BY <1>2 DEF InOrder
  <2>2. m.upd \in times /\ \A t \in times : m.upd >= t
    BY <2>1
  <2>3. Max(times) \in times /\ \A t \in times : Max(times) >= t
    BY <2>2 DEF Max
  <2>4. times \subseteq Nat
    OBVIOUS
  <2>5. SyncToken(r, now) = Max(times) + 1
    BY <1>2 DEF SyncToken
  <2>6. \A s \in r.saved : s.upd \in times
    OBVIOUS
  <2> HIDE DEF times
  <2>7. SyncToken(r, now) \in Nat /\ \A s \in r.saved : s.upd < SyncToken(r, now)
    <3>1. Max(times) \in Nat
      BY <2>3, <2>4
    <3>2. ASSUME NEW s \in r.saved PROVE s.upd < Max(times) + 1
      <4>1. s.upd \in Nat /\ Max(times) >= s.upd
        BY <2>3, <2>4, <2>6
      <4> QED BY ONLY <3>1, <4>1
    <3>3. Max(times) + 1 \in Nat
      BY ONLY <3>1
    <3> QED BY ONLY <2>5, <3>2, <3>3
  <2>8. \A v \in r.retrieved : v.upd < m.upd
    BY <2>1 DEF InOrder
  <2>9. ASSUME NEW v \in r.retrieved PROVE v.upd < SyncToken(r, now)
    <3>1. v.upd \in Nat /\ m.upd \in Nat
      BY <2>1
    <3>2. v.upd < m.upd /\ m.upd < SyncToken(r, now) /\ SyncToken(r, now) \in Nat
      BY <2>1, <2>7, <2>8
    <3> QED BY ONLY <3>1, <3>2
  <2> QED BY <2>7, <2>9
<1> QED BY <1>1, <1>2

-----------------------------------------------------------------------------

\* What a device that takes over a response ends up with is typed.
LEMMA ViewType ==
  ASSUME NEW copies \in [Item -> Copy], NEW r \in Request
  PROVE  View(copies, r) \in [Item -> Copy]
<1>1. Retrieved(r) \in SUBSET Shown /\ r.saved \cup r.conflicts \in SUBSET Shown
  BY DEF Request, Retrieved
<1>2. Merge(copies, Retrieved(r)) \in [Item -> Copy]
  BY <1>1, MergeType
<1> QED BY <1>1, <1>2, MergeType DEF View

\* A request of a device is typed when it is sent.
LEMMA SubmitType ==
  ASSUME NEW d \in Device, known \in [Device -> [Item -> Copy]],
         NEW dirty \in SUBSET Item, NEW api \in Api, NEW limit \in Limits,
         NEW loss \in Losses, NEW omit \in BOOLEAN, NEW gone
  PROVE  NewRequest(d, api, limit, dirty, gone, loss, omit) \in Request
<1> DEFINE batch == [i \in Item |->
                       IF i \in dirty THEN EditOf(d, i, loss, omit, i \in gone)
                                      ELSE NoEdit]
<1>1. loss \in Nat /\ limit \in Nat
  BY IntervalAssumption, ParameterAssumption
<1>2. \A i \in Item : known[d][i].upd \in Nat
  BY DEF Copy
<1>3. \A i \in Item : EditOf(d, i, loss, omit, i \in gone) \in Edit
  BY <1>1, <1>2 DEF EditOf, Edit, Omitted
<1>4. NoEdit \in Edit
  BY DEF NoEdit, Edit
<1>5. batch \in [Item -> Edit]
  BY <1>3, <1>4
<1> HIDE DEF batch
<1>6. [Idle EXCEPT !.phase = "get", !.api = api, !.limit = limit, !.todo = dirty,
                   !.batch = batch] \in Request
  BY <1>1, <1>5, IdleType DEF Request, Phase
<1> QED BY <1>6 DEF batch, NewRequest

\* Submit sends a request of the kind NewRequest builds.
LEMMA SubmitSends ==
  ASSUME NEW d \in Device, Submit(d)
  PROVE  \E dirty \in SUBSET Item, api \in Api, limit \in Limits, loss \in Losses,
            omit \in BOOLEAN : \E gone \in SUBSET dirty :
           req' = [req EXCEPT ![d] = NewRequest(d, api, limit, dirty, gone, loss, omit)]
<1>1. Editable(d) \subseteq Item /\ {FALSE, OmitUpdatedAt} \subseteq BOOLEAN
  BY ParameterAssumption DEF Editable
<1>2. PICK dirty \in SUBSET Editable(d), api \in Api, limit \in Limits,
           loss \in Losses, omit \in {FALSE, OmitUpdatedAt} :
        \E gone \in SUBSET dirty :
          req' = [req EXCEPT ![d] = NewRequest(d, api, limit, dirty, gone, loss, omit)]
  BY DEF Submit
<1>3. dirty \in SUBSET Item /\ omit \in BOOLEAN
  BY <1>1
<1> QED BY <1>2, <1>3

\* Get puts a part of the items, as they are stored, into the response.
LEMMA GetShows ==
  ASSUME TypeOK, NEW d \in Device, Get(d)
  PROVE  \E page \in SUBSET Item, next \in Nat :
           req' = [req EXCEPT ![d] =
             [@ EXCEPT !.phase = "save", !.retrieved = {Show(i, db[i]) : i \in page},
                       !.next = next]]
<1> DEFINE items == {i \in Item : Matches(token[d], cursor[d], db[i])}
           limit == IF token[d] = 0 THEN 0 ELSE req[d].limit
<1>1. PICK page \in Pages(items, db, limit) :
        req' = [req EXCEPT ![d] =
          [@ EXCEPT !.phase = "save", !.retrieved = {Show(i, db[i]) : i \in page},
                    !.next = NextCursor(items, page, db)]]
  BY DEF Get
<1>2. db \in [Item -> Stored] /\ limit \in Nat /\ items \in SUBSET Item
  BY DEF TypeOK, Request
<1> HIDE DEF items, limit
<1>3. page \in SUBSET Item /\ NextCursor(items, page, db) \in Nat
  BY <1>2, PageType
<1> QED BY <1>1, <1>3

\* Every action keeps the types: one step per action, the new request first.
LEMMA TypeStep == TypeOK /\ StampsOrdered /\ [Next]_vars => TypeOK'
<1> SUFFICES ASSUME TypeOK, StampsOrdered, [Next]_vars PROVE TypeOK'
  OBVIOUS
<1>0. /\ clock \in Nat /\ db \in [Item -> Stored] /\ req \in [Device -> Request]
      /\ known \in [Device -> [Item -> Copy]]
      /\ token \in [Device -> Nat] /\ cursor \in [Device -> Nat]
  BY DEF TypeOK
<1>1. ASSUME NEW d \in Device, Submit(d) PROVE TypeOK'
  <2>1. req' \in [Device -> Request]
    BY <1>0, <1>1, SubmitSends, SubmitType
  <2> QED BY <1>1, <2>1 DEF Submit, TypeOK, clients
<1>2. ASSUME NEW d \in Device, Get(d) PROVE TypeOK'
  <2>1. PICK page \in SUBSET Item, next \in Nat :
          req' = [req EXCEPT ![d] =
            [@ EXCEPT !.phase = "save", !.retrieved = {Show(i, db[i]) : i \in page},
                      !.next = next]]
    BY <1>2, GetShows
  <2>2. {Show(i, db[i]) : i \in page} \in SUBSET Shown
    BY <1>0 DEF Show, Shown, Stored
  <2> DEFINE shown == {Show(i, db[i]) : i \in page}
  <2>3. shown \in SUBSET Shown /\ req[d] \in Request
    BY <1>0, <2>2
  <2>4. req' = [req EXCEPT ![d] =
                 [req[d] EXCEPT !.phase = "save", !.retrieved = shown, !.next = next]]
    BY <2>1
  <2> HIDE DEF shown
  <2>5. [req[d] EXCEPT !.phase = "save", !.retrieved = shown, !.next = next] \in Request
    BY <2>3, UpdateType DEF Phase
  <2>6. req' \in [Device -> Request]
    BY <1>0, <2>4, <2>5
  <2> QED BY <1>2, <2>6 DEF Get, TypeOK, clients
<1>3. ASSUME NEW d \in Device, NEW i \in Item, Accept(d, i) PROVE TypeOK'
  <2>1. [req[d] EXCEPT !.phase = "stamp", !.at = {i}] \in Request
    <3>1. req[d] \in Request /\ "stamp" \in Phase /\ {i} \in SUBSET Item
      BY <1>0 DEF Phase
    <3> QED BY <3>1, UpdateType, Zenon
  <2>2. req' \in [Device -> Request]
    BY <1>0, <1>3, <2>1 DEF Accept
  <2> QED BY <1>3, <2>2 DEF Accept, TypeOK, clients
<1>4. ASSUME NEW d \in Device, NEW i \in Item, Conflict(d, i) PROVE TypeOK'
  <2>1. Show(i, db[i]) \in Shown
    BY <1>0 DEF Show, Shown, Stored
  <2> DEFINE todo == req[d].todo \ {i}
             conflicts == req[d].conflicts \cup {Show(i, db[i])}
  <2>2. todo \in SUBSET Item /\ conflicts \in SUBSET Shown
    BY <1>0, <2>1, FieldTypes
  <2>3. req' = [req EXCEPT ![d] = [req[d] EXCEPT !.todo = todo, !.conflicts = conflicts]]
    BY <1>4 DEF Conflict
  <2> HIDE DEF todo, conflicts
  <2>4. [req[d] EXCEPT !.todo = todo, !.conflicts = conflicts] \in Request
    <3>1. req[d] \in Request /\ "save" \in Phase
      BY <1>0 DEF Phase
    <3> QED BY <2>2, <3>1, UpdateType, Zenon
  <2>5. req' \in [Device -> Request]
    BY <1>0, <2>3, <2>4
  <2> QED BY <1>4, <2>5 DEF Conflict, TypeOK, clients
<1>5. ASSUME NEW d \in Device, NEW i \in Item, Panic(d, i) PROVE TypeOK'
  <2>1. [req[d] EXCEPT !.phase = "panicked"] \in Request
    BY <1>0, UpdateType DEF Phase
  <2>2. req' \in [Device -> Request]
    BY <1>0, <1>5, <2>1 DEF Panic
  <2> QED BY <1>5, <2>2 DEF Panic, TypeOK, clients
<1>6. ASSUME NEW d \in Device, Recover(d) PROVE TypeOK'
  BY <1>6, IdleType DEF Recover, TypeOK, clients
<1>7. ASSUME NEW d \in Device, Stamp(d) PROVE TypeOK'
  <2>1. clock' \in Nat
    BY <1>0, <1>7, ParameterAssumption DEF Stamp
  <2>2. [req[d] EXCEPT !.phase = "commit", !.stamp = clock'] \in Request
    BY <1>0, <2>1, UpdateType DEF Phase
  <2>3. req' \in [Device -> Request]
    BY <1>0, <1>7, <2>2 DEF Stamp
  <2> QED BY <1>7, <2>1, <2>3 DEF Stamp, TypeOK, clients
<1>8. ASSUME NEW d \in Device, NEW i \in Item, Commit(d, i) PROVE TypeOK'
  <2> DEFINE edit == req[d].batch[i]
             version == [upd |-> req[d].stamp, deleted |-> edit.deleted, base |-> edit.base]
             todo == req[d].todo \ {i}
             saved == req[d].saved \cup {Show(i, version)}
  <2>1. edit \in Edit /\ req[d].stamp \in Nat
    BY <1>0, FieldTypes
  <2>2. version \in Stored /\ Show(i, version) \in Shown
    BY <2>1 DEF Edit, Stored, Show, Shown
  <2>3. todo \in SUBSET Item /\ saved \in SUBSET Shown
    BY <1>0, <2>2, FieldTypes
  <2>4. /\ db' = [db EXCEPT ![i] = version]
        /\ req' = [req EXCEPT ![d] =
             [req[d] EXCEPT !.phase = "save", !.at = {}, !.todo = todo, !.saved = saved]]
    BY <1>8 DEF Commit
  <2> HIDE DEF edit, version, todo, saved
  <2>5. [req[d] EXCEPT !.phase = "save", !.at = {}, !.todo = todo, !.saved = saved]
          \in Request
    BY <1>0, <2>3, UpdateType DEF Phase
  <2>6. req' \in [Device -> Request] /\ db' \in [Item -> Stored]
    BY <1>0, <2>2, <2>4, <2>5
  <2> QED BY <1>8, <2>6 DEF Commit, TypeOK, clients
<1>9. ASSUME NEW d \in Device, NEW i \in Item, SkipFailed(d, i) PROVE TypeOK'
  <2> DEFINE todo == req[d].todo \ {i}
  <2>1. todo \in SUBSET Item
    BY <1>0, FieldTypes
  <2>2. req' \in [Device -> Request]
    BY <1>0, <1>9, <2>1, UpdateType DEF SkipFailed, Phase
  <2> QED BY <1>9, <2>2 DEF SkipFailed, TypeOK, clients
<1>10. ASSUME NEW d \in Device, Finish(d) PROVE TypeOK'
  <2>1. View(known[d], req[d]) \in [Item -> Copy]
    BY <1>0, ViewType
  <2>2. Signature(db) \in SUBSET Nat
    BY <1>0 DEF Signature, Stored
  <2>3. req[d].next \in Nat /\ SyncToken(req[d], clock) \in Nat
    BY <1>0, SyncTokenPast DEF Request, StampsOrdered
  <2> QED BY <1>10, <2>1, <2>2, <2>3, IdleType DEF Finish, TypeOK
<1>11. ASSUME NEW d \in Device, Fail(d) PROVE TypeOK'
  BY <1>11, IdleType DEF Fail, TypeOK, clients
<1>12. ASSUME Crash PROVE TypeOK'
  BY <1>12, IdleType DEF Crash, TypeOK, clients
<1>13. CASE UNCHANGED vars
  BY <1>13 DEF vars, TypeOK
<1> QED
  BY <1>1, <1>2, <1>3, <1>4, <1>5, <1>6, <1>7, <1>8, <1>9, <1>10, <1>11, <1>12, <1>13
  DEF Next, Failure, Serve

-----------------------------------------------------------------------------

\* A device without a request has nothing out of order.
LEMMA IdleInOrder == ASSUME NEW now PROVE InOrder(Idle, now)
BY DEF InOrder, Idle

\* What was in order stays so when time passes.
LEMMA InOrderLater ==
  ASSUME NEW r \in Request, NEW now \in Nat, NEW later \in Nat, now <= later,
         InOrder(r, now)
  PROVE  InOrder(r, later)
<1>1. r.stamp \in Nat /\ \A v \in r.retrieved \cup r.saved : v.upd \in Nat
  BY DEF Request, Shown
<1>2. \A n \in Nat : n <= now => n <= later
  OBVIOUS
<1> QED BY <1>1, <1>2 DEF InOrder

\* Replacing the request of one device by one in order keeps the invariant.
OnlyRequestOf(d, r) == req'[d] = r /\ \A e \in Device \ {d} : req'[e] = req[e]

\* An action that changes one request, and no stored version, keeps the stamps
\* in order if that request is.
LEMMA OrderKept ==
  ASSUME TypeOK, StampsOrdered, NEW d \in Device,
         OnlyRequestOf(d, req'[d]),
         clock' \in Nat, clock <= clock', InOrder(req'[d], clock'),
         \A i \in Item : db'[i].upd <= clock'
  PROVE  StampsOrdered'
<1>1. ASSUME NEW e \in Device PROVE InOrder(req'[e], clock')
  <2>1. CASE e = d
    BY <2>1
  <2>2. CASE e # d
    <3>1. req'[e] = req[e] /\ req[e] \in Request
      BY <2>2 DEF TypeOK, OnlyRequestOf
    <3>2. InOrder(req[e], clock')
      BY <3>1, InOrderLater DEF StampsOrdered, TypeOK
    <3> QED BY <3>1, <3>2
  <2> QED BY <2>1, <2>2
<1> QED BY <1>1 DEF StampsOrdered

\* Every action keeps the stamps in order: one step per action.
LEMMA StampsStep == TypeOK /\ StampsOrdered /\ [Next]_vars => StampsOrdered'
<1> SUFFICES ASSUME TypeOK, StampsOrdered, [Next]_vars PROVE StampsOrdered'
  OBVIOUS
<1>0. /\ clock \in Nat /\ db \in [Item -> Stored] /\ req \in [Device -> Request]
      /\ \A i \in Item : db[i].upd \in Nat /\ db[i].upd <= clock
      /\ \A d \in Device : req[d] \in Request /\ InOrder(req[d], clock)
  BY DEF TypeOK, StampsOrdered, Stored
<1>1. ASSUME NEW d \in Device, Submit(d) PROVE StampsOrdered'
  <2>1. PICK r \in Request : /\ r.retrieved = {} /\ r.saved = {} /\ r.phase = "get"
                             /\ OnlyRequestOf(d, r)
    <3>1. PICK dirty \in SUBSET Item, api \in Api, limit \in Limits, loss \in Losses,
               omit \in BOOLEAN : \E gone \in SUBSET dirty :
            req' = [req EXCEPT ![d] = NewRequest(d, api, limit, dirty, gone, loss, omit)]
      BY <1>1, SubmitSends
    <3>2. PICK gone \in SUBSET dirty :
            req' = [req EXCEPT ![d] = NewRequest(d, api, limit, dirty, gone, loss, omit)]
      BY <3>1
    <3> DEFINE r == NewRequest(d, api, limit, dirty, gone, loss, omit)
    <3>3. r \in Request
      BY SubmitType DEF TypeOK
    <3>4. r.retrieved = {} /\ r.saved = {} /\ r.phase = "get"
      BY DEF NewRequest, Idle
    <3> QED BY <1>0, <3>2, <3>3, <3>4 DEF OnlyRequestOf
  <2>2. InOrder(r, clock)
    BY <2>1 DEF InOrder
  <2>3. clock' = clock /\ db' = db
    BY <1>1 DEF Submit
  <2> QED BY <1>0, <2>1, <2>2, <2>3, OrderKept DEF OnlyRequestOf
<1>2. ASSUME NEW d \in Device, Get(d) PROVE StampsOrdered'
  <2>1. PICK page \in SUBSET Item, next \in Nat :
          req' = [req EXCEPT ![d] =
            [@ EXCEPT !.phase = "save", !.retrieved = {Show(i, db[i]) : i \in page},
                      !.next = next]]
    BY <1>2, GetShows
  <2> DEFINE r == [req[d] EXCEPT !.phase = "save",
                                 !.retrieved = {Show(i, db[i]) : i \in page},
                                 !.next = next]
  <2>2. r.phase = "save" /\ r.retrieved = {Show(i, db[i]) : i \in page}
        /\ r.saved = {}
    <3>1. req[d] \in Request /\ req[d].saved = {}
      BY <1>0, <1>2 DEF Get, InOrder
    <3> QED BY <3>1 DEF Request
  <2>3. InOrder(r, clock)
    BY <1>0, <2>2 DEF InOrder, Show
  <2>4. OnlyRequestOf(d, r) /\ clock' = clock /\ db' = db
    BY <1>0, <1>2, <2>1 DEF Get, OnlyRequestOf
  <2> HIDE DEF r
  <2> QED BY <1>0, <2>3, <2>4, OrderKept DEF OnlyRequestOf
<1>3. ASSUME NEW d \in Device, NEW i \in Item, Accept(d, i) PROVE StampsOrdered'
  <2> DEFINE r == [req[d] EXCEPT !.phase = "stamp", !.at = {i}]
  <2>1. InOrder(r, clock)
    BY <1>0 DEF InOrder, Request
  <2>2. OnlyRequestOf(d, r) /\ clock' = clock /\ db' = db
    BY <1>0, <1>3 DEF Accept, OnlyRequestOf
  <2> HIDE DEF r
  <2> QED BY <1>0, <2>1, <2>2, OrderKept DEF OnlyRequestOf
<1>4. ASSUME NEW d \in Device, NEW i \in Item, Conflict(d, i) PROVE StampsOrdered'
  <2> DEFINE r == [req[d] EXCEPT !.todo = req[d].todo \ {i},
                                 !.conflicts = req[d].conflicts \cup {Show(i, db[i])}]
  <2>1. InOrder(r, clock)
    BY <1>0 DEF InOrder, Request
  <2>2. OnlyRequestOf(d, r) /\ clock' = clock /\ db' = db
    BY <1>0, <1>4 DEF Conflict, OnlyRequestOf
  <2> HIDE DEF r
  <2> QED BY <1>0, <2>1, <2>2, OrderKept DEF OnlyRequestOf
<1>5. ASSUME NEW d \in Device, NEW i \in Item, Panic(d, i) PROVE StampsOrdered'
  <2> DEFINE r == [req[d] EXCEPT !.phase = "panicked"]
  <2>1. InOrder(r, clock)
    BY <1>0 DEF InOrder, Request
  <2>2. OnlyRequestOf(d, r) /\ clock' = clock /\ db' = db
    BY <1>0, <1>5 DEF Panic, OnlyRequestOf
  <2> HIDE DEF r
  <2> QED BY <1>0, <2>1, <2>2, OrderKept DEF OnlyRequestOf
<1>6. ASSUME NEW d \in Device, Recover(d) PROVE StampsOrdered'
  <2>1. OnlyRequestOf(d, Idle) /\ clock' = clock /\ db' = db
    BY <1>0, <1>6 DEF Recover, OnlyRequestOf
  <2> QED BY <1>0, <2>1, IdleInOrder, OrderKept DEF OnlyRequestOf
<1>7. ASSUME NEW d \in Device, Stamp(d) PROVE StampsOrdered'
  <2> DEFINE r == [req[d] EXCEPT !.phase = "commit", !.stamp = clock']
  <2>1. clock' \in Nat /\ clock < clock'
    BY <1>0, <1>7, ParameterAssumption DEF Stamp
  <2>2. /\ r.phase = "commit" /\ r.stamp = clock'
        /\ r.retrieved = req[d].retrieved /\ r.saved = req[d].saved
    BY <1>0 DEF Request
  <2>3. \A v \in r.retrieved \cup r.saved : v.upd \in Nat /\ v.upd <= clock
    BY <1>0, <2>2 DEF InOrder, Request, Shown
  <2>4. \A v \in r.retrieved \cup r.saved : v.upd <= clock' /\ v.upd < clock'
    BY <1>0, <2>1, <2>3
  <2>5. InOrder(r, clock')
    BY <1>0, <2>1, <2>2, <2>4 DEF InOrder
  <2>6. OnlyRequestOf(d, r) /\ db' = db
    BY <1>0, <1>7 DEF Stamp, OnlyRequestOf
  <2> HIDE DEF r
  <2> QED BY <1>0, <2>1, <2>5, <2>6, OrderKept DEF OnlyRequestOf
<1>8. ASSUME NEW d \in Device, NEW i \in Item, Commit(d, i) PROVE StampsOrdered'
  <2> DEFINE old == req[d]
             edit == old.batch[i]
             version == [upd |-> old.stamp, deleted |-> edit.deleted, base |-> edit.base]
             r == [old EXCEPT !.phase = "save", !.at = {}, !.todo = old.todo \ {i},
                              !.saved = old.saved \cup {Show(i, version)}]
  <2>1. old \in Request /\ InOrder(old, clock) /\ old.phase = "commit" /\ version.upd = old.stamp
    BY <1>0, <1>8 DEF Commit
  <2>2. old.stamp \in Nat /\ old.stamp <= clock
    BY <2>1 DEF InOrder, Request
  <2>3. OnlyRequestOf(d, r) /\ db' = [db EXCEPT ![i] = version] /\ clock' = clock
    BY <1>0, <1>8 DEF Commit, OnlyRequestOf
  <2>4. \A j \in Item : db'[j].upd <= clock
    BY <1>0, <2>1, <2>2, <2>3
  <2>5. /\ r.phase = "save" /\ r.retrieved = old.retrieved
        /\ r.saved = old.saved \cup {Show(i, version)} /\ Show(i, version).upd = old.stamp
    BY <2>1 DEF Request, Show
  <2>6. \A v \in old.retrieved \cup old.saved : v.upd \in Nat /\ v.upd <= clock /\ v.upd < old.stamp
    BY <2>1 DEF InOrder, Request, Shown
  <2> HIDE DEF r, version, old
  <2>7. \A v \in r.retrieved \cup r.saved : v.upd <= clock
    BY <2>2, <2>5, <2>6
  <2>8. \A v \in r.retrieved, s \in r.saved : v.upd < s.upd
    BY <2>1, <2>5, <2>6 DEF InOrder
  <2>9. \A s \in r.saved : Show(i, version).upd >= s.upd
    BY <2>2, <2>5, <2>6
  <2>10. InOrder(r, clock)
    BY <2>5, <2>7, <2>8, <2>9 DEF InOrder
  <2> QED BY <1>0, <2>3, <2>4, <2>10, OrderKept DEF OnlyRequestOf
<1>9. ASSUME NEW d \in Device, NEW i \in Item, SkipFailed(d, i) PROVE StampsOrdered'
  <2> DEFINE r == [req[d] EXCEPT !.phase = "save", !.at = {}, !.todo = req[d].todo \ {i}]
  <2>1. InOrder(r, clock)
    BY <1>0 DEF InOrder, Request
  <2>2. OnlyRequestOf(d, r) /\ clock' = clock /\ db' = db
    BY <1>0, <1>9 DEF SkipFailed, OnlyRequestOf
  <2> HIDE DEF r
  <2> QED BY <1>0, <2>1, <2>2, OrderKept DEF OnlyRequestOf
<1>10. ASSUME NEW d \in Device, Finish(d) PROVE StampsOrdered'
  <2>1. OnlyRequestOf(d, Idle) /\ clock' = clock /\ db' = db
    BY <1>0, <1>10 DEF Finish, OnlyRequestOf
  <2> QED BY <1>0, <2>1, IdleInOrder, OrderKept DEF OnlyRequestOf
<1>11. ASSUME NEW d \in Device, Fail(d) PROVE StampsOrdered'
  <2>1. OnlyRequestOf(d, Idle) /\ clock' = clock /\ db' = db
    BY <1>0, <1>11 DEF Fail, OnlyRequestOf
  <2> QED BY <1>0, <2>1, IdleInOrder, OrderKept DEF OnlyRequestOf
<1>12. ASSUME Crash PROVE StampsOrdered'
  BY <1>0, <1>12, IdleInOrder DEF Crash, StampsOrdered
<1>13. CASE UNCHANGED vars
  BY <1>13 DEF vars, StampsOrdered
<1> QED
  BY <1>1, <1>2, <1>3, <1>4, <1>5, <1>6, <1>7, <1>8, <1>9, <1>10, <1>11, <1>12, <1>13
  DEF Next, Failure, Serve

\* Initially nothing is stored, requested or known.
LEMMA InitTyped == Init => TypeOK /\ StampsOrdered
<1> SUFFICES ASSUME Init PROVE TypeOK /\ StampsOrdered
  OBVIOUS
<1>1. clock \in Nat /\ 0 <= clock
  BY IntervalAssumption DEF Init
<1>2. TypeOK
  BY <1>1, IdleType DEF Init, TypeOK, Absent, Stored, NoCopy, Copy
<1>3. StampsOrdered
  BY <1>1, IdleInOrder DEF Init, StampsOrdered, Absent
<1> QED BY <1>2, <1>3

\* The variables keep their types in every behaviour.  The types alone are not
\* inductive: a sync token is a time because the saved items have a latest one.
THEOREM TypeCorrect == Spec => [](TypeOK /\ StampsOrdered)
<1>1. Init => TypeOK /\ StampsOrdered
  BY InitTyped
<1>2. TypeOK /\ StampsOrdered /\ [Next]_vars => (TypeOK /\ StampsOrdered)'
  BY TypeStep, StampsStep
<1> QED BY <1>1, <1>2, PTL DEF Spec

\* However the requests of the devices interleave, and whichever fail, the sync
\* token of a response is past all the response shows as retrieved or saved.
THEOREM TokenCovers == Spec => []TokenCoversResponse
<1>1. TypeOK /\ StampsOrdered => TokenCoversResponse
  <2> SUFFICES ASSUME TypeOK, StampsOrdered, NEW d \in Device
               PROVE  \A v \in req[d].retrieved \cup req[d].saved :
                        v.upd < SyncToken(req[d], clock)
    BY DEF TokenCoversResponse
  <2>1. req[d] \in Request /\ clock \in Nat /\ InOrder(req[d], clock)
    BY DEF TypeOK, StampsOrdered
  <2> QED BY <2>1, SyncTokenPast
<1> QED BY <1>1, TypeCorrect, PTL

-----------------------------------------------------------------------------

\* A device without a request has no edit and no conflict.
LEMMA IdleFounded == Founded(Idle)
BY IntervalAssumption DEF Founded, Idle, NoEdit, Omitted

\* The edits of a new request are rounded by less than the interval.
LEMMA SubmitFounded ==
  ASSUME NEW d \in Device, known \in [Device -> [Item -> Copy]],
         NEW dirty \in SUBSET Item, NEW api \in Api, NEW limit \in Limits,
         NEW loss \in Losses, NEW omit \in BOOLEAN, NEW gone
  PROVE  Founded(NewRequest(d, api, limit, dirty, gone, loss, omit))
<1> DEFINE r == NewRequest(d, api, limit, dirty, gone, loss, omit)
<1>1. /\ r.conflicts = {}
      /\ r.batch = [i \in Item |-> IF i \in dirty THEN EditOf(d, i, loss, omit, i \in gone)
                                                  ELSE NoEdit]
  BY DEF NewRequest, Idle
<1>2. loss \in Nat /\ loss < ConflictInterval /\ ConflictInterval \in Nat \ {0}
  BY IntervalAssumption
<1>3. ASSUME NEW i \in Item, r.batch[i].upd # Omitted
      PROVE  /\ r.batch[i].upd <= r.batch[i].base
             /\ r.batch[i].base - r.batch[i].upd < ConflictInterval
  <2>1. CASE i \in dirty
    <3>1. r.batch[i] = EditOf(d, i, loss, omit, i \in gone) /\ known[d][i].upd \in Nat
      BY <1>1, <2>1 DEF Copy
    <3> QED BY <1>2, <1>3, <3>1 DEF EditOf
  <2>2. CASE i \notin dirty
    BY <1>1, <1>2, <2>2 DEF NoEdit
  <2> QED BY <2>1, <2>2
<1> HIDE DEF r
<1>4. Founded(r)
  BY <1>1, <1>3 DEF Founded
<1> QED BY <1>4 DEF r

\* An action that changes one request keeps the conflicts founded if that
\* request is.
LEMMA FoundedKept ==
  ASSUME ConflictsFounded, NEW d \in Device, OnlyRequestOf(d, req'[d]), Founded(req'[d])
  PROVE  ConflictsFounded'
BY DEF ConflictsFounded, OnlyRequestOf

\* A request whose batch and conflicts an action leaves alone stays founded.
LEMMA FoundedSame ==
  ASSUME ConflictsFounded, NEW d \in Device, OnlyRequestOf(d, req'[d]),
         req'[d].batch = req[d].batch, req'[d].conflicts = req[d].conflicts
  PROVE  ConflictsFounded'
BY FoundedKept DEF ConflictsFounded, Founded

\* Every action keeps the conflicts founded.
LEMMA ConflictsStep == TypeOK /\ ConflictsFounded /\ [Next]_vars => ConflictsFounded'
<1> SUFFICES ASSUME TypeOK, ConflictsFounded, [Next]_vars PROVE ConflictsFounded'
  OBVIOUS
<1>0. /\ req \in [Device -> Request] /\ known \in [Device -> [Item -> Copy]]
      /\ \A d \in Device : req[d] \in Request /\ Founded(req[d])
  BY DEF TypeOK, ConflictsFounded
<1>1. ASSUME NEW d \in Device, Submit(d) PROVE ConflictsFounded'
  <2>1. PICK dirty \in SUBSET Item, api \in Api, limit \in Limits, loss \in Losses,
             omit \in BOOLEAN : \E gone \in SUBSET dirty :
          req' = [req EXCEPT ![d] = NewRequest(d, api, limit, dirty, gone, loss, omit)]
    BY <1>1, SubmitSends
  <2>2. PICK gone \in SUBSET dirty :
          req' = [req EXCEPT ![d] = NewRequest(d, api, limit, dirty, gone, loss, omit)]
    BY <2>1
  <2>3. Founded(NewRequest(d, api, limit, dirty, gone, loss, omit))
    BY <1>0, SubmitFounded
  <2>4. Founded(req'[d]) /\ OnlyRequestOf(d, req'[d])
    BY <1>0, <2>2, <2>3 DEF OnlyRequestOf
  <2> QED BY <2>4, FoundedKept
<1>2. ASSUME NEW d \in Device, Get(d) PROVE ConflictsFounded'
  <2>1. OnlyRequestOf(d, req'[d]) /\ req'[d].batch = req[d].batch
        /\ req'[d].conflicts = req[d].conflicts
    <3>1. PICK shown, next :
            req' = [req EXCEPT ![d] =
              [req[d] EXCEPT !.phase = "save", !.retrieved = shown, !.next = next]]
      BY <1>2, GetShows
    <3> QED BY <1>0, <3>1 DEF OnlyRequestOf, Request
  <2> QED BY <2>1, FoundedSame
<1>3. ASSUME NEW d \in Device, NEW i \in Item, Accept(d, i) PROVE ConflictsFounded'
  <2>1. OnlyRequestOf(d, req'[d]) /\ req'[d].batch = req[d].batch
        /\ req'[d].conflicts = req[d].conflicts
    BY <1>0, <1>3 DEF Accept, OnlyRequestOf, Request
  <2> QED BY <2>1, FoundedSame
<1>4. ASSUME NEW d \in Device, NEW i \in Item, Conflict(d, i) PROVE ConflictsFounded'
  <2> DEFINE old == req[d]
             edit == old.batch[i]
             c == Show(i, db[i])
  <2>1. /\ OnlyRequestOf(d, req'[d]) /\ req'[d].batch = old.batch
        /\ req'[d].conflicts = old.conflicts \cup {c}
    BY <1>0, <1>4 DEF Conflict, OnlyRequestOf, Request
  <2>2. c.id = i /\ c.upd = db[i].upd
    BY DEF Show
  <2>3. edit.upd # Omitted /\ ~(Distance(edit.upd, db[i].upd) < ConflictInterval)
    BY <1>4 DEF Conflict, Admits
  <2>4. Distance(edit.upd, db[i].upd) \in Int /\ ConflictInterval \in Int
    BY <1>0, IntervalAssumption DEF Distance, Request, Edit, TypeOK, Stored
  <2>5. Distance(edit.upd, db[i].upd) >= ConflictInterval
    BY <2>3, <2>4
  <2>6. Founded(old)
    BY <1>0
  <2> HIDE DEF old, c
  <2>7. Founded(req'[d])
    BY <2>1, <2>2, <2>3, <2>5, <2>6 DEF Founded
  <2> QED BY <2>1, <2>7, FoundedKept
<1>5. ASSUME NEW d \in Device, NEW i \in Item, Panic(d, i) PROVE ConflictsFounded'
  <2>1. OnlyRequestOf(d, req'[d]) /\ req'[d].batch = req[d].batch
        /\ req'[d].conflicts = req[d].conflicts
    BY <1>0, <1>5 DEF Panic, OnlyRequestOf, Request
  <2> QED BY <2>1, FoundedSame
<1>6. ASSUME NEW d \in Device, Recover(d) \/ Finish(d) \/ Fail(d) PROVE ConflictsFounded'
  <2>1. OnlyRequestOf(d, req'[d]) /\ req'[d] = Idle
    BY <1>0, <1>6 DEF Recover, Finish, Fail, OnlyRequestOf
  <2> QED BY <2>1, IdleFounded, FoundedKept
<1>7. ASSUME NEW d \in Device, Stamp(d) PROVE ConflictsFounded'
  <2>1. OnlyRequestOf(d, req'[d]) /\ req'[d].batch = req[d].batch
        /\ req'[d].conflicts = req[d].conflicts
    BY <1>0, <1>7 DEF Stamp, OnlyRequestOf, Request
  <2> QED BY <2>1, FoundedSame
<1>8. ASSUME NEW d \in Device, NEW i \in Item, Commit(d, i) PROVE ConflictsFounded'
  <2>1. OnlyRequestOf(d, req'[d]) /\ req'[d].batch = req[d].batch
        /\ req'[d].conflicts = req[d].conflicts
    BY <1>0, <1>8 DEF Commit, OnlyRequestOf, Request
  <2> QED BY <2>1, FoundedSame
<1>9. ASSUME NEW d \in Device, NEW i \in Item, SkipFailed(d, i) PROVE ConflictsFounded'
  <2>1. OnlyRequestOf(d, req'[d]) /\ req'[d].batch = req[d].batch
        /\ req'[d].conflicts = req[d].conflicts
    BY <1>0, <1>9 DEF SkipFailed, OnlyRequestOf, Request
  <2> QED BY <2>1, FoundedSame
<1>10. ASSUME Crash PROVE ConflictsFounded'
  BY <1>10, IdleFounded DEF Crash, ConflictsFounded
<1>11. CASE UNCHANGED vars
  BY <1>11 DEF vars, ConflictsFounded
<1> QED
  BY <1>1, <1>2, <1>3, <1>4, <1>5, <1>6, <1>7, <1>8, <1>9, <1>10, <1>11 DEF Next, Failure, Serve

\* A conflict is reported only to a client that does not hold the version it
\* conflicts with, however much, within the interval, it rounds updated_at.
THEOREM ConflictsReal == Spec => []NoSpuriousConflict
<1>1. Init => ConflictsFounded
  BY IdleFounded DEF Init, ConflictsFounded
<1>2. TypeOK /\ ConflictsFounded /\ [Next]_vars => ConflictsFounded'
  BY ConflictsStep
<1>3. TypeOK /\ ConflictsFounded => NoSpuriousConflict
  <2> SUFFICES ASSUME TypeOK, ConflictsFounded,
                      NEW d \in Device, NEW c \in req[d].conflicts
               PROVE  req[d].batch[c.id].base # c.upd
    BY DEF NoSpuriousConflict
  <2> DEFINE e == req[d].batch[c.id]
  <2>1. c.id \in Item /\ c.upd \in Nat /\ e.upd \in Int /\ e.base \in Nat
    BY DEF TypeOK, Request, Shown, Edit
  <2>2. /\ e.upd # Omitted /\ Distance(e.upd, c.upd) >= ConflictInterval
        /\ e.upd <= e.base /\ e.base - e.upd < ConflictInterval
    BY <2>1 DEF ConflictsFounded, Founded
  <2> HIDE DEF e
  <2>3. e.base # c.upd
    BY <2>1, <2>2, IntervalAssumption DEF Distance
  <2> QED BY <2>3 DEF e
<1> QED BY <1>1, <1>2, <1>3, TypeCorrect, PTL DEF Spec

-----------------------------------------------------------------------------
(* Where one request follows the other, the items implement the registers  *)
(* of ItemRegister if optimistic locking is sound: requests of protocol    *)
(* 20190520 only (20161215 does not look at what it overwrites), and saves *)
(* at least minConflictInterval apart.  Any version of an item that a      *)
(* device or a response still has is then the one stored, or at least the  *)
(* interval older.  An edit carries updated_at of such a version, rounded  *)
(* down by less than the interval, so save() admits it only when it is the *)
(* version stored; and nothing comes between that look and the save.       *)

\* The environment in which updated_at is a sound lock.
Sound == /\ Overlap = FALSE
         /\ Api \subseteq {"20190520"}
         /\ \A step \in Steps : step >= ConflictInterval

\* A version that was once stored at u is the one stored at v, or that much older.
Spaced(u, v) == u = v \/ u + ConflictInterval <= v

\* What request r shows, is still to save, is saving and has stamped.
ShownSpaced(r, store) ==
  \A v \in r.retrieved \cup r.saved \cup r.conflicts : Spaced(v.upd, store[v.id].upd)

TodoSpaced(r, store) == \A i \in r.todo : Spaced(r.batch[i].base, store[i].upd)

AtCurrent(r, store) == \A i \in r.at : r.batch[i].base = store[i].upd

StampSpaced(r, store) ==
  r.phase = "commit" => \A i \in Item : store[i].upd + ConflictInterval <= r.stamp

Locked(r, store) ==
  /\ ShownSpaced(r, store) /\ TodoSpaced(r, store)
  /\ AtCurrent(r, store) /\ StampSpaced(r, store)
  /\ r.api # "20161215"
  /\ r.phase = "idle" => r = Idle

\* What the devices hold.
HeldSpaced == \A d \in Device, i \in Item : Spaced(known[d][i].upd, db[i].upd)

\* One request at a time.
Alone == \A d, e \in Device : d = e \/ req[d] = Idle \/ req[e] = Idle

LockInv == HeldSpaced /\ Alone /\ \A d \in Device : Locked(req[d], db)

-----------------------------------------------------------------------------

\* A version stays spaced from what a save stores the interval later.
LEMMA SpacedOn ==
  ASSUME NEW u \in Nat, NEW v \in Nat, NEW w \in Nat,
         Spaced(u, v), v + ConflictInterval <= w
  PROVE  Spaced(u, w)
BY IntervalAssumption DEF Spaced

\* An edit is admitted only over the version it was made from.
LEMMA AdmitsCurrent ==
  ASSUME NEW api, api # "20161215", NEW edit \in Edit, NEW found \in Stored,
         edit.upd # Omitted => /\ edit.upd <= edit.base
                               /\ edit.base - edit.upd < ConflictInterval,
         Spaced(edit.base, found.upd), Admits(api, edit, found)
  PROVE  edit.base = found.upd
<1>1. /\ edit.upd \in Int /\ edit.base \in Nat /\ found.upd \in Nat
      /\ ConflictInterval \in Nat \ {0}
  BY IntervalAssumption DEF Edit, Stored
<1>2. CASE found.upd = 0
  BY <1>1, <1>2 DEF Spaced
<1>3. CASE found.upd # 0
  <2>1. edit.upd # Omitted /\ Distance(edit.upd, found.upd) < ConflictInterval
    BY <1>3 DEF Admits
  <2>2. edit.upd <= edit.base
    BY <2>1
  <2> QED BY <1>1, <2>1, <2>2 DEF Spaced, Distance
<1> QED BY <1>2, <1>3

\* A device without a request has nothing that could be outdated.
LEMMA IdleLocked == \A store : Locked(Idle, store)
BY DEF Locked, Idle, ShownSpaced, TodoSpaced, AtCurrent, StampSpaced

\* Copies that are spaced stay so when spaced versions are taken over.
LEMMA MergeSpaced ==
  ASSUME NEW copies, NEW shown,
         \A i \in Item : Spaced(copies[i].upd, db[i].upd),
         \A v \in shown : Spaced(v.upd, db[v.id].upd)
  PROVE  \A i \in Item : Spaced(Merge(copies, shown)[i].upd, db[i].upd)
<1> SUFFICES ASSUME NEW i \in Item
             PROVE  Spaced(Merge(copies, shown)[i].upd, db[i].upd)
  OBVIOUS
<1>1. CASE \E v \in shown : v.id = i
  <2> DEFINE w == CHOOSE v \in shown : v.id = i
  <2>1. w \in shown /\ w.id = i
    BY <1>1
  <2>2. Merge(copies, shown)[i].upd = w.upd
    BY <1>1 DEF Merge
  <2> HIDE DEF w
  <2> QED BY <2>1, <2>2
<1>2. CASE ~ \E v \in shown : v.id = i
  BY <1>2 DEF Merge
<1> QED BY <1>1, <1>2

-----------------------------------------------------------------------------

\* Only one request changes, from or to one in progress, and nothing is stored.
LEMMA LockKept ==
  ASSUME LockInv, NEW d \in Device, OnlyRequestOf(d, req'[d]),
         \/ req[d] # Idle
         \/ req'[d] = Idle
         \/ \A e \in Device : req[e] = Idle,
         UNCHANGED <<db, known>>, Locked(req'[d], db)
  PROVE  LockInv'
<1>1. \A e \in Device \ {d} : req'[e] = req[e]
  BY DEF OnlyRequestOf
<1>2. Alone'
  BY <1>1 DEF Alone, LockInv
<1>3. \A e \in Device : Locked(req'[e], db')
  BY <1>1 DEF LockInv
<1> QED BY <1>2, <1>3 DEF LockInv, HeldSpaced

\* A request of a device starts with the versions the device holds.
LEMMA SubmitLocked ==
  ASSUME NEW d \in Device, known \in [Device -> [Item -> Copy]],
         \A i \in Item : Spaced(known[d][i].upd, db[i].upd),
         NEW dirty \in SUBSET Item, NEW api \in Api, api # "20161215", NEW limit,
         NEW loss, NEW omit, NEW gone
  PROVE  Locked(NewRequest(d, api, limit, dirty, gone, loss, omit), db)
<1> DEFINE r == NewRequest(d, api, limit, dirty, gone, loss, omit)
<1>1. /\ r.phase = "get" /\ r.api = api /\ r.todo = dirty /\ r.at = {}
      /\ r.retrieved = {} /\ r.saved = {} /\ r.conflicts = {}
      /\ r.batch = [i \in Item |-> IF i \in dirty THEN EditOf(d, i, loss, omit, i \in gone)
                                                  ELSE NoEdit]
  BY DEF NewRequest, Idle
<1> HIDE DEF r
<1>2. \A i \in dirty : r.batch[i].base = known[d][i].upd
  BY <1>1 DEF EditOf
<1> QED BY <1>1, <1>2 DEF r, Locked, ShownSpaced, TodoSpaced, AtCurrent, StampSpaced

\* What a device takes over from a response is spaced.
LEMMA ViewSpaced ==
  ASSUME NEW d \in Device, HeldSpaced, Locked(req[d], db)
  PROVE  \A i \in Item : Spaced(View(known[d], req[d])[i].upd, db[i].upd)
<1> DEFINE r == req[d]
<1>1. Retrieved(r) \subseteq r.retrieved
  BY DEF Retrieved
<1>2. \A v \in r.retrieved \cup r.saved \cup r.conflicts : Spaced(v.upd, db[v.id].upd)
  BY DEF Locked, ShownSpaced
<1>3. /\ \A v \in Retrieved(r) : Spaced(v.upd, db[v.id].upd)
      /\ \A v \in r.saved \cup r.conflicts : Spaced(v.upd, db[v.id].upd)
  BY <1>1, <1>2
<1> HIDE DEF r
<1>4. \A i \in Item : Spaced(Merge(known[d], Retrieved(r))[i].upd, db[i].upd)
  BY <1>3, MergeSpaced DEF HeldSpaced
<1>5. \A i \in Item :
        Spaced(Merge(Merge(known[d], Retrieved(r)), r.saved \cup r.conflicts)[i].upd, db[i].upd)
  BY <1>3, <1>4, MergeSpaced
<1> QED BY <1>5 DEF View, r

\* A save made from the version stored, the interval later, keeps the rest spaced.
LEMMA CommitLocked ==
  ASSUME TypeOK, LockInv, NEW d \in Device, NEW i \in Item, Commit(d, i)
  PROVE  LockInv'
<1> DEFINE old == req[d]
           version == [upd |-> old.stamp, deleted |-> old.batch[i].deleted,
                       base |-> old.batch[i].base]
           shown == Show(i, version)
           r == [old EXCEPT !.phase = "save", !.at = {}, !.todo = old.todo \ {i},
                            !.saved = old.saved \cup {shown}]
<1>1. /\ old \in Request /\ Locked(old, db) /\ old.phase = "commit"
      /\ old # Idle
  BY DEF TypeOK, LockInv, Commit, Idle
<1>2. /\ req' = [req EXCEPT ![d] = r]
      /\ db' = [db EXCEPT ![i] = version]
      /\ UNCHANGED known
  BY DEF Commit, clients
<1>3. /\ r.phase = "save" /\ r.api = old.api /\ r.at = {} /\ r.todo = old.todo \ {i}
      /\ r.batch = old.batch /\ r.retrieved = old.retrieved
      /\ r.saved = old.saved \cup {shown} /\ r.conflicts = old.conflicts
  BY <1>1 DEF Request
<1>4. /\ \A j \in Item : db[j].upd \in Nat
      /\ old.stamp \in Nat
      /\ \A j \in Item : db[j].upd + ConflictInterval <= old.stamp
  BY <1>1 DEF TypeOK, Stored, Request, Locked, StampSpaced
<1>5. shown.id = i /\ shown.upd = old.stamp /\ version.upd = old.stamp
  BY DEF Show
<1> HIDE DEF old, version, shown, r
<1>6. /\ db'[i].upd = old.stamp
      /\ \A j \in Item \ {i} : db'[j] = db[j]
  BY <1>2, <1>5 DEF TypeOK
<1>7. ASSUME NEW u \in Nat, NEW j \in Item, Spaced(u, db[j].upd)
      PROVE  Spaced(u, db'[j].upd)
  <2>1. CASE j = i
    BY <1>4, <1>6, <1>7, <2>1, SpacedOn
  <2>2. CASE j # i
    BY <1>6, <1>7, <2>2
  <2> QED BY <2>1, <2>2
<1>8. HeldSpaced'
  <2>1. \A e \in Device, j \in Item : known[e][j].upd \in Nat
    BY DEF TypeOK, Copy
  <2> QED BY <1>2, <1>7, <2>1 DEF HeldSpaced, LockInv
<1>9. \A v \in r.retrieved \cup r.saved \cup r.conflicts : Spaced(v.upd, db'[v.id].upd)
  <2>1. \A v \in old.retrieved \cup old.saved \cup old.conflicts :
          v.upd \in Nat /\ v.id \in Item /\ Spaced(v.upd, db[v.id].upd)
    BY <1>1 DEF Request, Shown, Locked, ShownSpaced
  <2>2. Spaced(shown.upd, db'[shown.id].upd)
    BY <1>5, <1>6 DEF Spaced
  <2> QED BY <1>3, <1>7, <2>1, <2>2
<1>10. \A j \in r.todo : Spaced(r.batch[j].base, db'[j].upd)
  <2>1. \A j \in old.todo : j \in Item /\ Spaced(old.batch[j].base, db[j].upd)
    BY <1>1 DEF Request, Locked, TodoSpaced
  <2> QED BY <1>3, <1>6, <2>1
<1>11. Locked(r, db')
  BY <1>1, <1>3, <1>9, <1>10 DEF Locked, ShownSpaced, TodoSpaced, AtCurrent, StampSpaced
<1>12. \A e \in Device \ {d} : req[e] = Idle /\ req'[e] = Idle
  BY <1>1, <1>2 DEF LockInv, Alone, TypeOK, old
<1>13. req'[d] = r
  BY <1>2 DEF TypeOK
<1>14. Alone'
  BY <1>12 DEF Alone
<1>15. \A e \in Device : Locked(req'[e], db')
  BY <1>11, <1>12, <1>13, IdleLocked
<1> QED BY <1>8, <1>14, <1>15 DEF LockInv

\* Every other step keeps what is held and shown spaced: one step per action.
LEMMA LockStep ==
  ASSUME Sound
  PROVE  TypeOK /\ StampsOrdered /\ ConflictsFounded /\ LockInv /\ [Next]_vars => LockInv'
<1> SUFFICES ASSUME TypeOK, StampsOrdered, ConflictsFounded, LockInv, [Next]_vars
             PROVE  LockInv'
  OBVIOUS
<1>0. /\ req \in [Device -> Request] /\ known \in [Device -> [Item -> Copy]]
      /\ db \in [Item -> Stored] /\ clock \in Nat
      /\ \A d \in Device : req[d] \in Request /\ Locked(req[d], db) /\ Founded(req[d])
      /\ Idle.phase = "idle"
  BY DEF TypeOK, LockInv, ConflictsFounded, Idle
<1>1. ASSUME NEW d \in Device, Submit(d) PROVE LockInv'
  <2>1. \A e \in Device : req[e] = Idle
    BY <1>0, <1>1 DEF Submit, Sound, Quiet, Locked
  <2>2. PICK dirty \in SUBSET Item, api \in Api, limit \in Limits, loss \in Losses,
             omit \in BOOLEAN : \E gone \in SUBSET dirty :
          req' = [req EXCEPT ![d] = NewRequest(d, api, limit, dirty, gone, loss, omit)]
    BY <1>1, SubmitSends
  <2>3. PICK gone \in SUBSET dirty :
          req' = [req EXCEPT ![d] = NewRequest(d, api, limit, dirty, gone, loss, omit)]
    BY <2>2
  <2>4. api # "20161215" /\ \A i \in Item : Spaced(known[d][i].upd, db[i].upd)
    BY DEF Sound, LockInv, HeldSpaced
  <2>5. Locked(NewRequest(d, api, limit, dirty, gone, loss, omit), db)
    BY <1>0, <2>4, SubmitLocked
  <2>6. OnlyRequestOf(d, req'[d]) /\ Locked(req'[d], db) /\ UNCHANGED <<db, known>>
    BY <1>0, <1>1, <2>3, <2>5 DEF Submit, clients, OnlyRequestOf
  <2> QED BY <2>1, <2>6, LockKept
<1>2. ASSUME NEW d \in Device, Get(d) PROVE LockInv'
  <2>1. PICK page \in SUBSET Item, next \in Nat :
          req' = [req EXCEPT ![d] =
            [@ EXCEPT !.phase = "save", !.retrieved = {Show(i, db[i]) : i \in page},
                      !.next = next]]
    BY <1>2, GetShows
  <2>2. OnlyRequestOf(d, req'[d]) /\ UNCHANGED <<db, known>> /\ req[d] # Idle
    BY <1>0, <1>2, <2>1 DEF Get, clients, OnlyRequestOf
  <2>3. /\ req'[d].phase = "save" /\ req'[d].retrieved = {Show(i, db[i]) : i \in page}
        /\ req'[d].saved = req[d].saved /\ req'[d].conflicts = req[d].conflicts
        /\ req'[d].todo = req[d].todo /\ req'[d].at = req[d].at
        /\ req'[d].batch = req[d].batch /\ req'[d].api = req[d].api
    BY <1>0, <2>1 DEF Request
  <2>4. \A v \in req'[d].retrieved : Spaced(v.upd, db[v.id].upd)
    BY <2>3 DEF Show, Spaced
  <2>5. Locked(req'[d], db)
    BY <1>0, <2>3, <2>4 DEF Locked, ShownSpaced, TodoSpaced, AtCurrent, StampSpaced
  <2> QED BY <2>2, <2>5, LockKept
<1>3. ASSUME NEW d \in Device, NEW i \in Item, Accept(d, i) PROVE LockInv'
  <2>1. /\ i \in req[d].todo /\ req[d].api # "20161215"
        /\ Admits(req[d].api, req[d].batch[i], db[i])
    BY <1>0, <1>3 DEF Accept, Locked
  <2>2. Spaced(req[d].batch[i].base, db[i].upd)
    BY <1>0, <2>1 DEF Locked, TodoSpaced
  <2>3. req[d].batch[i] \in Edit /\ db[i] \in Stored
    BY <1>0 DEF Request
  <2>4. req[d].batch[i].upd # Omitted =>
          /\ req[d].batch[i].upd <= req[d].batch[i].base
          /\ req[d].batch[i].base - req[d].batch[i].upd < ConflictInterval
    BY <1>0 DEF Founded
  <2>5. req[d].batch[i].base = db[i].upd
    BY <2>1, <2>2, <2>3, <2>4, AdmitsCurrent
  <2>6. /\ OnlyRequestOf(d, req'[d]) /\ UNCHANGED <<db, known>> /\ req[d] # Idle
        /\ req' = [req EXCEPT ![d] = [req[d] EXCEPT !.phase = "stamp", !.at = {i}]]
    BY <1>0, <1>3 DEF Accept, clients, OnlyRequestOf
  <2>7. /\ req'[d].phase = "stamp" /\ req'[d].at = {i}
        /\ req'[d].retrieved = req[d].retrieved
        /\ req'[d].saved = req[d].saved /\ req'[d].conflicts = req[d].conflicts
        /\ req'[d].todo = req[d].todo
        /\ req'[d].batch = req[d].batch /\ req'[d].api = req[d].api
    BY <1>0, <2>6 DEF Request
  <2>8. Locked(req'[d], db)
    BY <1>0, <2>5, <2>7 DEF Locked, ShownSpaced, TodoSpaced, AtCurrent, StampSpaced
  <2> QED BY <2>6, <2>8, LockKept
<1>4. ASSUME NEW d \in Device, NEW i \in Item, Conflict(d, i) PROVE LockInv'
  <2>1. /\ OnlyRequestOf(d, req'[d]) /\ UNCHANGED <<db, known>> /\ req[d] # Idle
        /\ req' = [req EXCEPT ![d] =
             [req[d] EXCEPT !.todo = req[d].todo \ {i},
                            !.conflicts = req[d].conflicts \cup {Show(i, db[i])}]]
        /\ req[d].phase = "save"
    BY <1>0, <1>4 DEF Conflict, clients, OnlyRequestOf
  <2>2. /\ req'[d].phase = "save" /\ req'[d].at = req[d].at
        /\ req'[d].retrieved = req[d].retrieved /\ req'[d].saved = req[d].saved
        /\ req'[d].conflicts = req[d].conflicts \cup {Show(i, db[i])}
        /\ req'[d].todo = req[d].todo \ {i}
        /\ req'[d].batch = req[d].batch /\ req'[d].api = req[d].api
    BY <1>0, <2>1 DEF Request
  <2>3. Show(i, db[i]).id = i /\ Spaced(Show(i, db[i]).upd, db[i].upd)
    BY DEF Show, Spaced
  <2>4. Locked(req'[d], db)
    BY <1>0, <2>2, <2>3 DEF Locked, ShownSpaced, TodoSpaced, AtCurrent, StampSpaced
  <2> QED BY <2>1, <2>4, LockKept
<1>5. ASSUME NEW d \in Device, NEW i \in Item, Panic(d, i) PROVE LockInv'
  <2>1. /\ OnlyRequestOf(d, req'[d]) /\ UNCHANGED <<db, known>> /\ req[d] # Idle
        /\ req' = [req EXCEPT ![d] = [req[d] EXCEPT !.phase = "panicked"]]
    BY <1>0, <1>5 DEF Panic, clients, OnlyRequestOf
  <2>2. /\ req'[d].phase = "panicked" /\ req'[d].at = req[d].at
        /\ req'[d].retrieved = req[d].retrieved /\ req'[d].saved = req[d].saved
        /\ req'[d].conflicts = req[d].conflicts /\ req'[d].todo = req[d].todo
        /\ req'[d].batch = req[d].batch /\ req'[d].api = req[d].api
    BY <1>0, <2>1 DEF Request
  <2>3. Locked(req'[d], db)
    BY <1>0, <2>2 DEF Locked, ShownSpaced, TodoSpaced, AtCurrent, StampSpaced
  <2> QED BY <2>1, <2>3, LockKept
<1>6. ASSUME NEW d \in Device, Recover(d) \/ Fail(d) PROVE LockInv'
  <2>1. OnlyRequestOf(d, req'[d]) /\ UNCHANGED <<db, known>> /\ req'[d] = Idle
    BY <1>0, <1>6 DEF Recover, Fail, clients, OnlyRequestOf
  <2> QED BY <2>1, IdleLocked, LockKept
<1>7. ASSUME NEW d \in Device, Stamp(d) PROVE LockInv'
  <2>1. /\ OnlyRequestOf(d, req'[d]) /\ UNCHANGED <<db, known>> /\ req[d] # Idle
        /\ req' = [req EXCEPT ![d] = [req[d] EXCEPT !.phase = "commit", !.stamp = clock']]
    BY <1>0, <1>7 DEF Stamp, clients, OnlyRequestOf
  <2>2. /\ req'[d].phase = "commit" /\ req'[d].stamp = clock' /\ req'[d].at = req[d].at
        /\ req'[d].retrieved = req[d].retrieved /\ req'[d].saved = req[d].saved
        /\ req'[d].conflicts = req[d].conflicts /\ req'[d].todo = req[d].todo
        /\ req'[d].batch = req[d].batch /\ req'[d].api = req[d].api
    BY <1>0, <2>1 DEF Request
  <2>3. \A i \in Item : db[i].upd + ConflictInterval <= clock'
    <3>1. PICK step \in Steps : clock' = clock + step
      BY <1>7 DEF Stamp
    <3>2. step \in Nat /\ step >= ConflictInterval /\ ConflictInterval \in Nat
      BY ParameterAssumption, IntervalAssumption DEF Sound
    <3>3. \A i \in Item : db[i].upd \in Nat /\ db[i].upd <= clock
      BY <1>0 DEF Stored, StampsOrdered
    <3> QED BY <1>0, <3>1, <3>2, <3>3
  <2>4. Locked(req'[d], db)
    BY <1>0, <2>2, <2>3 DEF Locked, ShownSpaced, TodoSpaced, AtCurrent, StampSpaced
  <2> QED BY <2>1, <2>4, LockKept
<1>8. ASSUME NEW d \in Device, NEW i \in Item, SkipFailed(d, i) PROVE LockInv'
  <2>1. /\ OnlyRequestOf(d, req'[d]) /\ UNCHANGED <<db, known>> /\ req[d] # Idle
        /\ req' = [req EXCEPT ![d] =
             [req[d] EXCEPT !.phase = "save", !.at = {}, !.todo = req[d].todo \ {i}]]
    BY <1>0, <1>8 DEF SkipFailed, clients, OnlyRequestOf
  <2>2. /\ req'[d].phase = "save" /\ req'[d].at = {}
        /\ req'[d].retrieved = req[d].retrieved /\ req'[d].saved = req[d].saved
        /\ req'[d].conflicts = req[d].conflicts /\ req'[d].todo = req[d].todo \ {i}
        /\ req'[d].batch = req[d].batch /\ req'[d].api = req[d].api
    BY <1>0, <2>1 DEF Request
  <2>3. Locked(req'[d], db)
    BY <1>0, <2>2 DEF Locked, ShownSpaced, TodoSpaced, AtCurrent, StampSpaced
  <2> QED BY <2>1, <2>3, LockKept
<1>9. ASSUME NEW d \in Device, Finish(d) PROVE LockInv'
  <2>1. /\ OnlyRequestOf(d, req'[d]) /\ UNCHANGED db /\ req'[d] = Idle
        /\ known' = [known EXCEPT ![d] = View(known[d], req[d])]
    BY <1>0, <1>9 DEF Finish, OnlyRequestOf
  <2>2. \A i \in Item : Spaced(View(known[d], req[d])[i].upd, db[i].upd)
    BY <1>0, ViewSpaced DEF LockInv
  <2>3. HeldSpaced'
    BY <1>0, <2>1, <2>2 DEF HeldSpaced, LockInv
  <2>4. \A e \in Device : req'[e] = req[e] \/ req'[e] = Idle
    BY <2>1 DEF OnlyRequestOf
  <2>5. Alone' /\ \A e \in Device : Locked(req'[e], db')
    BY <1>0, <2>1, <2>4, IdleLocked DEF Alone, LockInv
  <2> QED BY <2>3, <2>5 DEF LockInv
<1>10. ASSUME Crash PROVE LockInv'
  <2>1. (\A e \in Device : req'[e] = Idle) /\ UNCHANGED <<db, known>>
    BY <1>10 DEF Crash, clients
  <2> QED BY <2>1, IdleLocked DEF LockInv, HeldSpaced, Alone
<1>11. CASE UNCHANGED vars
  BY <1>11 DEF vars, LockInv, HeldSpaced, Alone
<1>12. ASSUME NEW d \in Device, NEW i \in Item, Commit(d, i) PROVE LockInv'
  BY <1>12, CommitLocked
<1> QED
  BY <1>1, <1>2, <1>3, <1>4, <1>5, <1>6, <1>7, <1>8, <1>9, <1>10, <1>11, <1>12
  DEF Next, Failure, Serve

-----------------------------------------------------------------------------

\* Only Commit stores anything.
LEMMA OnlyCommitStores ==
  [Next]_vars => UNCHANGED db \/ \E d \in Device, i \in Item : Commit(d, i)
BY DEF Next, Failure, Serve, Submit, Get, Accept, Conflict, Panic, Recover, Stamp,
       SkipFailed, Finish, Fail, Crash, vars

\* A save is a write of the register of its item.
LEMMA CommitWrites ==
  ASSUME TypeOK, LockInv, NEW d \in Device, NEW i \in Item, Commit(d, i)
  PROVE  Register!Next
<1> DEFINE r == req[d]
           store == [j \in Item |-> [upd |-> db[j].upd, base |-> db[j].base]]
           stored == [j \in Item |-> [upd |-> db'[j].upd, base |-> db'[j].base]]
<1>1. /\ r \in Request /\ r.phase = "commit" /\ i \in r.at /\ Locked(r, db)
      /\ db' = [db EXCEPT ![i] = [upd |-> r.stamp, deleted |-> r.batch[i].deleted,
                                  base |-> r.batch[i].base]]
  BY DEF Commit, TypeOK, LockInv
<1>2. /\ r.stamp \in Nat /\ db[i].upd \in Nat /\ r.batch[i].base = db[i].upd
      /\ db[i].upd + ConflictInterval <= r.stamp
  BY <1>1 DEF Request, TypeOK, Stored, Locked, AtCurrent, StampSpaced
<1>3. r.stamp > db[i].upd
  BY <1>2, IntervalAssumption
<1> HIDE DEF r
<1>4. stored = [store EXCEPT ![i] = [upd |-> r.stamp, base |-> db[i].upd]]
  BY <1>1, <1>2 DEF TypeOK
<1>5. stored[i].upd = r.stamp /\ store[i].upd = db[i].upd
  BY <1>4
<1> HIDE DEF store, stored
<1>6. stored[i].upd \in Nat /\ stored[i].upd > store[i].upd
      /\ stored = [store EXCEPT ![i] = [upd |-> stored[i].upd, base |-> store[i].upd]]
  BY <1>2, <1>3, <1>4, <1>5
<1>7. store[i] # [upd |-> -1, base |-> -1]
  BY <1>2, <1>5
<1> QED BY <1>6, <1>7 DEF store, stored, Register!Next, Register!Write, Register!Lost

\* With requests of 20190520, one at a time, and saves at least the interval
\* apart, for any number of devices and items, each write replaces the version
\* its author held: no edit is lost without its successor's author seeing it.
THEOREM RefinesRegister ==
  ASSUME Sound
  PROVE  Spec => RegisterSpec
<1>1. Init => TypeOK /\ StampsOrdered /\ ConflictsFounded /\ LockInv
  <2>1. Init => TypeOK /\ StampsOrdered
    BY InitTyped
  <2>2. Init => ConflictsFounded
    BY IdleFounded DEF Init, ConflictsFounded
  <2>3. Init => LockInv
    BY IdleLocked DEF Init, LockInv, HeldSpaced, Alone, Spaced, NoCopy, Absent
  <2> QED BY <2>1, <2>2, <2>3
<1>2. TypeOK /\ StampsOrdered /\ ConflictsFounded /\ LockInv /\ [Next]_vars =>
        (TypeOK /\ StampsOrdered /\ ConflictsFounded /\ LockInv)'
  BY TypeStep, StampsStep, ConflictsStep, LockStep
<1>3. Init => Register!Init
  BY DEF Init, Absent, Register!Init
<1>4. TypeOK /\ LockInv /\ [Next]_vars =>
        [Register!Next]_([i \in Item |-> [upd |-> db[i].upd, base |-> db[i].base]])
  BY OnlyCommitStores, CommitWrites
<1> QED BY <1>1, <1>2, <1>3, <1>4, PTL DEF Spec, RegisterSpec, Register!Spec

=============================================================================

---------------------------- MODULE VaultProofs ----------------------------
(***************************************************************************)
(* What holds of the vaults for any number of items keys, notes, changes   *)
(* of the password and failures.                                           *)
(***************************************************************************)
EXTENDS Vault, TLAPS

USE DEF server, sfc

Version == Old \cup {"004", "none"}

-----------------------------------------------------------------------------
(* Types.                                                                  *)

LEMMA NoTypes == /\ NoKey \in Key /\ NoChain \in Chain /\ NoSecret \in Secret
                 /\ NoItem \in Item /\ NoCopy \in Copy /\ NoRequest \in Request
                 /\ NoKeys \in [KeyId \cup {NoId} -> Key]
<1>1. NoKey \in Key
  BY DEF NoKey, Key
<1>2. NoChain \in Chain /\ NoSecret \in Secret
  BY <1>1 DEF NoChain, Chain, NoSecret, Secret
<1>3. NoItem \in Item
  BY <1>2 DEF NoItem, Item
<1>4. NoCopy \in Copy
  BY <1>3 DEF NoCopy, Copy
<1>5. NoRequest \in Request
  BY <1>3 DEF NoRequest, Request
<1> QED BY <1>1, <1>2, <1>3, <1>4, <1>5 DEF NoKeys

\* Key chains and keys are made of keys.
LEMMA ChainTypes ==
  ASSUME NEW version \in Version, NEW k \in Key
  PROVE  /\ RootChain(version, k) \in Chain
         /\ ContentKeyChain(version, k) \in Chain
<1>1. NoKey \in Key
  BY NoTypes
<1>2. Half(k) \in Key
  BY DEF Half, Key
<1> QED BY <1>1, <1>2 DEF RootChain, ContentKeyChain, Chain, Version, Old

LEMMA NewKeyTypes ==
  ASSUME NEW version, NEW n \in Nat
  PROVE  /\ GenerateItemEncryptionKey(version, n) \in Key
         /\ ItemKey(version, n) \in Key
         /\ Text(n) \in Key
BY DEF GenerateItemEncryptionKey, ItemKey, Text, Key

LEMMA KeyKeyChainType ==
  ASSUME NEW c \in Chain, NEW keys \in [KeyId \cup {NoId} -> Key],
         NEW i \in ItemId, NEW item \in Item
  PROVE  KeyKeyChain(c, keys, i, item) \in Chain
<1>1. keys[item.keyId] \in Key /\ NoKey \in Key
  BY NoTypes DEF Item
<1> QED BY <1>1 DEF KeyKeyChain, Chain

\* What a vault makes of keys and a payload is a secret.
LEMMA SealedType ==
  ASSUME NEW version \in Version, NEW i \in ItemId, NEW c \in Chain,
         NEW payload \in Key, NEW params \in Nat, NEW extra \in BOOLEAN
  PROVE  Sealed(version, i, c, payload, params, extra) \in Secret
<1>1. c.master \in Key /\ c.auth \in Key /\ NoKey \in Key
  BY NoTypes DEF Chain
<1>2. (version = "004" /\ extra) \in BOOLEAN
  OBVIOUS
<1> QED BY <1>1, <1>2 DEF Sealed, Secret, Version

\* The two parts of Seal, field by field.
LEMMA SealType ==
  ASSUME NEW item \in Item, NEW i \in ItemId, NEW c \in Chain,
         NEW keys \in [KeyId \cup {NoId} -> Key], NEW ik \in Key, NEW text \in Key
  PROVE  /\ WithKey(item, i, c, keys, ik) \in Item
         /\ Seal(item, i, c, keys, ik, text) \in Item
<1> DEFINE w == item.wrapped
           wrapped == Sealed(w.version, i, KeyKeyChain(c, keys, i, item), ik, w.params, w.extra)
           one == [item EXCEPT !.wrapped = wrapped]
<1>1. /\ w \in Secret /\ item.content \in Secret
      /\ w.version \in Version /\ w.params \in Nat /\ w.extra \in BOOLEAN
      /\ item.content.extra \in BOOLEAN
  BY DEF Item, Secret, Version
<1>2. wrapped \in Secret
  BY <1>1, KeyKeyChainType, SealedType
<1>3. one \in Item /\ one = WithKey(item, i, c, keys, ik)
  <2> HIDE DEF wrapped
  <2>1. one \in Item
    BY <1>2 DEF Item
  <2> QED BY <2>1 DEF wrapped, WithKey
<1>4. one.wrapped \in Secret /\ one.wrapped.version \in Version
      /\ one.wrapped.params \in Nat /\ one.content.extra \in BOOLEAN
  BY <1>3 DEF Item, Secret, Version
<1>5. Sealed(one.wrapped.version, i, ContentKeyChain(one.wrapped.version, ik), text,
             one.wrapped.params, one.content.extra) \in Secret
  BY <1>4, ChainTypes, SealedType
<1>6. WithContent(one, i, ik, text) \in Item
  BY <1>3, <1>5 DEF WithContent, Item
<1> QED BY <1>3, <1>6 DEF Seal

LEMMA LoadedType ==
  ASSUME NEW items \in [ItemId -> Item], NEW c
  PROVE  LoadedKeys(items, c) \in [KeyId \cup {NoId} -> Key]
<1>1. \A k \in KeyId : items[k].content.inner \in Key
  BY DEF ItemId, Item, Secret
<1> QED BY <1>1, NoTypes DEF LoadedKeys

\* What the other clients encrypt is an item.
LEMMA EncryptedType ==
  ASSUME TypeOK, NEW i \in ItemId, NEW keyId \in KeyId \cup {NoId}, CanWrap(i, keyId),
         NEW ik \in Key, NEW payload \in Key, NEW extra \in BOOLEAN
  PROVE  Encrypted(i, keyId, ik, payload, extra) \in Item
<1> DEFINE version == account.version
           c == RootChain(version, account.root)
           d == [c EXCEPT !.master = WrappingKey(i, keyId)]
           params == account.root.id
<1>1. version \in Version /\ account.root \in Key /\ params \in Nat
  BY VaultAssumption DEF TypeOK, Key, Version
<1>2. c \in Chain
  BY <1>1, ChainTypes
<1>3. WrappingKey(i, keyId) \in Key
  <2>1. CASE version \in Old \/ i \in KeyId
    BY <1>1, <2>1 DEF WrappingKey
  <2>2. CASE ~(version \in Old \/ i \in KeyId)
    <3>1. keyId \in ItemId
      BY <2>2 DEF CanWrap, ItemId
    <3> QED BY <2>2, <3>1 DEF WrappingKey, TypeOK, Item, Secret
  <2> QED BY <2>1, <2>2
<1>4. d \in Chain
  <2> HIDE DEF c
  <2> QED BY <1>2, <1>3 DEF Chain
<1>5. ContentKeyChain(version, ik) \in Chain
  BY <1>1, ChainTypes
<1> HIDE DEF d, c, params, version
<1>6. /\ Sealed(version, i, d, ik, params, extra) \in Secret
      /\ Sealed(version, i, ContentKeyChain(version, ik), payload, params, extra) \in Secret
  BY <1>1, <1>4, <1>5, SealedType
<1> QED BY <1>6 DEF Encrypted, Item, d, c, params, version

LEMMA DrawnNat == ASSUME TypeOK PROVE drawn \in Nat /\ drawn + 1 \in Nat /\ drawn + 2 \in Nat
<1>1. drawn \in Nat
  BY Zenon DEF TypeOK
<1> QED BY <1>1

LEMMA NearType ==
  ASSUME near \in [NoteId -> BOOLEAN], NEW i
  PROVE  NearAfter(i) \subseteq [NoteId -> BOOLEAN]
BY DEF NearAfter

\* What a step of another client stores.
LEMMA OthersStep ==
  ASSUME TypeOK, NEW i \in ItemId, Create(i) \/ Reencrypt(i)
  PROVE  \E keyId \in KeyId \cup {NoId}, extra \in BOOLEAN, payload \in Key :
           /\ CanWrap(i, keyId)
           /\ stored' = [stored EXCEPT ![i] =
                Encrypted(i, keyId, ItemKey(account.version, drawn + 1), payload, extra)]
<1>1. CASE Create(i)
  <2>1. PICK keyId \in KeyId \cup {NoId}, extra \in BOOLEAN :
          /\ CanWrap(i, keyId)
          /\ stored' = [stored EXCEPT ![i] =
               Encrypted(i, keyId, ItemKey(account.version, drawn + 1),
                         IF i \in KeyId THEN [id |-> drawn + 2, bytes |-> 32]
                                        ELSE Text(drawn + 2), extra)]
    BY <1>1 DEF Create
  <2>2. (IF i \in KeyId THEN [id |-> drawn + 2, bytes |-> 32] ELSE Text(drawn + 2)) \in Key
    <3>1. drawn + 2 \in Nat
      BY DrawnNat
    <3> QED BY <3>1 DEF Key, Text
  <2> QED BY <2>1, <2>2
<1>2. CASE Reencrypt(i)
  BY <1>2 DEF Reencrypt, TypeOK, Item, Secret
<1> QED BY <1>1, <1>2

\* Every step keeps the types.
LEMMA TypeStep == ASSUME TypeOK, [Next]_vars PROVE TypeOK'
<1> USE VaultAssumption
<1>0. drawn \in Nat /\ drawn + 1 \in Nat /\ drawn + 2 \in Nat
  BY DrawnNat
<1>1. ASSUME NEW i \in ItemId, Create(i) \/ Reencrypt(i)
      PROVE  TypeOK'
  <2>1. PICK keyId \in KeyId \cup {NoId}, extra \in BOOLEAN, payload \in Key :
          /\ CanWrap(i, keyId)
          /\ stored' = [stored EXCEPT ![i] =
               Encrypted(i, keyId, ItemKey(account.version, drawn + 1), payload, extra)]
    BY <1>1, OthersStep
  <2>2. ItemKey(account.version, drawn + 1) \in Key
    BY <1>0, NewKeyTypes
  <2>3. stored' \in [ItemId -> Item]
    BY <2>1, <2>2, EncryptedType DEF TypeOK
  <2>4. written' \in [NoteId -> Nat] /\ drawn' \in Nat /\ near' \in [NoteId -> BOOLEAN]
    <3>1. written \in [NoteId -> Nat] /\ near \in [NoteId -> BOOLEAN]
      BY DEF TypeOK
    <3>2. near' \in [NoteId -> BOOLEAN]
      BY <1>1, <3>1, NearType DEF Create, Reencrypt
    <3> QED BY <1>0, <1>1, <3>1, <3>2 DEF Create, Reencrypt
  <2>5. UNCHANGED <<account, sfc>>
    BY <1>1 DEF Create, Reencrypt
  <2> QED BY <2>3, <2>4, <2>5 DEF TypeOK
<1>2. ASSUME NEW version \in Protocol, ChangePassword(version)
      PROVE  TypeOK'
  <2>1. [id |-> drawn + 1, bytes |-> 32] \in Key /\ drawn' \in Nat
    BY <1>0, <1>2 DEF ChangePassword, Key
  <2>2. account' \in [version : Protocol, root : Key, cost : Cost]
    BY <1>2, <2>1 DEF ChangePassword, TypeOK
  <2> QED BY <1>2, <2>1, <2>2 DEF ChangePassword, TypeOK
<1>3. CASE Login
  <2>1. RootChain(account.version, account.root) \in Chain
    BY ChainTypes DEF TypeOK, Version
  <2> QED BY <1>3, <2>1 DEF Login, TypeOK
<1>4. CASE Start
  <2>1. itemsKey' \in [KeyId \cup {NoId} -> Key]
    BY <1>4, LoadedType DEF Start, TypeOK
  <2>2. local' \in [ItemId -> Copy]
    <3>0. \A i \in ItemId : stored[i] \in Item
      BY DEF TypeOK
    <3>1. \A i \in ItemId : stored[i] \in Item /\ stored[i].wrapped.inner.id \in Nat
      BY <3>0 DEF Item, Secret, Key
    <3> QED BY <1>4, <3>1 DEF Start, Copy, Revision
  <2> QED BY <1>4, <2>1, <2>2 DEF Start, TypeOK
<1>5. ASSUME NEW i \in NoteId, Save(i)
      PROVE  TypeOK'
  <2>1. i \in ItemId /\ local[i] \in Copy /\ local[i].item \in Item /\ editor.chain \in Chain
    BY DEF TypeOK, ItemId, Copy
  <2>2. NewKey \in Key /\ Text(drawn + 2) \in Key
    BY <1>0, NewKeyTypes DEF NewKey
  <2> DEFINE sealed == Seal(local[i].item, i, editor.chain, itemsKey, NewKey, Text(drawn + 2))
  <2>3. sealed \in Item
    BY <2>1, <2>2, SealType DEF TypeOK
  <2>4. /\ request' = [note |-> i, item |-> sealed, seen |-> Revision(stored[i]),
                       near |-> near[i], awaited |-> TRUE]
        /\ local' = [local EXCEPT ![i].item = sealed] /\ drawn' = drawn + 2
        /\ UNCHANGED <<server, chain, editor, itemsKey, near, file, recovered>>
    BY <1>5 DEF Save
  <2> HIDE DEF sealed
  <2>5. local' \in [ItemId -> Copy]
    <3>1. [local[i] EXCEPT !.item = sealed] \in Copy /\ local \in [ItemId -> Copy]
      BY <2>1, <2>3 DEF Copy, TypeOK
    <3> QED BY <2>4, <3>1
  <2>6. request' \in Request
    <3>1. Revision(stored[i]) \in Nat /\ near[i] \in BOOLEAN
      BY <2>1 DEF TypeOK, Revision, Item, Secret, Key
    <3> QED BY <2>3, <2>4, <3>1 DEF Request
  <2> QED BY <1>0, <2>4, <2>5, <2>6 DEF TypeOK
<1>6. ASSUME NEW i \in NoteId, SealFails(i)
      PROVE  TypeOK'
  <2>1. i \in ItemId /\ local[i] \in Copy /\ local[i].item \in Item /\ editor.chain \in Chain
    BY DEF TypeOK, ItemId, Copy
  <2>2. NewKey \in Key
    BY <1>0, NewKeyTypes DEF NewKey
  <2> DEFINE one == WithKey(local[i].item, i, editor.chain, itemsKey, NewKey)
  <2>3. one \in Item
    BY <2>1, <2>2, SealType DEF TypeOK
  <2>4. /\ local' = local \/ local' = [local EXCEPT ![i].item = one]
        /\ drawn' = drawn + 1
        /\ UNCHANGED <<server, chain, editor, itemsKey, near, request, file, recovered>>
    BY <1>6 DEF SealFails
  <2> HIDE DEF one
  <2>5. local' \in [ItemId -> Copy]
    <3>1. [local[i] EXCEPT !.item = one] \in Copy /\ local \in [ItemId -> Copy]
      BY <2>1, <2>3 DEF Copy, TypeOK
    <3> QED BY <2>4, <3>1
  <2> QED BY <1>0, <2>4, <2>5 DEF TypeOK
<1>7. CASE Commit
  <2> DEFINE i == request.note
  <2>1. /\ i \in NoteId \cup {NoId} /\ request.item \in Item
        /\ Revision(request.item) \in Nat /\ request.item.content.inner.id \in Nat
    <3>1. request \in Request
      BY DEF TypeOK
    <3> QED BY <3>1 DEF Request, Revision, Item, Secret, Key
  <2>2. /\ stored' = [stored EXCEPT ![i] = request.item]
        /\ written' = [written EXCEPT ![i] = request.item.content.inner.id]
        /\ \/ /\ local' = [local EXCEPT ![i].base = Revision(request.item)]
              /\ near' = [near EXCEPT ![i] = FALSE]
           \/ local' = local /\ near' \in NearAfter(i)
        /\ request' = NoRequest
        /\ UNCHANGED <<account, drawn, chain, editor, itemsKey, file, recovered>>
    BY <1>7 DEF Commit
  <2>3. local' \in [ItemId -> Copy] /\ near' \in [NoteId -> BOOLEAN]
    <3>1. local \in [ItemId -> Copy] /\ near \in [NoteId -> BOOLEAN]
      BY DEF TypeOK
    <3>2. NearAfter(i) \subseteq [NoteId -> BOOLEAN]
      BY <3>1, NearType
    <3>3. \A j \in ItemId : [local[j] EXCEPT !.base = Revision(request.item)] \in Copy
      BY <2>1, <3>1 DEF Copy
    <3> HIDE DEF i
    <3>4. near' \in [NoteId -> BOOLEAN]
      BY <2>2, <3>1, <3>2
    <3>5. local' = local \/ local' = [local EXCEPT ![i].base = Revision(request.item)]
      BY <2>2
    <3> QED BY <3>1, <3>3, <3>4, <3>5
  <2>4. stored' \in [ItemId -> Item] /\ written' \in [NoteId -> Nat]
    BY <2>1, <2>2 DEF TypeOK
  <2> QED BY <2>2, <2>3, <2>4, NoTypes DEF TypeOK
<1>8. CASE Quit
  <2>1. request' \in Request
    BY <1>8 DEF Quit, TypeOK, Request
  <2> QED BY <1>8, <2>1 DEF Quit, TypeOK
<1>9. ASSUME \/ Backup \/ Unseal \/ Drop \/ UNCHANGED vars
             \/ \E i \in NoteId : Conflict(i)
      PROVE  TypeOK'
  BY <1>9, NoTypes DEF Backup, Unseal, Drop, Conflict, vars, TypeOK
<1> QED BY <1>1, <1>2, <1>3, <1>4, <1>5, <1>6, <1>7, <1>8, <1>9 DEF Next, Others, Command

\* The state of the vaults, the editor and the backup keeps its types.
THEOREM TypeCorrect == Spec => []TypeOK
<1>1. Init => TypeOK
  <2> SUFFICES ASSUME Init PROVE TypeOK
    OBVIOUS
  <2>1. [id |-> 1, bytes |-> 32] \in Key
    BY DEF Key
  <2>2. account \in [version : Protocol, root : Key, cost : Cost]
    BY <2>1 DEF Init
  <2> QED BY <2>2, NoTypes DEF Init, TypeOK
<1> QED BY <1>1, TypeStep, PTL DEF Spec

-----------------------------------------------------------------------------
(* What sealing keeps.                                                     *)

\* An item of known version, both of whose secrets have the form of it.
Formed(item, i) ==
  /\ item.wrapped.version # "none"
  /\ item.wrapped.version \notin Old /\ i \in NoteId => item.wrapped.params = 0
  /\ item.wrapped.extra => item.wrapped.version = "004"
  /\ item.content.extra => item.wrapped.version = "004"
  /\ item.content.version = item.wrapped.version
  /\ item.content.params = item.wrapped.params

\* Two items have the same form and are wrapped with the same items key.
SameForm(a, b) ==
  /\ a.present = b.present /\ a.keyId = b.keyId
  /\ a.wrapped.version = b.wrapped.version /\ a.content.version = b.content.version
  /\ a.wrapped.params = b.wrapped.params /\ a.content.params = b.content.params
  /\ a.wrapped.extra = b.wrapped.extra /\ a.content.extra = b.content.extra

\* Item e is formed, wrapped as the account asks, and its content opens with the
\* key in it, the n-th drawn.
AsTheyEncrypt(e, i, keyId, n, payload) ==
  /\ e.present /\ e.keyId = keyId /\ Formed(e, i)
  /\ e.wrapped.version = account.version /\ e.wrapped.enc = WrappingKey(i, keyId)
  /\ e.wrapped.uuid = i /\ (e.wrapped.version \in Old => e.wrapped.mac = account.root)
  /\ e.wrapped.inner.id = n /\ e.content.inner = payload
  /\ Unseals(e.content, i, ContentKeyChain(e.wrapped.version, e.wrapped.inner))

\* What the other clients encrypt.
LEMMA EncryptedForm ==
  ASSUME account.version \in Old \cup {"004"}, NEW i \in ItemId, NEW keyId, NEW n \in Nat,
         NEW payload, NEW extra \in BOOLEAN, KeyId \cap NoteId = {}
  PROVE  AsTheyEncrypt(Encrypted(i, keyId, ItemKey(account.version, n), payload, extra),
                       i, keyId, n, payload)
<1> DEFINE e == Encrypted(i, keyId, ItemKey(account.version, n), payload, extra)
           version == account.version
           ik == ItemKey(version, n)
           k == ContentKeyChain(version, ik)
           d == [RootChain(version, account.root) EXCEPT !.master = WrappingKey(i, keyId)]
           params == account.root.id
           w == Sealed(version, i, d, ik, params, extra)
           t == Sealed(version, i, k, payload, params, extra)
<1>1. e = [present |-> TRUE, keyId |-> keyId, wrapped |-> w, content |-> t]
  BY DEF Encrypted
<1>2. d.master = WrappingKey(i, keyId) /\ (version \in Old => d.auth = account.root)
  BY DEF RootChain
<1>3. Fits(version, k.master)
  BY DEF Fits, ContentKeyChain, Half, ItemKey, Old
<1>4. ik.id = n
  BY DEF ItemKey
<1> HIDE DEF e, version, ik, k, d, params
<1>5. /\ w.version = version /\ w.enc = d.master /\ w.inner = ik
      /\ w.uuid = i /\ (version \in Old => w.mac = d.auth)
      /\ w.params = (IF version \in Old \/ i \in KeyId THEN params ELSE 0)
      /\ w.extra = (version = "004" /\ extra)
      /\ t.version = version /\ t.enc = k.master /\ t.inner = payload /\ t.uuid = i
      /\ version \in Old => t.mac = k.auth
      /\ t.params = w.params /\ t.extra = w.extra
  BY DEF Sealed
<1>6. Unseals(t, i, k)
  <2>1. version # "none"
    BY DEF version, Old
  <2> QED BY <1>3, <1>5, <2>1 DEF Unseals
<1>7. Formed(e, i)
  <2>1. version # "none"
    BY DEF version, Old
  <2>2. e.wrapped = w /\ e.content = t
    BY <1>1
  <2> HIDE DEF w, t
  <2>3. version \notin Old /\ i \in NoteId => w.params = 0
    BY <1>5
  <2> QED BY <1>5, <2>1, <2>2, <2>3 DEF Formed
<1>8. e.wrapped = w /\ e.content = t /\ e.present /\ e.keyId = keyId
  BY <1>1
<1> HIDE DEF w, t
<1>9. AsTheyEncrypt(e, i, keyId, n, payload)
  BY <1>2, <1>4, <1>5, <1>6, <1>7, <1>8 DEF version, ik, k, AsTheyEncrypt
<1> QED BY <1>9 DEF e

\* Either part of Seal keeps the form of a note, and Seal the content under the
\* key it draws.
LEMMA SealForm ==
  ASSUME NEW item \in Item, NEW i \in NoteId, NEW c, NEW keys, NEW ik, NEW text,
         Formed(item, i),
         NEW one, one = WithKey(item, i, c, keys, ik),
         NEW two, two = Seal(item, i, c, keys, ik, text)
  PROVE  /\ Formed(one, i) /\ SameForm(one, item)
         /\ Formed(two, i) /\ SameForm(two, item)
         /\ two.wrapped.enc = KeyKeyChain(c, keys, i, item).master
         /\ two.wrapped.uuid = i
         /\ item.wrapped.version \in Old =>
              two.wrapped.mac = KeyKeyChain(c, keys, i, item).auth
         /\ two.wrapped.inner = ik /\ two.content.inner = text
         /\ Fits(item.wrapped.version, ContentKeyChain(item.wrapped.version, ik).master) =>
              Unseals(two.content, i, ContentKeyChain(two.wrapped.version, two.wrapped.inner))
<1> DEFINE w == item.wrapped
           kk == KeyKeyChain(c, keys, i, item)
           v == Sealed(w.version, i, kk, ik, w.params, w.extra)
           k == ContentKeyChain(w.version, ik)
           t == Sealed(w.version, i, k, text, v.params, item.content.extra)
<1>1. /\ w \in Secret /\ w.extra \in BOOLEAN /\ item.content.extra \in BOOLEAN
      /\ item \in [present : BOOLEAN, keyId : KeyId \cup {NoId}, wrapped : Secret, content : Secret]
  BY DEF Item, Secret
<1> HIDE DEF kk, k
<1>2. /\ v.version = w.version /\ v.enc = kk.master /\ v.inner = ik
      /\ v.uuid = i /\ (w.version \in Old => v.mac = kk.auth)
      /\ v.params = (IF w.version \in Old \/ i \in KeyId THEN w.params ELSE 0)
      /\ v.extra = (w.version = "004" /\ w.extra)
  BY DEF Sealed
<1> HIDE DEF v
<1>3. /\ t.version = w.version /\ t.enc = k.master /\ t.inner = text /\ t.uuid = i
      /\ t.mac = (IF w.version \in Old THEN k.auth ELSE NoKey)
      /\ t.params = (IF w.version \in Old \/ i \in KeyId THEN v.params ELSE 0)
      /\ t.extra = (w.version = "004" /\ item.content.extra)
  BY DEF Sealed
<1>4. v.params = w.params /\ v.extra = w.extra
  BY <1>1, <1>2 DEF Formed
<1>5. t.params = w.params /\ t.extra = item.content.extra
  BY <1>1, <1>3, <1>4 DEF Formed
<1> HIDE DEF t
<1>6. /\ one.present = item.present /\ one.keyId = item.keyId
      /\ one.wrapped = v /\ one.content = item.content
  <2>1. one = [item EXCEPT !.wrapped = v]
    BY DEF WithKey, v, kk
  <2> QED BY <1>1, <2>1
<1>7. /\ two.present = item.present /\ two.keyId = item.keyId
      /\ two.wrapped = v /\ two.content = t
  <2>1. two = WithContent(one, i, ik, text)
    BY DEF Seal
  <2>2. two = [one EXCEPT !.content = t]
    BY <1>2, <1>6, <2>1 DEF WithContent, t, k
  <2>3. one = [item EXCEPT !.wrapped = v]
    BY DEF WithKey, v, kk
  <2> QED BY <1>1, <1>6, <2>2, <2>3
<1>8. Formed(one, i) /\ SameForm(one, item)
  BY <1>2, <1>4, <1>6 DEF Formed, SameForm
<1>9. Formed(two, i) /\ SameForm(two, item)
  BY <1>2, <1>3, <1>4, <1>5, <1>7 DEF Formed, SameForm
<1>10. Fits(w.version, k.master) => Unseals(t, i, k)
  BY <1>3 DEF Formed, Unseals
<1> QED BY <1>2, <1>3, <1>7, <1>8, <1>9, <1>10 DEF k, kk

\* The steps that neither store nor load an item: no other touches them.
LEMMA QuietSteps ==
  ASSUME TypeOK, [Next]_vars
  PROVE  \/ \E i \in ItemId : Create(i) \/ Reencrypt(i)
         \/ \E i \in NoteId : Save(i) \/ SealFails(i)
         \/ Start \/ Commit
         \/ /\ UNCHANGED <<stored, written, local, itemsKey, near>>
            /\ editor'.at = "open" => editor' = editor
            /\ drawn' \in Nat /\ drawn <= drawn'
            /\ \/ request' = NoRequest
               \/ request' = request /\ editor' = editor
               \/ request' = [request EXCEPT !.awaited = FALSE]
<1>0. drawn \in Nat
  BY DrawnNat
<1>1. ASSUME NEW version \in Protocol, ChangePassword(version)
      PROVE  UNCHANGED <<stored, written, local, itemsKey, near, request, editor>>
             /\ drawn' = drawn + 1
  BY <1>1 DEF ChangePassword
<1>2. ASSUME Login \/ Backup \/ Unseal \/ UNCHANGED vars
      PROVE  UNCHANGED <<stored, written, local, itemsKey, near, request, editor, drawn>>
  BY <1>2 DEF Login, Backup, Unseal, vars
<1>3. ASSUME Quit \/ \E i \in NoteId : Conflict(i)
      PROVE  /\ UNCHANGED <<stored, written, local, itemsKey, near, drawn>> /\ editor'.at # "open"
             /\ request' = NoRequest \/ request' = [request EXCEPT !.awaited = FALSE]
  <2>1. /\ UNCHANGED <<stored, written, local, itemsKey, near, drawn>>
        /\ request' = NoRequest \/ request' = [request EXCEPT !.awaited = FALSE]
    BY <1>3 DEF Quit, Conflict, Editing
  <2>2. editor' = [editor EXCEPT !.at = "closed"]
    BY <1>3 DEF Quit, Conflict
  <2>3. editor \in [at : {"closed", "open", "aborted"}, chain : Chain]
    BY Zenon DEF TypeOK
  <2> QED BY <2>1, <2>2, <2>3
<1>4. ASSUME Drop
      PROVE  UNCHANGED <<stored, written, local, itemsKey, near, editor, drawn>>
             /\ request' = NoRequest
  BY <1>4 DEF Drop
<1> QED BY <1>0, <1>1, <1>2, <1>3, <1>4 DEF Next, Others, Command

\* What a step of another client stores, field by field.
LEMMA OthersForm ==
  ASSUME TypeOK, NEW i \in ItemId, Create(i) \/ Reencrypt(i)
  PROVE  /\ \E e : /\ stored' = [stored EXCEPT ![i] = e]
                   /\ e.present /\ Formed(e, i) /\ CanWrap(i, e.keyId)
                   /\ e.wrapped.version = account.version
                   /\ e.wrapped.enc = WrappingKey(i, e.keyId)
                   /\ e.wrapped.uuid = i
                   /\ e.wrapped.version \in Old => e.wrapped.mac = account.root
                   /\ e.wrapped.inner.id = drawn + 1
                   /\ Create(i) => e.content.inner = IF i \in KeyId
                                                     THEN [id |-> drawn + 2, bytes |-> 32]
                                                     ELSE Text(drawn + 2)
                   /\ ~Create(i) => e.content.inner = stored[i].content.inner
                   /\ Unseals(e.content, i, ContentKeyChain(e.wrapped.version, e.wrapped.inner))
         /\ drawn' \in Nat /\ drawn < drawn'
         /\ UNCHANGED <<account, local, itemsKey, editor, chain, request>>
<1>0. /\ account.version \in Old \cup {"004"} /\ KeyId \cap NoteId = {}
      /\ drawn \in Nat /\ drawn + 1 \in Nat /\ drawn + 2 \in Nat
  BY VaultAssumption, DrawnNat DEF TypeOK
<1>1. CASE Create(i)
  <2>1. PICK keyId \in KeyId \cup {NoId}, extra \in BOOLEAN :
          /\ CanWrap(i, keyId)
          /\ stored' = [stored EXCEPT ![i] =
               Encrypted(i, keyId, ItemKey(account.version, drawn + 1),
                         IF i \in KeyId THEN [id |-> drawn + 2, bytes |-> 32]
                                        ELSE Text(drawn + 2), extra)]
    BY <1>1 DEF Create
  <2>2. drawn' = drawn + 2 /\ UNCHANGED <<account, local, itemsKey, editor, chain, request>>
    BY <1>1 DEF Create
  <2> DEFINE p == IF i \in KeyId THEN [id |-> drawn + 2, bytes |-> 32] ELSE Text(drawn + 2)
             e == Encrypted(i, keyId, ItemKey(account.version, drawn + 1), p, extra)
  <2> HIDE DEF p
  <2>3. /\ e.present /\ Formed(e, i) /\ e.keyId = keyId
        /\ e.wrapped.version = account.version
        /\ e.wrapped.enc = WrappingKey(i, keyId)
        /\ e.wrapped.uuid = i /\ (e.wrapped.version \in Old => e.wrapped.mac = account.root)
        /\ e.wrapped.inner.id = drawn + 1 /\ e.content.inner = p
        /\ Unseals(e.content, i, ContentKeyChain(e.wrapped.version, e.wrapped.inner))
    <3>1. AsTheyEncrypt(e, i, keyId, drawn + 1, p)
      BY <1>0, EncryptedForm
    <3> HIDE DEF e
    <3> QED BY <3>1 DEF AsTheyEncrypt
  <2>4. stored' = [stored EXCEPT ![i] = e]
    BY <2>1 DEF p
  <2> HIDE DEF e
  <2>5. CanWrap(i, e.keyId) /\ e.wrapped.enc = WrappingKey(i, e.keyId)
    BY <2>1, <2>3, Zenon
  <2>6. drawn' \in Nat /\ drawn < drawn'
    BY <1>0, <2>2
  <2>7. e.present /\ Formed(e, i) /\ e.wrapped.version = account.version
        /\ e.wrapped.uuid = i /\ (e.wrapped.version \in Old => e.wrapped.mac = account.root)
        /\ e.wrapped.inner.id = drawn + 1
        /\ Unseals(e.content, i, ContentKeyChain(e.wrapped.version, e.wrapped.inner))
    BY <2>3, Zenon
  <2>8. e.content.inner = p
    BY <2>3, Zenon
  <2> QED BY ONLY <1>1, <2>2, <2>4, <2>5, <2>6, <2>7, <2>8, Zenon DEF p
<1>2. CASE Reencrypt(i) /\ ~Create(i)
  <2>1. PICK keyId \in KeyId \cup {NoId}, extra \in BOOLEAN :
          /\ CanWrap(i, keyId)
          /\ stored' = [stored EXCEPT ![i] =
               Encrypted(i, keyId, ItemKey(account.version, drawn + 1),
                         stored[i].content.inner, extra)]
    BY <1>2 DEF Reencrypt
  <2>2. drawn' = drawn + 1 /\ UNCHANGED <<account, local, itemsKey, editor, chain, request>>
    BY <1>2 DEF Reencrypt
  <2> DEFINE p == stored[i].content.inner
             e == Encrypted(i, keyId, ItemKey(account.version, drawn + 1), p, extra)
  <2> HIDE DEF p
  <2>3. /\ e.present /\ Formed(e, i) /\ e.keyId = keyId
        /\ e.wrapped.version = account.version
        /\ e.wrapped.enc = WrappingKey(i, keyId)
        /\ e.wrapped.uuid = i /\ (e.wrapped.version \in Old => e.wrapped.mac = account.root)
        /\ e.wrapped.inner.id = drawn + 1 /\ e.content.inner = p
        /\ Unseals(e.content, i, ContentKeyChain(e.wrapped.version, e.wrapped.inner))
    <3>1. AsTheyEncrypt(e, i, keyId, drawn + 1, p)
      BY <1>0, EncryptedForm
    <3> HIDE DEF e
    <3> QED BY <3>1 DEF AsTheyEncrypt
  <2>4. stored' = [stored EXCEPT ![i] = e]
    BY <2>1 DEF p
  <2> HIDE DEF e
  <2>5. CanWrap(i, e.keyId) /\ e.wrapped.enc = WrappingKey(i, e.keyId)
    BY <2>1, <2>3, Zenon
  <2>6. drawn' \in Nat /\ drawn < drawn'
    BY <1>0, <2>2
  <2>7. e.present /\ Formed(e, i) /\ e.wrapped.version = account.version
        /\ e.wrapped.uuid = i /\ (e.wrapped.version \in Old => e.wrapped.mac = account.root)
        /\ e.wrapped.inner.id = drawn + 1
        /\ Unseals(e.content, i, ContentKeyChain(e.wrapped.version, e.wrapped.inner))
    BY <2>3, Zenon
  <2>8. e.content.inner = p
    BY <2>3, Zenon
  <2> QED BY ONLY <1>2, <2>2, <2>4, <2>5, <2>6, <2>7, <2>8, Zenon DEF p
<1> QED BY <1>1, <1>2

\* The content of a note, its two parts sealed by one Seal.
Together(item, i) ==
  /\ item.content.inner.bytes = 0
  /\ Unseals(item.content, i, ContentKeyChain(item.wrapped.version, item.wrapped.inner))

\* What is stored, what the editor holds and what it sent is formed.
FormsOK ==
  /\ \A i \in ItemId : stored[i].present => Formed(stored[i], i)
  /\ \A i \in ItemId : local[i].item.present => Formed(local[i].item, i)
  /\ request # NoRequest =>
       /\ request.note \in NoteId /\ request.item.present
       /\ Formed(request.item, request.note) /\ Together(request.item, request.note)

\* What Save, Commit and SealFails leave, field by field.
LEMMA SaveForm ==
  ASSUME TypeOK, FormsOK, NEW i \in NoteId, Save(i)
  PROVE  /\ \E two : /\ request' = [note |-> i, item |-> two, seen |-> Revision(stored[i]),
                                    near |-> near[i], awaited |-> TRUE]
                     /\ local' = [local EXCEPT ![i].item = two]
                     /\ two.present /\ Formed(two, i) /\ SameForm(two, local[i].item)
                     /\ two.wrapped.enc =
                          KeyKeyChain(editor.chain, itemsKey, i, local[i].item).master
                     /\ two.wrapped.uuid = i
                     /\ local[i].item.wrapped.version \in Old =>
                          two.wrapped.mac =
                            KeyKeyChain(editor.chain, itemsKey, i, local[i].item).auth
                     /\ Revision(two) = drawn + 1 /\ Together(two, i)
         /\ drawn' \in Nat /\ drawn + 1 <= drawn'
         /\ local[i].item.present /\ editor.at = "open"
         /\ CanSeal(local[i].item, i, editor.chain, itemsKey, NewKey)
         /\ UpToDate(i) /\ request = NoRequest
         /\ UNCHANGED <<stored, written, account, chain, itemsKey, editor>>
<1>0. drawn \in Nat
  BY DrawnNat
<1>1. i \in ItemId /\ local[i].item \in Item /\ local[i].item.present
  BY DEF Save, Editing, TypeOK, ItemId, Copy
<1>2. Formed(local[i].item, i)
  BY <1>1 DEF FormsOK
<1> DEFINE two == Seal(local[i].item, i, editor.chain, itemsKey, NewKey, Text(drawn + 2))
<1>3. Fits(local[i].item.wrapped.version,
           ContentKeyChain(local[i].item.wrapped.version, NewKey).master)
  BY DEF Save, CanSeal
<1>4. /\ Formed(two, i) /\ SameForm(two, local[i].item)
      /\ two.wrapped.enc = KeyKeyChain(editor.chain, itemsKey, i, local[i].item).master
      /\ two.wrapped.uuid = i
      /\ local[i].item.wrapped.version \in Old =>
           two.wrapped.mac = KeyKeyChain(editor.chain, itemsKey, i, local[i].item).auth
      /\ two.wrapped.inner = NewKey /\ two.content.inner = Text(drawn + 2)
      /\ Unseals(two.content, i, ContentKeyChain(two.wrapped.version, two.wrapped.inner))
  BY <1>1, <1>2, <1>3, SealForm
<1>9. CanSeal(local[i].item, i, editor.chain, itemsKey, NewKey)
  BY DEF Save
<1>5. NewKey.id = drawn + 1
  BY DEF NewKey, GenerateItemEncryptionKey
<1>6. /\ request' = [note |-> i, item |-> two, seen |-> Revision(stored[i]),
                     near |-> near[i], awaited |-> TRUE]
      /\ local' = [local EXCEPT ![i].item = two] /\ drawn' = drawn + 2
      /\ editor.at = "open" /\ UpToDate(i) /\ request = NoRequest
      /\ UNCHANGED <<stored, written, account, chain, itemsKey, editor>>
  BY DEF Save, Editing
<1> HIDE DEF two
<1>7. Revision(two) = drawn + 1 /\ Together(two, i)
  BY <1>4, <1>5 DEF Revision, Together, Text
<1>8. drawn' \in Nat /\ drawn + 1 <= drawn'
  BY <1>0, <1>6
<1>10. two.present
  BY <1>1, <1>4 DEF SameForm
<1> QED BY <1>1, <1>4, <1>6, <1>7, <1>8, <1>9, <1>10, Zenon

LEMMA CommitForm ==
  ASSUME TypeOK, FormsOK, Commit
  PROVE  /\ request # NoRequest /\ request.note \in NoteId /\ request.item \in Item
         /\ stored' = [stored EXCEPT ![request.note] = request.item]
         /\ written' = [written EXCEPT ![request.note] = request.item.content.inner.id]
         /\ \/ /\ request.awaited
               /\ local' = [local EXCEPT ![request.note].base = Revision(request.item)]
            \/ local' = local
         /\ \A j \in ItemId : local'[j].item = local[j].item
         /\ \A j \in ItemId : j # request.note => local'[j] = local[j]
         /\ request' = NoRequest
         /\ UNCHANGED <<account, drawn, chain, editor, itemsKey, file, recovered>>
<1>1. /\ request # NoRequest
      /\ stored' = [stored EXCEPT ![request.note] = request.item]
      /\ written' = [written EXCEPT ![request.note] = request.item.content.inner.id]
      /\ \/ /\ request.awaited
            /\ local' = [local EXCEPT ![request.note].base = Revision(request.item)]
         \/ local' = local
      /\ request' = NoRequest
      /\ UNCHANGED <<account, drawn, chain, editor, itemsKey, file, recovered>>
  BY DEF Commit
<1>2. request.note \in NoteId /\ request.item \in Item
  BY <1>1 DEF FormsOK, TypeOK, Request
<1>3. local \in [ItemId -> Copy]
  BY DEF TypeOK
<1>4. \A j \in ItemId : local'[j].item = local[j].item
  BY <1>1, <1>3 DEF Copy
<1>5. \A j \in ItemId : j # request.note => local'[j] = local[j]
  BY <1>1, <1>3
<1> QED BY <1>1, <1>2, <1>4, <1>5, Zenon

LEMMA SealFailsForm ==
  ASSUME TypeOK, FormsOK, NEW i \in NoteId, SealFails(i)
  PROVE  /\ \/ local' = local
            \/ \E one : /\ local' = [local EXCEPT ![i].item = one]
                        /\ Formed(one, i) /\ SameForm(one, local[i].item)
         /\ drawn' \in Nat /\ drawn < drawn' /\ local[i].item.present
         /\ request = NoRequest
         /\ UNCHANGED <<stored, written, account, chain, itemsKey, editor, request>>
<1>0. drawn \in Nat
  BY DrawnNat
<1>1. i \in ItemId /\ local[i].item \in Item /\ local[i].item.present
  BY DEF SealFails, Editing, TypeOK, ItemId, Copy
<1>2. Formed(local[i].item, i)
  BY <1>1 DEF FormsOK
<1> DEFINE one == WithKey(local[i].item, i, editor.chain, itemsKey, NewKey)
<1>3. Formed(one, i) /\ SameForm(one, local[i].item)
  BY <1>1, <1>2, SealForm
<1>4. /\ local' = local \/ local' = [local EXCEPT ![i].item = one]
      /\ drawn' = drawn + 1 /\ request = NoRequest
      /\ UNCHANGED <<stored, written, account, chain, itemsKey, editor, request>>
  BY DEF SealFails, Editing
<1> HIDE DEF one
<1> QED BY <1>0, <1>1, <1>3, <1>4

-----------------------------------------------------------------------------
(* Notes stay readable.                                                    *)

LEMMA FormsStep == ASSUME TypeOK, FormsOK, [Next]_vars PROVE FormsOK'
<1>0. /\ stored \in [ItemId -> Item] /\ local \in [ItemId -> Copy] /\ NoteId \subseteq ItemId
      /\ \A i \in ItemId : local[i].item \in Item
  BY DEF TypeOK, ItemId, Copy
<1>1. ASSUME NEW i \in ItemId, Create(i) \/ Reencrypt(i)
      PROVE  FormsOK'
  <2>1. PICK e : stored' = [stored EXCEPT ![i] = e] /\ Formed(e, i)
    BY <1>1, OthersForm
  <2>2. UNCHANGED <<local, request>>
    BY <1>1, OthersForm
  <2> QED BY <1>0, <2>1, <2>2 DEF FormsOK
<1>2. ASSUME NEW i \in NoteId, Save(i)
      PROVE  FormsOK'
  <2>1. PICK two : /\ request' = [note |-> i, item |-> two, seen |-> Revision(stored[i]),
                                  near |-> near[i], awaited |-> TRUE]
                   /\ local' = [local EXCEPT ![i].item = two]
                   /\ two.present /\ Formed(two, i) /\ Together(two, i)
    BY <1>2, SaveForm
  <2>2. stored' = stored
    BY <1>2, SaveForm
  <2>3. \A j \in ItemId : local'[j].item = IF j = i THEN two ELSE local[j].item
    BY <1>0, <2>1 DEF Copy
  <2>4. request'.note = i /\ request'.item = two
    BY <2>1
  <2> QED BY <2>1, <2>2, <2>3, <2>4 DEF FormsOK
<1>3. ASSUME NEW i \in NoteId, SealFails(i)
      PROVE  FormsOK'
  <2>1. /\ UNCHANGED <<stored, request>>
        /\ \/ local' = local
           \/ \E one : local' = [local EXCEPT ![i].item = one] /\ Formed(one, i)
    BY <1>3, SealFailsForm
  <2>2. CASE local' = local
    BY <2>1, <2>2 DEF FormsOK
  <2>3. ASSUME NEW one, local' = [local EXCEPT ![i].item = one], Formed(one, i)
        PROVE  FormsOK'
    <3>1. \A j \in ItemId : local'[j].item = IF j = i THEN one ELSE local[j].item
      BY <1>0, <2>3 DEF Copy
    <3> QED BY <2>1, <2>3, <3>1 DEF FormsOK
  <2> QED BY <2>1, <2>2, <2>3
<1>4. CASE Start
  <2>1. UNCHANGED <<stored, request>> /\ \A i \in ItemId : local'[i].item = stored[i]
    BY <1>4 DEF Start
  <2> QED BY <2>1 DEF FormsOK
<1>5. CASE Commit
  <2>1. /\ stored' = [stored EXCEPT ![request.note] = request.item]
        /\ request' = NoRequest /\ request # NoRequest /\ request.note \in NoteId
        /\ \A j \in ItemId : local'[j].item = local[j].item
    BY <1>5, CommitForm
  <2>2. \A j \in ItemId : stored'[j] = IF j = request.note THEN request.item ELSE stored[j]
    BY <1>0, <2>1
  <2> QED BY <2>1, <2>2 DEF FormsOK
<1>6. ASSUME UNCHANGED <<stored, local>>,
             \/ request' = NoRequest \/ request' = request
             \/ request' = [request EXCEPT !.awaited = FALSE]
      PROVE  FormsOK'
  <2>1. request' # NoRequest => /\ request'.note = request.note /\ request'.item = request.item
                                /\ request # NoRequest
    <3>1. request \in Request
      BY DEF TypeOK
    <3> QED BY <1>6, <3>1 DEF Request, NoRequest
  <2> QED BY <1>6, <2>1 DEF FormsOK
<1> QED BY <1>1, <1>2, <1>3, <1>4, <1>5, <1>6, QuietSteps

LEMMA ReadableStep == ASSUME TypeOK, FormsOK, Readable, [Next]_vars PROVE Readable'
<1>0. /\ stored \in [ItemId -> Item] /\ written \in [NoteId -> Nat]
      /\ NoteId \subseteq ItemId /\ KeyId \cap NoteId = {}
  BY VaultAssumption DEF TypeOK, ItemId
<1>1. ASSUME NEW i \in ItemId, Create(i)
      PROVE  Readable'
  <2>1. PICK e : /\ stored' = [stored EXCEPT ![i] = e]
                 /\ i \notin KeyId => e.content.inner = Text(drawn + 2)
                 /\ Unseals(e.content, i, ContentKeyChain(e.wrapped.version, e.wrapped.inner))
    BY <1>1, OthersForm
  <2>2. written' = IF i \in NoteId THEN [written EXCEPT ![i] = drawn + 2] ELSE written
    BY <1>1 DEF Create
  <2>3. i \in NoteId => stored'[i] = e /\ written'[i] = drawn + 2 /\ i \notin KeyId
    BY <1>0, <2>1, <2>2
  <2>4. \A j \in NoteId : j # i => stored'[j] = stored[j] /\ written'[j] = written[j]
    BY <1>0, <2>1, <2>2
  <2> QED BY <2>1, <2>3, <2>4 DEF Readable
<1>2. ASSUME NEW i \in ItemId, Reencrypt(i), ~Create(i)
      PROVE  Readable'
  <2>1. PICK e : /\ stored' = [stored EXCEPT ![i] = e]
                 /\ e.content.inner = stored[i].content.inner
                 /\ Unseals(e.content, i, ContentKeyChain(e.wrapped.version, e.wrapped.inner))
    BY <1>2, OthersForm
  <2>2. written' = written /\ stored[i].present
    BY <1>2 DEF Reencrypt
  <2>3. stored'[i] = e /\ \A j \in NoteId : j # i => stored'[j] = stored[j]
    BY <1>0, <2>1
  <2> QED BY <2>1, <2>2, <2>3 DEF Readable
<1>3. CASE Commit
  <2>1. /\ stored' = [stored EXCEPT ![request.note] = request.item]
        /\ written' = [written EXCEPT ![request.note] = request.item.content.inner.id]
        /\ request # NoRequest /\ request.note \in NoteId /\ request.item \in Item
    BY <1>3, CommitForm
  <2>2. Together(request.item, request.note)
    BY <2>1 DEF FormsOK
  <2>3. request.item.content.inner = Text(request.item.content.inner.id)
    BY <2>1, <2>2 DEF Together, Text, Item, Secret, Key
  <2>4. /\ stored'[request.note] = request.item
        /\ written'[request.note] = request.item.content.inner.id
        /\ \A j \in NoteId : j # request.note => stored'[j] = stored[j] /\ written'[j] = written[j]
    BY <1>0, <2>1
  <2> QED BY <2>2, <2>3, <2>4 DEF Readable, Together
<1>4. CASE UNCHANGED <<stored, written>>
  BY <1>4 DEF Readable
<1>5. \A i \in NoteId : Save(i) \/ SealFails(i) => UNCHANGED <<stored, written>>
  BY DEF Save, SealFails
<1>6. Start => UNCHANGED <<stored, written>>
  BY DEF Start
<1> QED BY <1>1, <1>2, <1>3, <1>4, <1>5, <1>6, QuietSteps

\* Before anything is created, nothing has to be formed.
LEMMA NothingFirst ==
  ASSUME Init
  PROVE  /\ \A i \in ItemId : ~stored[i].present /\ ~local[i].item.present
         /\ \A i \in ItemId : stored[i].wrapped.inner.id = 0 /\ local[i].base = 0
         /\ request = NoRequest
<1>1. ~NoItem.present /\ ~NoCopy.item.present /\ NoCopy.base = 0
      /\ NoItem.wrapped.inner.id = 0
  BY DEF NoItem, NoCopy, NoSecret, NoKey
<1> QED BY <1>1 DEF Init

\* For any number of keys and notes, and however sealing fails, whoever has the
\* key a note is wrapped with reads the text last saved in it.
THEOREM NotesReadable == Spec => []Readable
<1>1. Init => FormsOK /\ Readable
  BY NothingFirst DEF FormsOK, Readable, ItemId
<1>2. TypeOK /\ FormsOK /\ Readable /\ [Next]_vars => FormsOK' /\ Readable'
  BY FormsStep, ReadableStep
<1> QED BY <1>1, <1>2, TypeCorrect, PTL DEF Spec

-----------------------------------------------------------------------------
(* The editor and the server.                                              *)

\* Copy i was made of what is stored.
SameVersion(i) ==
  stored[i].present /\ local[i].item.present /\ stored[i].wrapped.inner.id = local[i].base

Wrapping(i) == KeyKeyChain(editor.chain, itemsKey, i, local[i].item)

\* The note i on its way is another version than any stored or copied; unless it
\* crosses another save it has the form and the key of what it replaces, and an
\* editor that waits for it holds it.
Way(i) ==
  /\ request.seen <= drawn /\ Revision(request.item) <= drawn
  /\ Revision(request.item) # Revision(stored[i]) /\ Revision(request.item) # local[i].base
  /\ stored[i].present
  /\ ~Crossed(i) => /\ SameForm(request.item, stored[i])
                    /\ stored[i].wrapped.enc = request.item.wrapped.enc
  /\ request.awaited => /\ local[i].item = request.item /\ editor.at = "open"
                        /\ request.item.wrapped.enc = Wrapping(i).master

\* Versions are numbered as they are drawn, and a copy of the version stored has
\* its form; the open editor wraps it with the key it is wrapped with.
Followed ==
  /\ \A i \in ItemId : stored[i].wrapped.inner.id <= drawn /\ local[i].base <= drawn
  /\ \A i \in ItemId : local[i].item.present => stored[i].present
  /\ \A i \in NoteId : SameVersion(i) =>
       /\ SameForm(local[i].item, stored[i])
       /\ editor.at = "open" => stored[i].wrapped.enc = Wrapping(i).master
  /\ \A i \in NoteId : request.note = i => Way(i)

\* What is on its way goes on when nothing that matters to it changes.
LEMMA WayStays ==
  ASSUME TypeOK, NEW i \in NoteId, request.note = i, Way(i),
         drawn' \in Nat, drawn <= drawn',
         \/ request' = request /\ UNCHANGED <<editor, itemsKey>>
         \/ request' = [request EXCEPT !.awaited = FALSE],
         stored'[i] = stored[i], local'[i] = local[i]
  PROVE  Way(i)'
<1>1. /\ \/ request' = request /\ UNCHANGED <<editor, itemsKey>>
         \/ request'.awaited = FALSE
      /\ request'.note = i /\ request'.item = request.item
      /\ request'.seen = request.seen /\ request'.near = request.near
  <2>1. request \in Request
    BY DEF TypeOK
  <2> QED BY <2>1 DEF Request
<1>2. request.seen \in Nat /\ Revision(request.item) \in Nat /\ drawn \in Nat
  <2>1. request \in Request
    BY DEF TypeOK
  <2> QED BY <2>1, DrawnNat DEF Request, Revision, Item, Secret, Key
<1>3. Revision(request.item)' = Revision(request.item) /\ Revision(stored[i])' = Revision(stored[i])
  BY <1>1 DEF Revision
<1>4. Crossed(i)' <=> Crossed(i)
  BY <1>1, <1>3 DEF Crossed
<1>5. request'.awaited => request' = request /\ UNCHANGED <<editor, itemsKey>>
  BY <1>1
<1>6. request'.awaited => Wrapping(i)' = Wrapping(i)
  BY <1>5 DEF Wrapping
<1>7. request.seen <= drawn' /\ Revision(request.item) <= drawn'
  BY <1>2 DEF Way
<1>8. /\ Revision(request.item) # Revision(stored[i]) /\ Revision(request.item) # local[i].base
      /\ stored[i].present
      /\ ~Crossed(i) => /\ SameForm(request.item, stored[i])
                        /\ stored[i].wrapped.enc = request.item.wrapped.enc
      /\ request.awaited => /\ local[i].item = request.item /\ editor.at = "open"
                            /\ request.item.wrapped.enc = Wrapping(i).master
  BY DEF Way
<1>9. request'.awaited => /\ local'[i].item = request'.item /\ editor'.at = "open"
                          /\ request'.item.wrapped.enc = Wrapping(i)'.master
  BY <1>1, <1>5, <1>6, <1>8
<1> QED BY <1>1, <1>3, <1>4, <1>7, <1>8, <1>9 DEF Way

\* The key chain of a copy depends on the items key it names alone.
LEMMA WrappingOfKeyId ==
  ASSUME NEW c, NEW keys, NEW i, NEW a, NEW b, a.keyId = b.keyId
  PROVE  KeyKeyChain(c, keys, i, a) = KeyKeyChain(c, keys, i, b)
BY DEF KeyKeyChain

LEMMA FollowedStep ==
  ASSUME TypeOK, FormsOK, Followed, [Next]_vars
  PROVE  Followed'
<1>0. /\ stored \in [ItemId -> Item] /\ local \in [ItemId -> Copy] /\ NoteId \subseteq ItemId
      /\ drawn \in Nat
      /\ \A i \in ItemId : /\ stored[i].wrapped.inner.id \in Nat /\ local[i].base \in Nat
                           /\ local[i].item \in Item
      /\ request \in Request /\ Revision(request.item) \in Nat /\ request.seen \in Nat
      /\ request # NoRequest => request.note \in NoteId
  <2>1. \A i \in ItemId : stored[i].wrapped.inner.id \in Nat
    BY DEF TypeOK, Item, Secret, Key
  <2>2. \A i \in ItemId : local[i].base \in Nat /\ local[i].item \in Item
    BY DEF TypeOK, Copy
  <2>3. request \in Request
    BY DEF TypeOK
  <2>4. Revision(request.item) \in Nat /\ request.seen \in Nat
    BY <2>3 DEF Request, Revision, Item, Secret, Key
  <2> QED BY <2>1, <2>2, <2>3, <2>4, DrawnNat DEF TypeOK, ItemId, FormsOK
<1>1. ASSUME NEW i \in ItemId, Create(i) \/ Reencrypt(i)
      PROVE  Followed'
  <2>1. PICK e : /\ stored' = [stored EXCEPT ![i] = e]
                 /\ e.present /\ e.wrapped.inner.id = drawn + 1
    BY <1>1, OthersForm
  <2>2. drawn' \in Nat /\ drawn < drawn' /\ UNCHANGED <<local, itemsKey, editor, request>>
    BY <1>1, OthersForm
  <2>3. stored'[i] = e /\ \A j \in ItemId : j # i => stored'[j] = stored[j]
    BY <1>0, <2>1
  <2>4. drawn + 1 \in Nat /\ drawn + 1 <= drawn' /\ local[i].base < drawn + 1
    BY <1>0, <2>2 DEF Followed
  <2>5. \A j \in ItemId : stored'[j].wrapped.inner.id <= drawn' /\ local'[j].base <= drawn'
    BY <1>0, <2>1, <2>2, <2>3, <2>4 DEF Followed
  <2>6. \A j \in ItemId : local'[j].item.present => stored'[j].present
    BY <2>1, <2>2, <2>3 DEF Followed
  <2>7. \A j \in NoteId : SameVersion(j)' => SameVersion(j) /\ stored'[j] = stored[j]
    BY <1>0, <2>1, <2>2, <2>3, <2>4 DEF SameVersion
  <2>8. ASSUME NEW j \in NoteId, request'.note = j
        PROVE  Way(j)'
    <3>1. Way(j) /\ request.note = j
      BY <2>2, <2>8 DEF Followed
    <3>2. CASE j # i
      <4>1. stored'[j] = stored[j] /\ local'[j] = local[j] /\ drawn <= drawn'
        BY <1>0, <2>2, <2>3, <3>2
      <4> QED BY <2>2, <3>1, <4>1, WayStays
    <3>3. CASE j = i
      <4>1. Revision(stored[j])' = drawn + 1 /\ stored'[j].present
        BY <2>1, <2>3, <3>3 DEF Revision
      <4>2. Crossed(j)'
        BY <1>0, <2>2, <3>1, <4>1 DEF Crossed, Way
      <4>3. Wrapping(j)' = Wrapping(j) /\ Revision(request.item)' = Revision(request.item)
        BY <2>2 DEF Wrapping, Revision
      <4>4. /\ request.seen <= drawn' /\ Revision(request.item) <= drawn'
            /\ Revision(request.item) # drawn + 1
        BY <1>0, <2>2, <3>1, <4>1 DEF Way
      <4>5. /\ Revision(request.item) # local[j].base
            /\ request.awaited => /\ local[j].item = request.item /\ editor.at = "open"
                                  /\ request.item.wrapped.enc = Wrapping(j).master
        BY <3>1 DEF Way
      <4> QED BY <2>2, <4>1, <4>2, <4>3, <4>4, <4>5 DEF Way
    <3> QED BY <3>2, <3>3
  <2>9. \A j \in NoteId : Wrapping(j)' = Wrapping(j)
    BY <2>2 DEF Wrapping
  <2>10. \A j \in NoteId : SameVersion(j)' =>
           /\ SameForm(local'[j].item, stored'[j])
           /\ editor'.at = "open" => stored'[j].wrapped.enc = Wrapping(j)'.master
    BY <2>2, <2>7, <2>9 DEF Followed
  <2> QED BY <2>5, <2>6, <2>8, <2>10 DEF Followed
<1>2. ASSUME NEW i \in NoteId, Save(i)
      PROVE  Followed'
  <2>1. PICK two : /\ request' = [note |-> i, item |-> two, seen |-> Revision(stored[i]),
                                  near |-> near[i], awaited |-> TRUE]
                   /\ local' = [local EXCEPT ![i].item = two]
                   /\ two.present /\ SameForm(two, local[i].item)
                   /\ two.wrapped.enc = Wrapping(i).master
                   /\ Revision(two) = drawn + 1
    BY <1>2, SaveForm DEF Wrapping
  <2>2. /\ drawn' \in Nat /\ drawn + 1 <= drawn' /\ UNCHANGED <<stored, itemsKey, editor>>
        /\ local[i].item.present /\ UpToDate(i) /\ editor.at = "open"
    BY <1>2, SaveForm
  <2>3. \A j \in ItemId : /\ local'[j].base = local[j].base
                          /\ local'[j].item = IF j = i THEN two ELSE local[j].item
    BY <1>0, <2>1 DEF Copy
  <2>4. \A j \in ItemId : SameForm(local'[j].item, local[j].item)
    BY <2>1, <2>3 DEF SameForm
  <2>5. \A j \in ItemId : stored'[j].wrapped.inner.id <= drawn' /\ local'[j].base <= drawn'
    BY <1>0, <2>2, <2>3 DEF Followed
  <2>6. \A j \in ItemId : local'[j].item.present => stored'[j].present
    BY <2>2, <2>4 DEF Followed, SameForm
  <2>7. \A j \in ItemId : Wrapping(j)' = Wrapping(j)
    <3>1. \A j \in ItemId : local'[j].item.keyId = local[j].item.keyId
      BY <2>4 DEF SameForm
    <3> QED BY <2>2, <3>1, WrappingOfKeyId DEF Wrapping
  <2>8. \A j \in ItemId : SameVersion(j)' => SameVersion(j)
    BY <2>2, <2>3, <2>4 DEF SameVersion, SameForm
  <2>9. \A j \in NoteId : SameVersion(j)' =>
          /\ SameForm(local'[j].item, stored'[j])
          /\ editor'.at = "open" => stored'[j].wrapped.enc = Wrapping(j)'.master
    BY <1>0, <2>2, <2>4, <2>7, <2>8 DEF Followed, SameForm
  <2>10. Way(i)'
    <3>1. /\ request'.note = i /\ request'.item = two /\ request'.seen = Revision(stored[i])
          /\ request'.near = near[i] /\ Revision(request.item)' = drawn + 1
          /\ Revision(stored[i])' = Revision(stored[i])
      BY <2>1, <2>2 DEF Revision
    <3>2. stored[i].present /\ Revision(stored[i]) = stored[i].wrapped.inner.id
      BY <1>0, <2>2 DEF Followed, Revision
    <3>3. /\ request'.seen <= drawn' /\ Revision(request.item)' <= drawn'
          /\ Revision(request.item)' # Revision(stored[i])'
          /\ Revision(request.item)' # local'[i].base
      <4>1. stored[i].wrapped.inner.id <= drawn /\ local[i].base <= drawn
        BY <1>0 DEF Followed
      <4> QED BY <1>0, <2>2, <2>3, <3>1, <3>2, <4>1
    <3>4. ~Crossed(i)' => /\ SameForm(request'.item, stored'[i])
                          /\ stored'[i].wrapped.enc = request'.item.wrapped.enc
      <4> SUFFICES ASSUME ~Crossed(i)'
                   PROVE  /\ SameForm(two, stored[i]) /\ stored[i].wrapped.enc = two.wrapped.enc
        BY <2>2, <3>1
      <4>1. ~near[i]
        BY <3>1 DEF Crossed
      <4>2. SameVersion(i)
        BY <2>2, <3>2, <4>1 DEF UpToDate, SameVersion, Revision
      <4>3. /\ SameForm(local[i].item, stored[i])
            /\ stored[i].wrapped.enc = Wrapping(i).master
        BY <2>2, <4>2 DEF Followed
      <4> QED BY <2>1, <4>3 DEF SameForm
    <3>5. /\ local'[i].item = request'.item /\ editor'.at = "open"
          /\ request'.item.wrapped.enc = Wrapping(i)'.master
      BY <1>0, <2>1, <2>2, <2>3, <2>7, <3>1
    <3>6. stored'[i].present
      BY <2>2, <3>2
    <3> QED BY <3>1, <3>3, <3>4, <3>5, <3>6 DEF Way
  <2>11. request'.note = i
    BY <2>1
  <2> QED BY <2>5, <2>6, <2>9, <2>10, <2>11 DEF Followed
<1>3. ASSUME NEW i \in NoteId, SealFails(i)
      PROVE  Followed'
  <2>1. /\ drawn' \in Nat /\ drawn < drawn' /\ UNCHANGED <<stored, itemsKey, editor, request>>
        /\ request = NoRequest
        /\ \/ local' = local
           \/ \E one : /\ local' = [local EXCEPT ![i].item = one]
                       /\ SameForm(one, local[i].item)
    BY <1>3, SealFailsForm
  <2>2. \A j \in ItemId : /\ local'[j].base = local[j].base
                          /\ SameForm(local'[j].item, local[j].item)
    <3>1. CASE local' = local
      BY <3>1 DEF SameForm
    <3>2. ASSUME NEW one, local' = [local EXCEPT ![i].item = one],
                 SameForm(one, local[i].item)
          PROVE  \A j \in ItemId : /\ local'[j].base = local[j].base
                                   /\ SameForm(local'[j].item, local[j].item)
      <4>1. \A j \in ItemId : /\ local'[j].base = local[j].base
                              /\ local'[j].item = IF j = i THEN one ELSE local[j].item
        BY <1>0, <3>2 DEF Copy
      <4> QED BY <3>2, <4>1 DEF SameForm
    <3> QED BY <2>1, <3>1, <3>2
  <2>3. \A j \in ItemId : Wrapping(j)' = Wrapping(j)
    <3>1. \A j \in ItemId : local'[j].item.keyId = local[j].item.keyId
      BY <2>2 DEF SameForm
    <3> QED BY <2>1, <3>1, WrappingOfKeyId DEF Wrapping
  <2>4. \A j \in ItemId : local'[j].item.present = local[j].item.present
    BY <2>2 DEF SameForm
  <2>5. \A j \in ItemId : SameVersion(j)' => SameVersion(j)
    BY <2>1, <2>2, <2>4 DEF SameVersion
  <2>6. \A j \in ItemId : SameForm(local[j].item, stored[j]) => SameForm(local'[j].item, stored'[j])
    BY <2>1, <2>2 DEF SameForm
  <2>7. \A j \in ItemId : stored'[j].wrapped.inner.id <= drawn' /\ local'[j].base <= drawn'
    BY <1>0, <2>1, <2>2 DEF Followed
  <2>8. \A j \in NoteId : request'.note # j
    BY <2>1, VaultAssumption DEF NoRequest
  <2> QED BY <1>0, <2>1, <2>3, <2>4, <2>5, <2>6, <2>7, <2>8 DEF Followed
<1>4. CASE Start
  <2>1. /\ UNCHANGED <<stored, drawn, request>> /\ editor.at # "open"
        /\ \A i \in ItemId : /\ local'[i].item = stored[i]
                             /\ local'[i].base = stored[i].wrapped.inner.id
        /\ itemsKey' = LoadedKeys(stored, chain)
        /\ editor' = [at |-> IF AllOpen(stored, chain) THEN "open" ELSE "aborted",
                      chain |-> chain]
    BY <1>4 DEF Start, Revision
  <2>2. \A i \in NoteId : stored[i].present /\ editor'.at = "open" =>
          stored[i].wrapped.enc = Wrapping(i)'.master
    <3> SUFFICES ASSUME NEW i \in NoteId, stored[i].present, editor'.at = "open"
                 PROVE  stored[i].wrapped.enc = Wrapping(i)'.master
      OBVIOUS
    <3>1. Opens(stored[i], i, chain, LoadedKeys(stored, chain))
      BY <1>0, <2>1 DEF AllOpen
    <3>2. Wrapping(i)' = KeyKeyChain(chain, LoadedKeys(stored, chain), i, stored[i])
      BY <1>0, <2>1 DEF Wrapping
    <3> QED BY <3>1, <3>2 DEF Opens, Unseals
  <2>3. \A i \in NoteId : SameForm(local'[i].item, stored'[i])
    BY <1>0, <2>1 DEF SameForm
  <2>4. \A i \in ItemId : /\ stored'[i].wrapped.inner.id <= drawn' /\ local'[i].base <= drawn'
                          /\ local'[i].item.present => stored'[i].present
    BY <2>1 DEF Followed
  <2>5. \A i \in NoteId : SameVersion(i)' => stored[i].present
    BY <2>1 DEF SameVersion
  <2>6. ASSUME NEW i \in NoteId, request'.note = i
        PROVE  Way(i)'
    <3>1. Way(i) /\ request.note = i
      BY <2>1, <2>6 DEF Followed
    <3>2. ~request.awaited /\ request' = request
      BY <2>1, <3>1 DEF Way
    <3>3. Crossed(i)' <=> Crossed(i)
      BY <2>1 DEF Crossed, Revision
    <3>4. /\ Revision(request.item)' = Revision(request.item)
          /\ Revision(stored[i])' = Revision(stored[i])
      BY <2>1 DEF Revision
    <3>5. local'[i].base = Revision(stored[i])
      BY <1>0, <2>1 DEF Revision
    <3> QED BY <2>1, <3>1, <3>2, <3>3, <3>4, <3>5 DEF Way
  <2>7. \A i \in NoteId : SameVersion(i)' =>
          /\ SameForm(local'[i].item, stored'[i])
          /\ editor'.at = "open" => stored'[i].wrapped.enc = Wrapping(i)'.master
    BY <2>1, <2>2, <2>3, <2>5
  <2> QED BY <2>4, <2>6, <2>7 DEF Followed
<1>5. CASE Commit
  <2>0. PICK i \in NoteId : i = request.note
    BY <1>5, CommitForm
  <2>1. /\ request # NoRequest /\ i \in NoteId
        /\ stored' = [stored EXCEPT ![i] = request.item]
        /\ \/ /\ request.awaited
              /\ local' = [local EXCEPT ![i].base = Revision(request.item)]
           \/ local' = local
        /\ \A j \in ItemId : local'[j].item = local[j].item
        /\ \A j \in ItemId : j # i => local'[j] = local[j]
        /\ request' = NoRequest /\ UNCHANGED <<drawn, editor, itemsKey>>
    BY <1>5, <2>0, CommitForm
  <2>2. stored'[i] = request.item /\ \A j \in ItemId : j # i => stored'[j] = stored[j]
    BY <1>0, <2>1
  <2>3. /\ Revision(request.item) <= drawn /\ Revision(request.item) # local[i].base
        /\ request.awaited => /\ local[i].item = request.item
                              /\ request.item.wrapped.enc = Wrapping(i).master
    BY <2>0, <2>1 DEF Followed, Way
  <2>4. \/ local'[i].base = local[i].base
        \/ request.awaited /\ local'[i].base = Revision(request.item)
    BY <1>0, <2>1 DEF Copy
  <2>5. \A j \in ItemId : stored'[j].wrapped.inner.id <= drawn' /\ local'[j].base <= drawn'
    <3>1. /\ stored'[i].wrapped.inner.id <= drawn' /\ local'[i].base <= drawn'
      BY <1>0, <2>1, <2>2, <2>3, <2>4 DEF Followed, Revision
    <3> QED BY <2>1, <2>2, <3>1 DEF Followed
  <2>6. \A j \in ItemId : local'[j].item.present => stored'[j].present
    BY <2>1, <2>2 DEF Followed, FormsOK
  <2>7. \A j \in ItemId : Wrapping(j)' = Wrapping(j)
    BY <2>1 DEF Wrapping
  <2>8. \A j \in NoteId : j # i /\ SameVersion(j)' => SameVersion(j)
    BY <1>0, <2>1, <2>2 DEF SameVersion
  <2>9. SameVersion(i)' => request.awaited
    BY <2>2, <2>3, <2>4 DEF SameVersion, Revision
  <2>10. SameForm(request.item, request.item)
    BY DEF SameForm
  <2>11. \A j \in NoteId : SameVersion(j)' =>
           /\ SameForm(local'[j].item, stored'[j])
           /\ editor'.at = "open" => stored'[j].wrapped.enc = Wrapping(j)'.master
    <3> SUFFICES ASSUME NEW j \in NoteId, SameVersion(j)'
                 PROVE  /\ SameForm(local'[j].item, stored'[j])
                        /\ editor'.at = "open" => stored'[j].wrapped.enc = Wrapping(j)'.master
      OBVIOUS
    <3>1. CASE j = i
      BY <1>0, <2>1, <2>2, <2>3, <2>7, <2>9, <2>10, <3>1
    <3>2. CASE j # i
      BY <1>0, <2>1, <2>2, <2>7, <2>8, <3>2 DEF Followed
    <3> QED BY <3>1, <3>2
  <2>12. \A j \in NoteId : request'.note # j
    BY <2>1, VaultAssumption DEF NoRequest
  <2> QED BY <2>1, <2>5, <2>6, <2>11, <2>12 DEF Followed
<1>6. ASSUME UNCHANGED <<stored, local, itemsKey>>, editor'.at = "open" => editor' = editor,
             drawn' \in Nat, drawn <= drawn',
             \/ request' = NoRequest
             \/ request' = request /\ editor' = editor
             \/ request' = [request EXCEPT !.awaited = FALSE]
      PROVE  Followed'
  <2>1. \A i \in ItemId : stored'[i].wrapped.inner.id <= drawn' /\ local'[i].base <= drawn'
    BY <1>0, <1>6 DEF Followed
  <2>2. \A i \in NoteId : editor'.at = "open" => Wrapping(i)' = Wrapping(i) /\ editor.at = "open"
    BY <1>6 DEF Wrapping
  <2>3. \A i \in NoteId : SameVersion(i)' <=> SameVersion(i)
    BY <1>6 DEF SameVersion
  <2>4. ASSUME NEW i \in NoteId, request'.note = i
        PROVE  Way(i)'
    <3>1. /\ request.note = i
          /\ \/ request' = request /\ editor' = editor
             \/ request' = [request EXCEPT !.awaited = FALSE]
      BY <1>0, <1>6, <2>4, VaultAssumption DEF NoRequest, Request
    <3>2. Way(i)
      BY <3>1 DEF Followed
    <3>3. stored'[i] = stored[i] /\ local'[i] = local[i]
      BY <1>6
    <3> QED BY <1>6, <3>1, <3>2, <3>3, WayStays
  <2> QED BY <1>6, <2>1, <2>2, <2>3, <2>4 DEF Followed
<1> QED BY <1>1, <1>2, <1>3, <1>4, <1>5, <1>6, QuietSteps

LEMMA FollowedFirst == Init => FormsOK /\ Followed
<1> SUFFICES ASSUME Init PROVE FormsOK /\ Followed
  OBVIOUS
<1>1. drawn = 1 /\ NoteId \subseteq ItemId
  BY DEF Init, ItemId
<1>2. request = NoRequest /\ \A i \in NoteId : request.note # i
  BY NothingFirst, VaultAssumption DEF NoRequest
<1> QED BY <1>1, <1>2, NothingFirst DEF FormsOK, Followed, SameVersion

\* Saving a note that crosses no other save changes nothing of its format.
LEMMA FormatStep ==
  ASSUME TypeOK, FormsOK, Followed, Commit, NEW i \in NoteId, request.note = i, ~Crossed(i)
  PROVE  /\ \A field \in {"version", "params", "extra"} :
              /\ stored'[i].wrapped[field] = stored[i].wrapped[field]
              /\ stored'[i].content[field] = stored[i].content[field]
         /\ stored'[i].keyId = stored[i].keyId
         /\ stored'[i].wrapped.enc = stored[i].wrapped.enc
<1>1. stored \in [ItemId -> Item] /\ i \in ItemId
  BY DEF TypeOK, ItemId
<1>2. request # NoRequest /\ stored' = [stored EXCEPT ![i] = request.item]
  BY CommitForm
<1>3. stored'[i] = request.item
  BY <1>1, <1>2
<1>4. SameForm(request.item, stored[i]) /\ stored[i].wrapped.enc = request.item.wrapped.enc
  BY DEF Followed, Way
<1> QED BY <1>3, <1>4 DEF SameForm

\* For any number of keys and notes, the editor never changes the protocol
\* version, the key params or the form of a note it saves, unless its save
\* crosses that of another client.
THEOREM SealingKeepsFormat == Spec => FormatKept
<1>1. TypeOK /\ FormsOK /\ Followed /\ [Next]_vars => FormsOK' /\ Followed'
  BY FormsStep, FollowedStep
<1>2. TypeOK /\ FormsOK /\ Followed /\ [Next]_vars =>
        [\A i \in NoteId :
           Commit /\ request.note = i /\ ~Crossed(i) =>
             /\ \A field \in {"version", "params", "extra"} :
                  /\ stored'[i].wrapped[field] = stored[i].wrapped[field]
                  /\ stored'[i].content[field] = stored[i].content[field]
             /\ stored'[i].keyId = stored[i].keyId]_vars
  BY FormatStep
<1> QED BY <1>1, <1>2, FollowedFirst, TypeCorrect, PTL DEF Spec, FormatKept

LEMMA SchemeStep ==
  ASSUME TypeOK, FormsOK, Followed, [Next]_vars, account' = account,
         NEW i \in ItemId, stored[i].present, Current(i), ~Crossed(i)
  PROVE  Current(i)'
<1>0. /\ stored \in [ItemId -> Item] /\ NoteId \subseteq ItemId /\ KeyId \subseteq ItemId
      /\ KeyId \cap NoteId = {}
  BY VaultAssumption DEF TypeOK, ItemId
<1>1. ASSUME NEW j \in ItemId, Create(j) \/ Reencrypt(j)
      PROVE  Current(i)'
  <2>1. PICK e : /\ stored' = [stored EXCEPT ![j] = e] /\ e.present
                 /\ ~Create(j) => e.content.inner = stored[j].content.inner
    BY <1>1, OthersForm
  <2>2. j # i /\ (Create(j) => ~stored[j].present)
    BY <1>1 DEF Create, Reencrypt
  <2>3. stored'[i] = stored[i]
    BY <1>0, <2>1, <2>2
  <2>4. \A k \in KeyId : stored[k].present =>
          stored'[k].present /\ stored'[k].content.inner = stored[k].content.inner
    BY <1>0, <2>1, <2>2
  <2> QED BY <2>3, <2>4 DEF Current, CanWrap, WrappingKey
<1>2. CASE Commit
  <2> DEFINE j == request.note
  <2>1. stored' = [stored EXCEPT ![j] = request.item] /\ j \in NoteId
    BY <1>2, CommitForm
  <2>2. \A k \in ItemId : k # j => stored'[k] = stored[k]
    BY <1>0, <2>1
  <2>3. \A k \in KeyId : stored'[k] = stored[k]
    BY <1>0, <2>1, <2>2
  <2>4. /\ stored'[i].wrapped.version = stored[i].wrapped.version
        /\ stored'[i].keyId = stored[i].keyId
        /\ stored'[i].wrapped.enc = stored[i].wrapped.enc
    <3>1. CASE i = j
      BY <1>2, <2>1, <3>1, FormatStep
    <3>2. CASE i # j
      BY <2>2, <3>2
    <3> QED BY <3>1, <3>2
  <2> QED BY <2>3, <2>4 DEF Current, CanWrap, WrappingKey
<1>3. CASE UNCHANGED stored
  BY <1>3 DEF Current, CanWrap, WrappingKey
<1>4. \A j \in NoteId : Save(j) \/ SealFails(j) => UNCHANGED stored
  BY DEF Save, SealFails
<1>5. Start => UNCHANGED stored
  BY DEF Start
<1> QED BY <1>1, <1>2, <1>3, <1>4, <1>5, QuietSteps

\* For any number of keys and notes, no step but a change of the account, or a
\* save that crosses that of another client, makes an item that is encrypted as
\* the account has it now one that is not.
THEOREM SchemeIsKept == Spec => SchemeStays
<1>1. TypeOK /\ FormsOK /\ Followed /\ [Next]_vars => FormsOK' /\ Followed'
  BY FormsStep, FollowedStep
<1>2. TypeOK /\ FormsOK /\ Followed /\ [Next]_vars =>
        [\A i \in ItemId :
           stored[i].present /\ Current(i) /\ account' = account /\ ~Crossed(i)
             => Current(i)']_vars
  BY SchemeStep
<1> QED BY <1>1, <1>2, FollowedFirst, TypeCorrect, PTL DEF Spec, SchemeStays

-----------------------------------------------------------------------------
(* Root keys, items keys and the keys notes are wrapped with.              *)

\* A note of 004 is wrapped with an items key that is there ...
UnderItemsKey(item) ==
  item.wrapped.version = "004" =>
    \E k \in KeyId : stored[k].present /\ item.wrapped.enc = stored[k].content.inner

\* ... and names one.
NamesItemsKey(item) ==
  item.wrapped.version \notin Old => item.keyId \in KeyId /\ stored[item.keyId].present

\* Root keys and items keys are drawn apart.
KeysApart ==
  /\ account.root.id <= drawn /\ chain.master.id <= drawn
  /\ \A k \in KeyId : stored[k].present =>
       LET key == stored[k].content.inner
       IN key.id <= drawn /\ key.id # account.root.id /\ key.id # chain.master.id
  /\ \A i \in NoteId : stored[i].present => UnderItemsKey(stored[i])
  /\ \A i \in NoteId : request.note = i => UnderItemsKey(request.item)

\* The editor wraps its notes with a key that suits the version of each, and
\* runs for 004 if one of them is of 004.
KeysFit ==
  editor.at = "open" =>
    \A i \in NoteId : local[i].item.present =>
      /\ Fits(local[i].item.wrapped.version, Wrapping(i).master)
      /\ local[i].item.wrapped.version \notin Old => editor.chain.version = "004"

\* It loaded the items keys they name.
KeysLoaded ==
  \A i \in NoteId : local[i].item.present =>
    /\ NamesItemsKey(local[i].item)
    /\ editor.at = "open" /\ local[i].item.wrapped.version \notin Old =>
         LET k == local[i].item.keyId
         IN itemsKey[k] = stored[k].content.inner

\* The two secrets of item i open with the key each was sealed with.
WellSealed(item, i) ==
  /\ item.wrapped.version # "none"
  /\ item.wrapped.version \in Old =>
       item.wrapped.uuid = i /\ item.wrapped.mac = item.wrapped.enc
  /\ Fits(item.wrapped.version, item.wrapped.enc)
  /\ Unseals(item.content, i, ContentKeyChain(item.wrapped.version, item.wrapped.inner))

\* All items are, and a note of 004 names an items key that is among them.
Whole(items) ==
  /\ \A i \in ItemId : items[i].present => WellSealed(items[i], i)
  /\ \A i \in NoteId : items[i].present /\ items[i].wrapped.version \notin Old =>
       items[i].keyId \in KeyId /\ items[items[i].keyId].present

RootOfOld(c) == c.version \in Old => c.auth = c.master

\* Roots and items keys have the length of a key, and the editor keeps the two
\* halves of a key of before 004 together.
KeysWhole ==
  /\ account.root.bytes = 32
  /\ \A k \in KeyId : stored[k].present => stored[k].content.inner.bytes = 32
  /\ RootOfOld(chain)
  /\ editor.at = "open" =>
       \A i \in NoteId : local[i].item.present /\ local[i].item.wrapped.version \in Old =>
         Wrapping(i).auth = Wrapping(i).master

\* So does the note on its way.
SentWhole ==
  \A i \in NoteId : request.note = i =>
    WellSealed(request.item, i) /\ NamesItemsKey(request.item)

\* All that is needed of the keys.
KeysOK ==
  /\ TypeOK /\ FormsOK /\ Followed
  /\ KeysApart /\ KeysFit /\ KeysLoaded /\ KeysWhole /\ Whole(stored) /\ SentWhole

\* The numbers KeysApart compares.
LEMMA KeyNumbers ==
  ASSUME TypeOK
  PROVE  /\ stored \in [ItemId -> Item] /\ NoteId \subseteq ItemId /\ KeyId \subseteq ItemId
         /\ drawn \in Nat /\ account.root.id \in Nat /\ chain.master.id \in Nat
         /\ \A k \in ItemId : stored[k].content.inner.id \in Nat
<1>1. account.root.id \in Nat /\ chain.master.id \in Nat
  BY DEF TypeOK, Chain, Key
<1>2. \A k \in ItemId : stored[k].content.inner.id \in Nat
  BY DEF TypeOK, Item, Secret, Key
<1> QED BY <1>1, <1>2, DrawnNat DEF TypeOK, ItemId

\* What an item is wrapped with when the account is of 004.
LEMMA WrappedNote ==
  ASSUME NEW i \in NoteId, NEW e, CanWrap(i, e.keyId), KeyId \cap NoteId = {},
         e.wrapped.version = account.version, e.wrapped.enc = WrappingKey(i, e.keyId)
  PROVE  UnderItemsKey(e)
<1> SUFFICES ASSUME e.wrapped.version = "004"
             PROVE  \E k \in KeyId : stored[k].present
                                     /\ e.wrapped.enc = stored[k].content.inner
  BY DEF UnderItemsKey
<1>1. ~(account.version \in Old \/ i \in KeyId)
  BY DEF Old
<1> QED BY <1>1 DEF CanWrap, WrappingKey

\* A key once stored is the same for ever.
LEMMA KeysStay ==
  ASSUME TypeOK, FormsOK, [Next]_vars, NEW k \in KeyId, stored[k].present
  PROVE  stored'[k].present /\ stored'[k].content.inner = stored[k].content.inner
<1>0. k \in ItemId /\ k \notin NoteId /\ stored \in [ItemId -> Item]
  BY VaultAssumption DEF ItemId, TypeOK
<1>1. ASSUME NEW i \in ItemId, Create(i) \/ Reencrypt(i)
      PROVE  stored'[k].present /\ stored'[k].content.inner = stored[k].content.inner
  <2>1. PICK e : /\ stored' = [stored EXCEPT ![i] = e] /\ e.present
                 /\ ~Create(i) => e.content.inner = stored[i].content.inner
    BY <1>1, OthersForm
  <2>2. Create(i) => ~stored[i].present
    BY DEF Create
  <2> QED BY <1>0, <2>1, <2>2
<1>2. CASE Commit
  BY <1>0, <1>2, CommitForm
<1>3. CASE UNCHANGED stored
  BY <1>3
<1>4. \A i \in NoteId : Save(i) \/ SealFails(i) => UNCHANGED stored
  BY DEF Save, SealFails
<1>5. Start => UNCHANGED stored
  BY DEF Start
<1> QED BY <1>1, <1>2, <1>3, <1>4, <1>5, QuietSteps

\* What the editor keeps until it starts again.
LEMMA Kept ==
  ASSUME TypeOK, FormsOK, [Next]_vars, ~Start
  PROVE  /\ itemsKey' = itemsKey
         /\ editor'.at = "open" => editor' = editor
         /\ \A j \in ItemId :
              /\ local'[j].item.present = local[j].item.present
              /\ local'[j].item.keyId = local[j].item.keyId
              /\ local'[j].item.wrapped.version = local[j].item.wrapped.version
         /\ editor' = editor => \A j \in ItemId : Wrapping(j)' = Wrapping(j)
<1>0. local \in [ItemId -> Copy] /\ \A i \in ItemId : local[i].item \in Item
  BY DEF TypeOK, Copy
<1>1. /\ itemsKey' = itemsKey
      /\ editor'.at = "open" => editor' = editor
      /\ \A j \in ItemId : \/ local'[j].item = local[j].item
                           \/ SameForm(local'[j].item, local[j].item)
  <2>1. ASSUME NEW i \in ItemId, Create(i) \/ Reencrypt(i)
        PROVE  UNCHANGED <<itemsKey, editor, local>>
    BY <2>1, OthersForm
  <2>2. ASSUME NEW i \in NoteId, Save(i)
        PROVE  /\ UNCHANGED <<itemsKey, editor>>
               /\ \A j \in ItemId : \/ local'[j].item = local[j].item
                                    \/ SameForm(local'[j].item, local[j].item)
    <3>1. UNCHANGED <<itemsKey, editor>>
      BY <2>2, SaveForm
    <3>2. PICK two : local' = [local EXCEPT ![i].item = two] /\ SameForm(two, local[i].item)
      BY <2>2, SaveForm
    <3>3. \A j \in ItemId : local'[j].item = IF j = i THEN two ELSE local[j].item
      BY <1>0, <3>2 DEF Copy
    <3> QED BY <3>1, <3>2, <3>3
  <2>3. ASSUME NEW i \in NoteId, SealFails(i)
        PROVE  /\ UNCHANGED <<itemsKey, editor>>
               /\ \A j \in ItemId : \/ local'[j].item = local[j].item
                                    \/ SameForm(local'[j].item, local[j].item)
    <3>1. UNCHANGED <<itemsKey, editor>>
      BY <2>3, SealFailsForm
    <3>2. ASSUME NEW one, local' = [local EXCEPT ![i].item = one], SameForm(one, local[i].item)
          PROVE  \A j \in ItemId : \/ local'[j].item = local[j].item
                                   \/ SameForm(local'[j].item, local[j].item)
      <4>1. \A j \in ItemId : local'[j].item = IF j = i THEN one ELSE local[j].item
        BY <1>0, <3>2 DEF Copy
      <4> QED BY <3>2, <4>1
    <3> QED BY <2>3, <3>1, <3>2, SealFailsForm
  <2>4. CASE Commit
    BY <2>4, CommitForm
  <2> QED BY <2>1, <2>2, <2>3, <2>4, QuietSteps
<1>2. \A j \in ItemId :
        /\ local'[j].item.present = local[j].item.present
        /\ local'[j].item.keyId = local[j].item.keyId
        /\ local'[j].item.wrapped.version = local[j].item.wrapped.version
  BY <1>1 DEF SameForm
<1>3. editor' = editor => \A j \in ItemId : Wrapping(j)' = Wrapping(j)
  BY <1>1, <1>2, WrappingOfKeyId DEF Wrapping
<1> QED BY <1>1, <1>2, <1>3

\* What Start loads, note by note.
LEMMA StartForm ==
  ASSUME KeysOK, Start, NEW i \in NoteId
  PROVE  /\ \A j \in ItemId : local'[j].item = stored[j]
         /\ UNCHANGED <<stored, account, chain, request, drawn>>
         /\ editor'.chain = chain
         /\ editor'.at = "open" /\ stored[i].present =>
              /\ Unseals(stored[i].wrapped, i, Wrapping(i)')
              /\ stored[i].wrapped.version \notin Old =>
                   /\ chain.version = "004"
                   /\ itemsKey'[stored[i].keyId] = stored[stored[i].keyId].content.inner
<1>1. /\ \A j \in ItemId : local'[j].item = stored[j]
      /\ itemsKey' = LoadedKeys(stored, chain)
      /\ UNCHANGED <<stored, account, chain, request, drawn>>
      /\ editor' = [at |-> IF AllOpen(stored, chain) THEN "open" ELSE "aborted",
                    chain |-> chain]
  BY DEF Start
<1>2. i \in ItemId /\ i \notin KeyId /\ TypeOK
  BY VaultAssumption DEF ItemId, KeysOK
<1> SUFFICES ASSUME editor'.at = "open", stored[i].present
             PROVE  /\ Unseals(stored[i].wrapped, i, Wrapping(i)')
                    /\ stored[i].wrapped.version \notin Old =>
                         /\ chain.version = "004"
                         /\ itemsKey'[stored[i].keyId] = stored[stored[i].keyId].content.inner
  BY <1>1
<1>3. Wrapping(i)' = KeyKeyChain(chain, itemsKey', i, stored[i])
  BY <1>1, <1>2 DEF Wrapping
<1>4. Unseals(stored[i].wrapped, i, Wrapping(i)')
  <2>1. Opens(stored[i], i, chain, LoadedKeys(stored, chain))
    BY <1>1, <1>2 DEF AllOpen
  <2> QED BY <1>1, <1>3, <2>1 DEF Opens
<1>5. ASSUME stored[i].wrapped.version \notin Old
      PROVE  chain.version = "004" /\ stored[i].wrapped.version = "004"
  <2>1. stored[i].wrapped.version = "004"
    <3>1. stored[i].wrapped.version \in Old \cup {"004", "none"}
      BY <1>2, KeyNumbers DEF Item, Secret
    <3> QED BY <1>4, <1>5, <3>1 DEF Unseals
  <2>2. PICK k \in KeyId : /\ stored[k].present
                           /\ stored[i].wrapped.enc = stored[k].content.inner
    BY <2>1 DEF KeysOK, KeysApart, UnderItemsKey
  <2>3. ASSUME chain.version # "004" PROVE FALSE
    <3>1. Wrapping(i)' = chain
      BY <1>3, <2>3 DEF KeyKeyChain
    <3>2. stored[i].wrapped.enc = chain.master
      BY <1>4, <3>1 DEF Unseals
    <3> QED BY <2>2, <3>2 DEF KeysOK, KeysApart
  <2> QED BY <2>1, <2>3
<1>6. ASSUME stored[i].wrapped.version \notin Old
      PROVE  itemsKey'[stored[i].keyId] = stored[stored[i].keyId].content.inner
  <2>1. stored[i].keyId \in KeyId
    BY <1>6 DEF KeysOK, Whole
  <2>2. Wrapping(i)'.master = itemsKey'[stored[i].keyId]
    BY <1>2, <1>3, <1>5, <1>6 DEF KeyKeyChain
  <2>3. itemsKey'[stored[i].keyId].bytes = 32
    BY <1>4, <1>5, <1>6, <2>2 DEF Unseals, Fits, Old
  <2> QED BY <1>1, <2>1, <2>3 DEF LoadedKeys, NoKey
<1> QED BY <1>4, <1>5, <1>6

\* A note on its way was sent by this step or before.
LEMMA SentBefore ==
  ASSUME TypeOK, FormsOK, [Next]_vars, NEW i \in NoteId, request'.note = i
  PROVE  Save(i) \/ (request.note = i /\ request'.item = request.item)
<1>0. request \in Request /\ NoRequest.note # i
  BY VaultAssumption DEF TypeOK, NoRequest
<1>1. ASSUME NEW j \in ItemId, Create(j) \/ Reencrypt(j)
      PROVE  request' = request
  BY <1>1, OthersForm
<1>2. ASSUME NEW j \in NoteId, Save(j)
      PROVE  request'.note = j
  BY <1>2, SaveForm
<1>3. ASSUME NEW j \in NoteId, SealFails(j)
      PROVE  request' = request
  BY <1>3, SealFailsForm
<1>4. Start => request' = request
  BY DEF Start
<1>5. Commit => request' = NoRequest
  BY DEF Commit
<1>6. request' = [request EXCEPT !.awaited = FALSE] =>
        request'.note = request.note /\ request'.item = request.item
  BY <1>0 DEF Request
<1> QED BY <1>0, <1>1, <1>2, <1>3, <1>4, <1>5, <1>6, QuietSteps

\* What Save seals, given the keys of the editor.
LEMMA SavedWhole ==
  ASSUME KeysOK, NEW i \in NoteId, Save(i)
  PROVE  /\ WellSealed(request'.item, i) /\ NamesItemsKey(request'.item)
         /\ UnderItemsKey(request'.item) /\ stored' = stored
<1>0. TypeOK /\ FormsOK /\ KeysFit /\ KeysLoaded /\ KeysWhole
  BY DEF KeysOK
<1>1. PICK two : /\ request'.item = two
                 /\ Formed(two, i) /\ SameForm(two, local[i].item)
                 /\ two.wrapped.enc = Wrapping(i).master
                 /\ two.wrapped.uuid = i
                 /\ local[i].item.wrapped.version \in Old => two.wrapped.mac = Wrapping(i).auth
                 /\ Together(two, i)
  <2>1. PICK two : /\ request' = [note |-> i, item |-> two, seen |-> Revision(stored[i]),
                                  near |-> near[i], awaited |-> TRUE]
                   /\ Formed(two, i) /\ SameForm(two, local[i].item)
                   /\ two.wrapped.enc = Wrapping(i).master
                   /\ two.wrapped.uuid = i
                   /\ local[i].item.wrapped.version \in Old => two.wrapped.mac = Wrapping(i).auth
                   /\ Together(two, i)
    BY <1>0, SaveForm DEF Wrapping
  <2> QED BY <2>1
<1>2. local[i].item.present /\ editor.at = "open" /\ stored' = stored
  BY <1>0, SaveForm
<1>3. two.wrapped.version = local[i].item.wrapped.version /\ two.keyId = local[i].item.keyId
  BY <1>1 DEF SameForm
<1>4. WellSealed(two, i)
  <2>1. Fits(two.wrapped.version, Wrapping(i).master)
    BY <1>0, <1>2, <1>3 DEF KeysFit
  <2>2. two.wrapped.version \in Old => Wrapping(i).auth = Wrapping(i).master
    BY <1>0, <1>2, <1>3 DEF KeysWhole
  <2> QED BY <1>1, <1>3, <2>1, <2>2 DEF WellSealed, Formed, Together
<1>5. NamesItemsKey(two)
  BY <1>0, <1>2, <1>3 DEF KeysLoaded, NamesItemsKey
<1>6. UnderItemsKey(two)
  <2> SUFFICES ASSUME two.wrapped.version = "004"
               PROVE  \E k \in KeyId : stored[k].present
                                       /\ two.wrapped.enc = stored[k].content.inner
    BY DEF UnderItemsKey
  <2>1. two.wrapped.version \notin Old
    BY DEF Old
  <2>2. editor.chain.version = "004"
    BY <1>0, <1>2, <1>3, <2>1 DEF KeysFit
  <2>3. /\ two.keyId \in KeyId /\ stored[two.keyId].present
        /\ itemsKey[two.keyId] = stored[two.keyId].content.inner
    BY <1>0, <1>2, <1>3, <2>1 DEF KeysLoaded, NamesItemsKey
  <2>4. i \notin KeyId
    BY VaultAssumption
  <2>5. Wrapping(i).master = itemsKey[two.keyId]
    BY <1>3, <2>2, <2>4 DEF Wrapping, KeyKeyChain
  <2> QED BY <1>1, <2>3, <2>5
<1> QED BY <1>1, <1>2, <1>4, <1>5, <1>6

LEMMA KeysApartStep == ASSUME KeysOK, [Next]_vars PROVE KeysApart'
<1>0. TypeOK /\ FormsOK /\ Followed /\ KeysApart /\ KeyId \cap NoteId = {}
  BY VaultAssumption DEF KeysOK
<1> USE KeyNumbers, <1>0
<1>k. \A k \in KeyId : stored[k].present =>
        stored'[k].present /\ stored'[k].content.inner = stored[k].content.inner
  BY KeysStay
<1>u. ASSUME NEW item, UnderItemsKey(item)
      PROVE  item.wrapped.version = "004" =>
               \E k \in KeyId : stored'[k].present /\ item.wrapped.enc = stored'[k].content.inner
  BY <1>k, <1>u DEF UnderItemsKey
<1>r. ASSUME NEW i \in NoteId, request'.note = i
      PROVE  UnderItemsKey(request.item)'
  <2>1. UnderItemsKey(request'.item)
    <3>1. CASE Save(i)
      BY <3>1, SavedWhole
    <3>2. CASE request.note = i /\ request'.item = request.item
      BY <3>2 DEF KeysApart
    <3> QED BY <1>r, <3>1, <3>2, SentBefore
  <2>2. PICK item : item = request'.item
    OBVIOUS
  <2>3. item.wrapped.version = "004" =>
          \E k \in KeyId : stored'[k].present /\ item.wrapped.enc = stored'[k].content.inner
    BY <1>u, <2>1, <2>2
  <2> QED BY <2>2, <2>3 DEF UnderItemsKey
<1>1. ASSUME NEW i \in ItemId, Create(i) \/ Reencrypt(i)
      PROVE  KeysApart'
  <2>1. PICK e : /\ stored' = [stored EXCEPT ![i] = e]
                 /\ e.present /\ CanWrap(i, e.keyId)
                 /\ e.wrapped.version = account.version
                 /\ e.wrapped.enc = WrappingKey(i, e.keyId)
                 /\ Create(i) => e.content.inner = IF i \in KeyId
                                                   THEN [id |-> drawn + 2, bytes |-> 32]
                                                   ELSE Text(drawn + 2)
                 /\ ~Create(i) => e.content.inner = stored[i].content.inner
    BY <1>1, OthersForm
  <2>2. drawn' \in Nat /\ drawn < drawn' /\ UNCHANGED <<account, chain>>
    BY <1>1, OthersForm
  <2>3. stored'[i] = e /\ \A j \in ItemId : j # i => stored'[j] = stored[j]
    BY <2>1
  <2>4. Create(i) => ~stored[i].present /\ drawn' = drawn + 2
    BY DEF Create
  <2>5. ~Create(i) => stored[i].present
    BY <1>1 DEF Reencrypt
  <2>6. account'.root.id <= drawn' /\ chain'.master.id <= drawn'
    BY <2>2 DEF KeysApart
  <2>8. ASSUME NEW k \in KeyId, stored'[k].present
        PROVE  LET key == stored'[k].content.inner
               IN key.id <= drawn' /\ key.id # account'.root.id /\ key.id # chain'.master.id
    <3>1. CASE stored[k].present
      BY <1>k, <2>2, <3>1 DEF KeysApart
    <3>2. CASE ~stored[k].present
      <4>1. k = i /\ Create(i)
        BY <2>3, <2>5, <2>8, <3>2
      <4>2. stored'[k].content.inner.id = drawn + 2
        BY <2>1, <2>3, <4>1
      <4>3. account.root.id <= drawn /\ chain.master.id <= drawn
        BY DEF KeysApart
      <4> QED BY <2>2, <2>4, <4>1, <4>2, <4>3
    <3> QED BY <3>1, <3>2
  <2>9. ASSUME NEW j \in NoteId, stored'[j].present
        PROVE  UnderItemsKey(stored[j])'
    <3>1. CASE j = i
      <4>1. UnderItemsKey(e)
        BY <2>1, <3>1, WrappedNote
      <4> QED BY <1>u, <2>3, <3>1, <4>1 DEF UnderItemsKey
    <3>2. CASE j # i
      <4>1. stored'[j] = stored[j]
        BY <2>3, <3>2
      <4>2. UnderItemsKey(stored[j])
        BY <2>9, <4>1 DEF KeysApart
      <4> QED BY <1>u, <4>1, <4>2 DEF UnderItemsKey
    <3> QED BY <3>1, <3>2
  <2> QED BY <1>r, <2>6, <2>8, <2>9 DEF KeysApart
<1>2. CASE Commit
  <2>1. PICK i \in NoteId : i = request.note /\ stored' = [stored EXCEPT ![i] = request.item]
    BY <1>2, CommitForm
  <2>2. UNCHANGED <<account, chain, drawn>>
    BY <1>2, CommitForm
  <2>3. stored'[i] = request.item /\ \A j \in ItemId : j # i => stored'[j] = stored[j]
    BY <2>1
  <2>4. \A k \in KeyId : stored'[k] = stored[k]
    BY <2>3
  <2>5. ASSUME NEW j \in NoteId, stored'[j].present
        PROVE  UnderItemsKey(stored[j])'
    <3>1. UnderItemsKey(stored'[j])
      <4>1. CASE j = i
        BY <2>1, <2>3, <4>1 DEF KeysApart
      <4>2. CASE j # i
        BY <2>3, <2>5, <4>2 DEF KeysApart
      <4> QED BY <4>1, <4>2
    <3> QED BY <2>4, <3>1 DEF UnderItemsKey
  <2> QED BY <1>r, <2>2, <2>4, <2>5 DEF KeysApart
<1>3. ASSUME UNCHANGED stored, drawn' \in Nat, drawn <= drawn',
             account'.root.id <= drawn', chain'.master.id <= drawn',
             \A k \in KeyId : stored[k].present =>
               LET key == stored[k].content.inner
               IN key.id # account'.root.id /\ key.id # chain'.master.id
      PROVE  KeysApart'
  <2>1. \A j \in NoteId : stored'[j].present => UnderItemsKey(stored[j])'
    BY <1>3 DEF KeysApart, UnderItemsKey
  <2> QED BY <1>3, <1>r, <2>1 DEF KeysApart
<1>4. ASSUME NEW version \in Protocol, ChangePassword(version)
      PROVE  KeysApart'
  <2>1. /\ UNCHANGED <<stored, chain>> /\ drawn' = drawn + 1
        /\ account' = [account EXCEPT !.version = version,
                                      !.root = [id |-> drawn + 1, bytes |-> 32]]
    BY <1>4 DEF ChangePassword
  <2>2. account'.root.id = drawn + 1
    BY <2>1 DEF TypeOK
  <2> QED BY <1>3, <2>1, <2>2 DEF KeysApart
<1>5. CASE Login
  <2>1. UNCHANGED <<account, stored, drawn>> /\ chain' = RootChain(account.version, account.root)
    BY <1>5 DEF Login
  <2>2. chain'.master = account.root
    BY <2>1 DEF RootChain
  <2> QED BY <1>3, <2>1, <2>2 DEF KeysApart
<1>6. ASSUME UNCHANGED <<account, stored, chain>>, drawn' \in Nat, drawn <= drawn'
      PROVE  KeysApart'
  BY <1>3, <1>6 DEF KeysApart
<1>7. \A i \in NoteId : Save(i) => /\ UNCHANGED <<account, stored, chain>>
                                   /\ drawn' \in Nat /\ drawn <= drawn'
  <2>1. ASSUME NEW i \in NoteId, Save(i)
        PROVE  /\ UNCHANGED <<account, stored, chain>> /\ drawn' \in Nat /\ drawn + 1 <= drawn'
    BY <2>1, SaveForm
  <2> QED BY <2>1
<1>8. \A i \in NoteId : Conflict(i) \/ SealFails(i) =>
        UNCHANGED <<account, stored, chain>> /\ (drawn' = drawn \/ drawn' = drawn + 1)
  BY DEF Conflict, SealFails
<1>9. Start \/ Quit \/ Drop \/ Backup \/ Unseal \/ UNCHANGED vars =>
        UNCHANGED <<account, stored, chain, drawn>>
  BY DEF Start, Quit, Drop, Backup, Unseal, vars
<1> QED BY <1>1, <1>2, <1>4, <1>5, <1>6, <1>7, <1>8, <1>9 DEF Next, Others, Command

LEMMA KeysFitStep == ASSUME KeysOK, [Next]_vars PROVE KeysFit'
<1>0. TypeOK /\ FormsOK /\ KeysFit /\ NoteId \subseteq ItemId
  BY DEF KeysOK, ItemId
<1>1. CASE Start
  <2> SUFFICES ASSUME editor'.at = "open", NEW i \in NoteId, local'[i].item.present
               PROVE  /\ Fits(local'[i].item.wrapped.version, Wrapping(i)'.master)
                      /\ local'[i].item.wrapped.version \notin Old
                           => editor'.chain.version = "004"
    BY DEF KeysFit
  <2>1. local'[i].item = stored[i] /\ editor'.chain = chain
    BY <1>0, <1>1, StartForm
  <2>2. /\ Unseals(stored[i].wrapped, i, Wrapping(i)')
        /\ stored[i].wrapped.version \notin Old => chain.version = "004"
    BY <1>1, <2>1, StartForm
  <2> QED BY <2>1, <2>2 DEF Unseals
<1>2. CASE ~Start
  BY <1>0, <1>2, Kept DEF KeysFit
<1> QED BY <1>1, <1>2

LEMMA KeysLoadedStep == ASSUME KeysOK, [Next]_vars PROVE KeysLoaded'
<1>0. TypeOK /\ FormsOK /\ KeysLoaded /\ NoteId \subseteq ItemId
  BY DEF KeysOK, ItemId
<1> SUFFICES ASSUME NEW i \in NoteId, local'[i].item.present
             PROVE  /\ NamesItemsKey(local[i].item)'
                    /\ editor'.at = "open" /\ local'[i].item.wrapped.version \notin Old =>
                         LET k == local'[i].item.keyId
                         IN itemsKey'[k] = stored'[k].content.inner
  BY DEF KeysLoaded
<1>1. CASE Start
  <2>1. local'[i].item = stored[i] /\ stored' = stored
    BY <1>0, <1>1, StartForm
  <2>2. stored[i].wrapped.version \notin Old =>
          stored[i].keyId \in KeyId /\ stored[stored[i].keyId].present
    BY <2>1 DEF KeysOK, Whole
  <2>3. editor'.at = "open" /\ stored[i].wrapped.version \notin Old =>
          itemsKey'[stored[i].keyId] = stored[stored[i].keyId].content.inner
    BY <1>1, <2>1, StartForm
  <2> QED BY <2>1, <2>2, <2>3 DEF NamesItemsKey
<1>2. CASE ~Start
  <2>1. /\ itemsKey' = itemsKey
        /\ editor'.at = "open" => editor' = editor
        /\ local[i].item.present /\ local'[i].item.keyId = local[i].item.keyId
        /\ local'[i].item.wrapped.version = local[i].item.wrapped.version
    BY <1>0, <1>2, Kept
  <2>2. local[i].item.wrapped.version \notin Old =>
          local[i].item.keyId \in KeyId /\ stored[local[i].item.keyId].present
    BY <1>0, <2>1 DEF KeysLoaded, NamesItemsKey
  <2>3. local[i].item.wrapped.version \notin Old =>
          LET k == local[i].item.keyId
          IN stored'[k].present /\ stored'[k].content.inner = stored[k].content.inner
    BY <1>0, <2>2, KeysStay
  <2>4. NamesItemsKey(local[i].item)'
    BY <2>1, <2>2, <2>3 DEF NamesItemsKey
  <2>5. ASSUME editor'.at = "open", local[i].item.wrapped.version \notin Old
        PROVE  itemsKey'[local[i].item.keyId] = stored'[local[i].item.keyId].content.inner
    <3>1. itemsKey[local[i].item.keyId] = stored[local[i].item.keyId].content.inner
      BY <1>0, <2>1, <2>5 DEF KeysLoaded
    <3> QED BY <2>1, <2>3, <2>5, <3>1
  <2> QED BY <2>1, <2>4, <2>5
<1> QED BY <1>1, <1>2

LEMMA SentWholeStep == ASSUME KeysOK, [Next]_vars PROVE SentWhole'
<1>0. TypeOK /\ FormsOK /\ SentWhole
  BY DEF KeysOK
<1> SUFFICES ASSUME NEW i \in NoteId, request'.note = i
             PROVE  WellSealed(request'.item, i) /\ NamesItemsKey(request.item)'
  BY DEF SentWhole
<1>1. WellSealed(request'.item, i) /\ NamesItemsKey(request'.item)
  <2>1. CASE Save(i)
    BY <2>1, SavedWhole
  <2>2. CASE request.note = i /\ request'.item = request.item
    BY <1>0, <2>2 DEF SentWhole
  <2> QED BY <1>0, <2>1, <2>2, SentBefore
<1>2. request'.item.wrapped.version \notin Old =>
        request'.item.keyId \in KeyId /\ stored[request'.item.keyId].present
  BY <1>1 DEF NamesItemsKey
<1>3. request'.item.wrapped.version \notin Old => stored'[request'.item.keyId].present
  BY <1>0, <1>2, KeysStay
<1> QED BY <1>1, <1>2, <1>3 DEF NamesItemsKey

LEMMA KeysWholeStep == ASSUME KeysOK, [Next]_vars PROVE KeysWhole'
<1>0. /\ TypeOK /\ FormsOK /\ KeysWhole /\ NoteId \subseteq ItemId
  BY DEF KeysOK, ItemId
<1>2. account'.root.bytes = 32
  <2>1. ASSUME NEW version \in Protocol, ChangePassword(version)
        PROVE  account'.root.bytes = 32
    BY <1>0, <2>1 DEF ChangePassword, TypeOK
  <2>2. UNCHANGED account => account'.root.bytes = 32
    BY <1>0 DEF KeysWhole
  <2>3. \A i \in ItemId : Create(i) \/ Reencrypt(i) => UNCHANGED account
    BY DEF Create, Reencrypt
  <2>4. \A i \in NoteId : Save(i) \/ Conflict(i) \/ SealFails(i) => UNCHANGED account
    BY DEF Save, Conflict, SealFails
  <2>5. Login \/ Start \/ Quit \/ Backup \/ Unseal \/ Commit \/ Drop \/ UNCHANGED vars
          => UNCHANGED account
    BY DEF Login, Start, Quit, Backup, Unseal, Commit, Drop, vars
  <2> QED BY <2>1, <2>2, <2>3, <2>4, <2>5 DEF Next, Others, Command
<1>3. ASSUME NEW k \in KeyId, stored'[k].present
      PROVE  stored'[k].content.inner.bytes = 32
  <2>1. CASE stored[k].present
    BY <1>0, <2>1, KeysStay DEF KeysWhole
  <2>2. CASE ~stored[k].present
    <3>0. k \in ItemId /\ k \notin NoteId
      BY VaultAssumption DEF ItemId
    <3>1. ASSUME NEW i \in ItemId, Create(i) \/ Reencrypt(i)
          PROVE  stored'[k].content.inner.bytes = 32
      <4>1. PICK e : /\ stored' = [stored EXCEPT ![i] = e]
                     /\ Create(i) => e.content.inner = IF i \in KeyId
                                                       THEN [id |-> drawn + 2, bytes |-> 32]
                                                       ELSE Text(drawn + 2)
        BY <1>0, <3>1, OthersForm
      <4>2. i = k /\ stored'[k] = e
        BY <1>0, <1>3, <2>2, <3>0, <4>1, KeyNumbers
      <4>3. Create(i)
        BY <2>2, <3>1, <4>2 DEF Reencrypt
      <4> QED BY <4>1, <4>2, <4>3
    <3>2. Commit => stored'[k] = stored[k]
      <4> SUFFICES ASSUME Commit PROVE stored'[k] = stored[k]
        OBVIOUS
      <4>1. request.note \in NoteId /\ stored' = [stored EXCEPT ![request.note] = request.item]
        BY <1>0, CommitForm
      <4> QED BY <1>0, <3>0, <4>1, KeyNumbers
    <3>3. \A i \in NoteId : Save(i) \/ SealFails(i) => UNCHANGED stored
      BY DEF Save, SealFails
    <3>4. Start => UNCHANGED stored
      BY DEF Start
    <3> QED BY <1>0, <1>3, <2>2, <3>1, <3>2, <3>3, <3>4, QuietSteps
  <2> QED BY <2>1, <2>2
<1>4. RootOfOld(chain)'
  <2>1. CASE Login
    <3>1. chain' = RootChain(account.version, account.root)
      BY <2>1 DEF Login
    <3> QED BY <3>1 DEF RootOfOld, RootChain
  <2>2. UNCHANGED chain => RootOfOld(chain)'
    BY <1>0 DEF KeysWhole, RootOfOld
  <2>3. Others => UNCHANGED chain
    BY DEF Others, Create, Reencrypt, ChangePassword
  <2>4. \A i \in NoteId : Save(i) \/ Conflict(i) \/ SealFails(i) => UNCHANGED chain
    BY DEF Save, Conflict, SealFails
  <2>5. Start \/ Quit \/ Backup \/ Unseal \/ Commit \/ Drop \/ UNCHANGED vars => UNCHANGED chain
    BY DEF Start, Quit, Backup, Unseal, Commit, Drop, vars
  <2> QED BY <2>1, <2>2, <2>3, <2>4, <2>5 DEF Next, Command
<1>5. ASSUME editor'.at = "open", NEW i \in NoteId, local'[i].item.present,
             local'[i].item.wrapped.version \in Old
      PROVE  Wrapping(i)'.auth = Wrapping(i)'.master
  <2>1. CASE Start
    <3>1. local'[i].item = stored[i]
      BY <1>0, <2>1, StartForm
    <3>2. Unseals(stored[i].wrapped, i, Wrapping(i)')
      BY <1>5, <2>1, <3>1, StartForm
    <3>3. WellSealed(stored[i], i)
      BY <1>0, <1>5, <3>1 DEF KeysOK, Whole
    <3> QED BY <1>5, <3>1, <3>2, <3>3 DEF Unseals, WellSealed
  <2>2. CASE ~Start
    BY <1>0, <1>5, <2>2, Kept DEF KeysWhole
  <2> QED BY <2>1, <2>2
<1> QED BY <1>2, <1>3, <1>4, <1>5 DEF KeysWhole, RootOfOld

LEMMA WholeStep == ASSUME KeysOK, [Next]_vars PROVE Whole(stored')
<1>0. /\ TypeOK /\ FormsOK /\ KeysWhole /\ Whole(stored) /\ SentWhole
      /\ KeyId \cap NoteId = {} /\ NoteId \subseteq ItemId
  BY VaultAssumption DEF KeysOK, ItemId
<1>k. \A k \in KeyId : stored[k].present => stored'[k].present
  BY <1>0, KeysStay
<1>1. ASSUME NEW i \in ItemId, NEW e, stored' = [stored EXCEPT ![i] = e],
             WellSealed(e, i), i \in NoteId => NamesItemsKey(e)
      PROVE  Whole(stored')
  <2>1. stored'[i] = e /\ \A j \in ItemId : j # i => stored'[j] = stored[j]
    BY <1>0, <1>1, KeyNumbers
  <2>2. \A j \in ItemId : stored'[j].present => WellSealed(stored'[j], j)
    BY <1>0, <1>1, <2>1 DEF Whole
  <2>3. ASSUME NEW j \in NoteId, stored'[j].present, stored'[j].wrapped.version \notin Old
        PROVE  stored'[j].keyId \in KeyId /\ stored'[stored'[j].keyId].present
    BY <1>0, <1>k, <1>1, <2>1, <2>3 DEF Whole, NamesItemsKey
  <2> QED BY <2>2, <2>3 DEF Whole
<1>2. ASSUME NEW i \in ItemId, Create(i) \/ Reencrypt(i)
      PROVE  Whole(stored')
  <2>1. PICK e : /\ stored' = [stored EXCEPT ![i] = e]
                 /\ e.present /\ Formed(e, i) /\ CanWrap(i, e.keyId)
                 /\ e.wrapped.version = account.version
                 /\ e.wrapped.enc = WrappingKey(i, e.keyId)
                 /\ e.wrapped.uuid = i
                 /\ e.wrapped.version \in Old => e.wrapped.mac = account.root
                 /\ Unseals(e.content, i, ContentKeyChain(e.wrapped.version, e.wrapped.inner))
    BY <1>0, <1>2, OthersForm
  <2>2. WellSealed(e, i)
    <3>1. e.wrapped.version \in Old => e.wrapped.enc = account.root
      BY <2>1 DEF WrappingKey
    <3>2. e.wrapped.enc.bytes = 32
      BY <1>0, <2>1 DEF WrappingKey, CanWrap, KeysWhole
    <3> QED BY <2>1, <3>1, <3>2 DEF WellSealed, Formed, Fits
  <2>3. i \in NoteId => NamesItemsKey(e)
    BY <1>0, <2>1 DEF CanWrap, NamesItemsKey
  <2> QED BY <1>1, <2>1, <2>2, <2>3
<1>3. CASE Commit
  <2>1. PICK i \in NoteId : i = request.note /\ stored' = [stored EXCEPT ![i] = request.item]
    BY <1>0, <1>3, CommitForm
  <2>2. WellSealed(request.item, i) /\ NamesItemsKey(request.item)
    BY <1>0, <2>1 DEF SentWhole
  <2> QED BY <1>0, <1>1, <2>1, <2>2
<1>4. CASE UNCHANGED stored
  BY <1>0, <1>4
<1>5. \A i \in NoteId : Save(i) \/ SealFails(i) => UNCHANGED stored
  BY DEF Save, SealFails
<1>6. Start => UNCHANGED stored
  BY DEF Start
<1> QED BY <1>0, <1>2, <1>3, <1>4, <1>5, <1>6, QuietSteps

LEMMA KeysAlways == Spec => []KeysOK
<1>1. Init => /\ FormsOK /\ Followed /\ KeysApart /\ KeysFit /\ KeysLoaded
              /\ KeysWhole /\ Whole(stored) /\ SentWhole
  <2> SUFFICES ASSUME Init
               PROVE  /\ KeysApart /\ KeysFit /\ KeysLoaded
                      /\ KeysWhole /\ Whole(stored) /\ SentWhole
    BY FollowedFirst
  <2>1. /\ editor.at = "closed" /\ drawn = 1
        /\ account.root.id = 1 /\ account.root.bytes = 32
    BY DEF Init
  <2>2. chain.master.id = 0 /\ RootOfOld(chain)
    BY DEF Init, NoChain, NoKey, RootOfOld, Old
  <2>3. \A i \in NoteId : request.note # i
    BY NothingFirst, VaultAssumption DEF NoRequest
  <2> QED BY <2>1, <2>2, <2>3, NothingFirst
          DEF KeysApart, KeysFit, KeysLoaded, KeysWhole, Whole, SentWhole, ItemId
<1>2. KeysOK /\ [Next]_vars =>
        /\ FormsOK' /\ Followed' /\ KeysApart' /\ KeysFit' /\ KeysLoaded'
        /\ KeysWhole' /\ Whole(stored)' /\ SentWhole'
  <2> SUFFICES ASSUME KeysOK, [Next]_vars
               PROVE  /\ FormsOK' /\ Followed' /\ KeysApart' /\ KeysFit' /\ KeysLoaded'
                      /\ KeysWhole' /\ Whole(stored)' /\ SentWhole'
    OBVIOUS
  <2>1. FormsOK' /\ Followed'
    BY FormsStep, FollowedStep DEF KeysOK
  <2> QED BY <2>1, KeysApartStep, KeysFitStep, KeysLoadedStep, KeysWholeStep, WholeStep,
             SentWholeStep
<1> QED BY <1>1, <1>2, TypeCorrect, PTL DEF Spec, KeysOK

\* The key Seal draws suits every cipher.
LEMMA NewKeyFits ==
  ASSUME NEW version \in Version, version \notin Old => editor.chain.version = "004"
  PROVE  Fits(version, ContentKeyChain(version, NewKey).master)
<1>1. NewKey.bytes = IF editor.chain.version = "004" THEN 32 ELSE 64
  BY DEF NewKey, GenerateItemEncryptionKey
<1>2. CASE version \in Old
  <2>1. ContentKeyChain(version, NewKey).master = Half(NewKey)
    BY <1>2 DEF ContentKeyChain
  <2>2. Half(NewKey).bytes \in {16, 32}
    <3>1. NewKey = [id |-> drawn + 1, bytes |-> NewKey.bytes]
      BY DEF NewKey, GenerateItemEncryptionKey
    <3> QED BY <1>1, <3>1 DEF Half
  <2> QED BY <1>2, <2>1, <2>2 DEF Fits
<1>3. CASE version \notin Old
  <2>1. ContentKeyChain(version, NewKey).master = NewKey
    BY <1>3 DEF ContentKeyChain
  <2> QED BY <1>1, <1>3, <2>1 DEF Fits
<1> QED BY <1>2, <1>3

\* For any number of keys and notes, the editor can seal every note it opened:
\* that it draws keys by the version of its key chain never makes a cipher
\* refuse one.
THEOREM SealsWhatItHasOpened == Spec => []SealsWhatItOpens
<1>1. KeysOK => SealsWhatItOpens
  <2> SUFFICES ASSUME TypeOK, KeysFit, editor.at = "open",
                      NEW i \in NoteId, local[i].item.present
               PROVE  CanSeal(local[i].item, i, editor.chain, itemsKey, NewKey)
    BY DEF SealsWhatItOpens, KeysOK
  <2>1. local[i].item.wrapped.version \in Version
    BY DEF TypeOK, ItemId, Copy, Item, Secret, Version
  <2>2. Fits(local[i].item.wrapped.version,
             ContentKeyChain(local[i].item.wrapped.version, NewKey).master)
    BY <2>1, NewKeyFits DEF KeysFit
  <2> QED BY <2>2 DEF KeysFit, CanSeal, Wrapping
<1> QED BY <1>1, KeysAlways, PTL

-----------------------------------------------------------------------------
(* What is encrypted for a key chain opens with it.                        *)

LEMMA OpensWithRoot ==
  ASSUME NEW items, NEW c, NEW keys, NEW i \in ItemId,
         Whole(items), RootOfOld(c), EncryptedFor(items, c), items[i].present,
         c.version \in Old \/ i \in KeyId
  PROVE  Opens(items[i], i, c, keys)
<1>1. KeyKeyChain(c, keys, i, items[i]) = c
  BY DEF KeyKeyChain, Old
<1>2. items[i].wrapped.version = c.version /\ items[i].wrapped.enc = c.master
  BY DEF EncryptedFor
<1>3. WellSealed(items[i], i)
  BY DEF Whole
<1>4. Unseals(items[i].wrapped, i, c)
  BY <1>2, <1>3 DEF WellSealed, Unseals, RootOfOld
<1> QED BY <1>1, <1>3, <1>4 DEF Opens, WellSealed

LEMMA AllOpenWhole ==
  ASSUME NEW items, NEW c, c.version \in Version,
         Whole(items), RootOfOld(c), EncryptedFor(items, c)
  PROVE  AllOpen(items, c)
<1> SUFFICES ASSUME NEW i \in ItemId, items[i].present
             PROVE  Opens(items[i], i, c, LoadedKeys(items, c))
  BY DEF AllOpen
<1>1. CASE c.version \in Old \/ i \in KeyId
  BY <1>1, OpensWithRoot
<1>2. CASE c.version \notin Old /\ i \notin KeyId
  <2> DEFINE k == items[i].keyId
             kk == KeyKeyChain(c, LoadedKeys(items, c), i, items[i])
  <2>1. /\ items[i].wrapped.version = c.version
        /\ items[i].wrapped.enc = items[k].content.inner
    BY <1>2 DEF EncryptedFor
  <2>2. k \in KeyId /\ items[k].present
    BY <1>2, <2>1 DEF Whole, ItemId
  <2>3. Opens(items[k], k, c, NoKeys)
    BY <2>2, OpensWithRoot DEF ItemId
  <2>4. LoadedKeys(items, c)[k] = items[k].content.inner
    BY <2>2, <2>3 DEF LoadedKeys
  <2>5. WellSealed(items[i], i)
    BY DEF Whole
  <2>6. CASE c.version = "004"
    <3>1. kk.master = items[i].wrapped.enc
      BY <1>2, <2>1, <2>4, <2>6 DEF KeyKeyChain
    <3>2. Unseals(items[i].wrapped, i, kk)
      BY <1>2, <2>1, <2>5, <3>1 DEF Unseals, WellSealed
    <3> QED BY <2>5, <3>2 DEF Opens, WellSealed
  <2>7. CASE c.version # "004"
    <3>1. FALSE
      BY <1>2, <2>1, <2>5, <2>7 DEF WellSealed, Version
    <3> QED BY <3>1
  <2> QED BY <2>6, <2>7
<1> QED BY <1>1, <1>2

LEMMA StartsStep ==
  ASSUME KeysOK, StartsWhenCurrent, [Next]_vars
  PROVE  StartsWhenCurrent'
<1>1. CASE Start
  <2> SUFFICES ASSUME editor'.at = "aborted",
                      EncryptedFor([i \in ItemId |-> local'[i].item], chain)
               PROVE  FALSE
    BY <1>1 DEF StartsWhenCurrent, Start
  <2>1. /\ \A i \in ItemId : local'[i].item = stored[i]
        /\ editor'.at = IF AllOpen(stored, chain) THEN "open" ELSE "aborted"
    BY <1>1 DEF Start
  <2>2. [i \in ItemId |-> local'[i].item] = stored
    BY <2>1 DEF KeysOK, TypeOK
  <2>3. chain.version \in Version
    BY DEF KeysOK, TypeOK, Chain, Version
  <2>4. AllOpen(stored, chain)
    BY <2>2, <2>3, AllOpenWhole DEF KeysOK, KeysWhole
  <2> QED BY <2>1, <2>4
<1>2. ASSUME editor'.at = "aborted" => UNCHANGED <<local, editor>>
      PROVE  StartsWhenCurrent'
  BY <1>2 DEF StartsWhenCurrent
<1>3. ASSUME Quit \/ \E i \in NoteId : Save(i) \/ Conflict(i) \/ SealFails(i)
      PROVE  editor'.at # "aborted"
  <2>1. editor \in [at : {"closed", "open", "aborted"}, chain : Chain]
    BY Zenon DEF KeysOK, TypeOK
  <2>2. \/ editor' = [editor EXCEPT !.at = "closed"]
        \/ editor.at = "open" /\ editor' = editor
    BY <1>3 DEF Quit, Save, Conflict, SealFails, Editing
  <2> QED BY <2>1, <2>2
<1>4. Others \/ Login \/ Backup \/ Unseal \/ Drop \/ UNCHANGED vars =>
        UNCHANGED <<local, editor>>
  BY DEF Others, Create, Reencrypt, ChangePassword, Login, Backup, Unseal, Drop, vars
<1>5. CASE Commit
  <2>1. editor' = editor /\ \A i \in ItemId : local'[i].item = local[i].item
    BY <1>5, CommitForm DEF KeysOK
  <2>2. [i \in ItemId |-> local'[i].item] = [i \in ItemId |-> local[i].item]
    BY <2>1
  <2> QED BY <2>1, <2>2 DEF StartsWhenCurrent
<1>6. StartsWhenCurrent' \/ editor'.at = "aborted"
  BY DEF StartsWhenCurrent
<1> QED BY <1>1, <1>2, <1>3, <1>4, <1>5, <1>6 DEF Next, Command

\* For any number of keys and notes, the editor starts unless an item is
\* encrypted for other keys than those of its login.
THEOREM StartsUnlessOutdated == Spec => []StartsWhenCurrent
<1>1. Init => StartsWhenCurrent
  BY DEF Init, StartsWhenCurrent
<1> QED BY <1>1, StartsStep, KeysAlways, PTL DEF Spec

\* The items of the last backup.
FileOK == Whole(file) /\ OldBackupReadable

LEMMA BackupStep == ASSUME KeysOK, FileOK, [Next]_vars PROVE FileOK'
<1>1. CASE Backup
  BY <1>1 DEF Backup, FileOK, OldBackupReadable, BackupReadable, KeysOK
<1>2. CASE Login
  <2>1. UNCHANGED file /\ recovered' = "none"
    BY <1>2 DEF Login
  <2> QED BY <2>1 DEF FileOK, OldBackupReadable, BackupReadable
<1>3. CASE Unseal
  <2>1. /\ UNCHANGED <<file, chain>>
        /\ recovered' = IF NotesOpen(file, chain) THEN "all" ELSE "none of them"
    BY <1>3 DEF Unseal
  <2>2. ASSUME chain.version \in Old, EncryptedFor(file, chain)
        PROVE  NotesOpen(file, chain)
    BY <2>2, OpensWithRoot DEF NotesOpen, FileOK, KeysOK, KeysWhole, ItemId
  <2> QED BY <2>1, <2>2 DEF FileOK, OldBackupReadable, BackupReadable
<1>4. CASE UNCHANGED <<file, chain, recovered>>
  BY <1>4 DEF FileOK, OldBackupReadable, BackupReadable
<1>5. Others \/ Start \/ Quit \/ Commit \/ Drop \/ UNCHANGED vars =>
        UNCHANGED <<file, chain, recovered>>
  BY DEF Others, Create, Reencrypt, ChangePassword, Start, Quit, Commit, Drop, vars
<1>6. \A i \in NoteId : Save(i) \/ Conflict(i) \/ SealFails(i) =>
        UNCHANGED <<file, chain, recovered>>
  BY DEF Save, Conflict, SealFails
<1> QED BY <1>1, <1>2, <1>3, <1>4, <1>5, <1>6 DEF Next, Command

\* For any number of notes, an account of before 004 recovers every backup of
\* items that were encrypted for the key chain of its login.
THEOREM OldBackupsRecovered == Spec => []OldBackupReadable
<1>1. Init => FileOK
  <2>1. ~NoItem.present
    BY DEF NoItem
  <2> QED BY <2>1 DEF Init, FileOK, Whole, OldBackupReadable, BackupReadable, ItemId
<1>2. FileOK => OldBackupReadable
  BY DEF FileOK
<1> QED BY <1>1, <1>2, BackupStep, KeysAlways, PTL DEF Spec

=============================================================================

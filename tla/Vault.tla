------------------------------- MODULE Vault -------------------------------
(***************************************************************************)
(* Seal and Unseal of libsf, and the commands of sfc that call them: the   *)
(* note editor from the loading of its notes on, backup and unseal.  They  *)
(* work on one account whose other clients create items, change the        *)
(* password or the protocol version, and encrypt again item by item what   *)
(* is stored.                                                              *)
(*                                                                         *)
(* A secret is what it takes to open it and what is inside.  Keys and      *)
(* texts are numbers drawn in turn; a key also has a length, which its     *)
(* cipher checks.  The two halves of a key of 003 are not told apart:      *)
(* they always go together.                                                *)
(*                                                                         *)
(* The server compares a note the editor sends with the one it has, and    *)
(* saves it in a transaction of its own; other requests come in between.   *)
(* Those of the other clients are one step each.                           *)
(***************************************************************************)
EXTENDS Integers, FiniteSets

CONSTANTS
  KeyId,       \* UUIDs of SN|ItemsKey items
  NoteId,      \* UUIDs of notes
  NoId,        \* the items_key_id of a note of 003
  Protocol,    \* protocol versions of the account
  Cost,        \* pw_cost an account of 003 may have
  MaxDrawn     \* bound of a run: nothing is encrypted from there on

Old == {"002", "003"}

ASSUME VaultAssumption ==
  /\ KeyId \cap NoteId = {} /\ NoId \notin KeyId \cup NoteId
  /\ Protocol \subseteq Old \cup {"004"} /\ Protocol # {}
  /\ Cost \subseteq Nat /\ Cost # {} /\ MaxDrawn \in Nat

VARIABLES
  account,    \* the protocol version, the root key and the pw_cost of the account
  stored,     \* stored[i]: the item i of the server
  written,    \* written[i]: the text last saved in note i
  drawn,      \* how many keys and texts were drawn
  chain,      \* the key chain in the credentials file of sfc
  editor,     \* what the note editor is at
  itemsKey,   \* its KeyChain.ItemsKey
  local,      \* local[i]: its copy of item i
  near,       \* near[i]: that copy, another version than the one of the server,
              \*   was saved less than a millisecond before it
  request,    \* the note on its way to the server
  file,       \* the items of the last backup
  recovered   \* what sfc unseal made of it

vars == <<account, stored, written, drawn, chain, editor, itemsKey, local,
          near, request, file, recovered>>

ItemId == KeyId \cup NoteId

Key == [id : Nat, bytes : {0, 16, 32, 64}]
NoKey == [id |-> 0, bytes |-> 0]

\* A text, inside a secret.
Text(n) == [id |-> n, bytes |-> 0]

Chain == [version : Old \cup {"004", "none"}, master : Key, auth : Key]
NoChain == [version |-> "none", master |-> NoKey, auth |-> NoKey]

\* A vault: the keys that open it, its key params (the root key of the account
\* they describe, 0 if left out), whether it has the part 004 adds, its payload.
Secret == [version : Old \cup {"004", "none"}, uuid : ItemId \cup {NoId},
           enc : Key, mac : Key, params : Nat, extra : BOOLEAN, inner : Key]
NoSecret == [version |-> "none", uuid |-> NoId, enc |-> NoKey, mac |-> NoKey,
             params |-> 0, extra |-> FALSE, inner |-> NoKey]

\* An item, enc_item_key being its wrapped key.
Item == [present : BOOLEAN, keyId : KeyId \cup {NoId},
         wrapped : Secret, content : Secret]
NoItem == [present |-> FALSE, keyId |-> NoId, wrapped |-> NoSecret, content |-> NoSecret]

\* A copy of the editor: base tells the version of the server it comes from.
Copy == [item : Item, base : Nat]
NoCopy == [item |-> NoItem, base |-> 0]

\* A request of the editor the server has compared: the version it found then,
\* whether the copy was only near to it, whether the editor still waits.
Request == [note : NoteId \cup {NoId}, item : Item, seen : Nat,
            near : BOOLEAN, awaited : BOOLEAN]
NoRequest == [note |-> NoId, item |-> NoItem, seen |-> 0, near |-> FALSE, awaited |-> FALSE]

-----------------------------------------------------------------------------
(* Keys and key chains.                                                    *)

\* SymmetricKeyPair.
RootChain(version, root) ==
  [version |-> version, master |-> root, auth |-> IF version \in Old THEN root ELSE NoKey]

\* IntegrityCheck, before any key is derived.
MinCost(version) ==
  IF version = "003" THEN 110000 ELSE IF version = "002" THEN 3000 ELSE 0

\* Variants a mistake in the code would give, for showing that the properties
\* below depend on it; no specification uses them.
KeyOf3(version, n) == [id |-> n, bytes |-> 64]

KeyOfHexLength(version, n) == [id |-> n, bytes |-> IF version = "004" THEN 64 ELSE 128]

ContentKeyChainWhole(version, k) ==
  [version |-> version, master |-> k, auth |-> IF version \in Old THEN k ELSE NoKey]

GenerateItemEncryptionKey(version, n) ==
  [id |-> n, bytes |-> IF version = "004" THEN 32 ELSE 64]

\* The key the protocol asks of the other clients.
ItemKey(version, n) == [id |-> n, bytes |-> IF version \in Old THEN 64 ELSE 32]

Half(k) == [k EXCEPT !.bytes = IF @ = 64 THEN 32 ELSE IF @ = 32 THEN 16 ELSE 0]

\* keyKeyChain: in 004 an items key opens all but the items keys.
KeyKeyChain(c, keys, i, item) ==
  IF c.version = "004" /\ i \notin KeyId
  THEN [version |-> "004", master |-> keys[item.keyId], auth |-> NoKey]
  ELSE c

\* contentKeyChain: before 004 the key is split in two.
ContentKeyChain(version, k) ==
  IF version \in Old THEN [version |-> version, master |-> Half(k), auth |-> Half(k)]
  ELSE [version |-> version, master |-> k, auth |-> NoKey]

\* The length aes.NewCipher, or chacha20poly1305.NewX, takes.
Fits(version, k) == IF version \in Old THEN k.bytes \in {16, 32} ELSE k.bytes = 32

-----------------------------------------------------------------------------
(* Vaults.                                                                 *)

\* create, setup and seal: the key params of a vault of 004 are written only
\* for items keys, and what follows them is that of the vault it replaces.
Sealed(version, i, c, payload, params, extra) ==
  [version |-> version, uuid |-> i, enc |-> c.master,
   mac |-> IF version \in Old THEN c.auth ELSE NoKey,
   params |-> IF version \in Old \/ i \in KeyId THEN params ELSE 0,
   extra |-> version = "004" /\ extra, inner |-> payload]

\* parse and unseal: in 004 the UUID is not compared.
Unseals(s, i, c) ==
  /\ s.version # "none"
  /\ s.version \in Old => s.uuid = i /\ s.mac = c.auth
  /\ s.enc = c.master /\ Fits(s.version, c.master)

\* Unseal of an item.
Opens(item, i, c, keys) ==
  /\ Unseals(item.wrapped, i, KeyKeyChain(c, keys, i, item))
  /\ Unseals(item.content, i, ContentKeyChain(item.wrapped.version, item.wrapped.inner))

NoKeys == [k \in KeyId \cup {NoId} |-> NoKey]

\* More variants: nothing of what follows the key params, the key of before,
\* no comparison, one items key only.
WithKeyBare(item, i, c, keys, ik) ==
  LET w == item.wrapped
  IN [item EXCEPT !.wrapped =
        Sealed(w.version, i, KeyKeyChain(c, keys, i, item), ik, w.params, FALSE)]

ContentUnderOldKey(item, i, ik, text) ==
  LET old == item.content
      c == [version |-> old.version, master |-> old.enc, auth |-> old.mac]
  IN [item EXCEPT !.content = Sealed(old.version, i, c, text, old.params, old.extra)]

UpToDateAlways(i) == TRUE

LoadedKeysOfFirst(items, c) ==
  [k \in KeyId \cup {NoId} |->
     IF /\ k \in KeyId /\ items[k].present /\ Opens(items[k], k, c, NoKeys)
        /\ \A o \in KeyId \ {k} : ~items[o].present
     THEN items[k].content.inner ELSE NoKey]

\* The two parts of Seal.  Version and key params are those the item was
\* unsealed with, and so is what follows them.
WithKey(item, i, c, keys, ik) ==
  LET w == item.wrapped
  IN [item EXCEPT !.wrapped =
        Sealed(w.version, i, KeyKeyChain(c, keys, i, item), ik, w.params, w.extra)]

WithContent(item, i, ik, text) ==
  LET w == item.wrapped
  IN [item EXCEPT !.content =
        Sealed(w.version, i, ContentKeyChain(w.version, ik), text, w.params, item.content.extra)]

Seal(item, i, c, keys, ik, text) == WithContent(WithKey(item, i, c, keys, ik), i, ik, text)

\* Whether every cipher takes its key.
CanSeal(item, i, c, keys, ik) ==
  LET version == item.wrapped.version
  IN /\ Fits(version, KeyKeyChain(c, keys, i, item).master)
     /\ Fits(version, ContentKeyChain(version, ik).master)

Revision(item) == item.wrapped.inner.id

\* The copy was made of the version of the server, or of one that was saved
\* less than a millisecond before (save of the sync).
UpToDate(i) == Revision(stored[i]) = local[i].base \/ near[i]

\* What becomes of near when another version of i is saved: nothing, or any if
\* the copy was made of the version it replaces, or of one near to that.
NearAfter(i) ==
  IF i \in NoteId /\ UpToDate(i) THEN {[near EXCEPT ![i] = b] : b \in BOOLEAN} ELSE {near}

\* The keys the loop over the SN|ItemsKey items appends to the key chain.
LoadedKeys(items, c) ==
  [k \in KeyId \cup {NoId} |->
     IF k \in KeyId /\ items[k].present /\ Opens(items[k], k, c, NoKeys)
     THEN items[k].content.inner ELSE NoKey]

\* Whether every Unseal of the editor succeeds, items keys first.
AllOpen(items, c) ==
  \A i \in ItemId : items[i].present => Opens(items[i], i, c, LoadedKeys(items, c))

\* What sfc unseal tries: notes only, with the key chain of the file.
NotesOpen(items, c) ==
  \A i \in NoteId : items[i].present => Opens(items[i], i, c, NoKeys)

-----------------------------------------------------------------------------

Init ==
  /\ \E version \in Protocol, cost \in Cost :
       account = [version |-> version, root |-> [id |-> 1, bytes |-> 32], cost |-> cost]
  /\ stored = [i \in ItemId |-> NoItem]
  /\ written = [i \in NoteId |-> 0]
  /\ drawn = 1
  /\ chain = NoChain
  /\ editor = [at |-> "closed", chain |-> NoChain]
  /\ itemsKey = NoKeys
  /\ local = [i \in ItemId |-> NoCopy]
  /\ near = [i \in NoteId |-> FALSE] /\ request = NoRequest
  /\ file = [i \in ItemId |-> NoItem]
  /\ recovered = "none"

server == <<account, stored, written>>
sfc == <<chain, editor, itemsKey, local, request, file, recovered>>

-----------------------------------------------------------------------------
(* The other clients.                                                      *)

\* What an item of the account is wrapped with now.
WrappingKey(i, keyId) ==
  IF account.version \in Old \/ i \in KeyId THEN account.root
  ELSE stored[keyId].content.inner

CanWrap(i, keyId) ==
  IF account.version \in Old \/ i \in KeyId THEN keyId = NoId
  ELSE keyId \in KeyId /\ stored[keyId].present

\* An item as they encrypt it.
Encrypted(i, keyId, ik, payload, extra) ==
  LET version == account.version
      c == [RootChain(version, account.root) EXCEPT !.master = WrappingKey(i, keyId)]
      params == account.root.id
  IN [present |-> TRUE, keyId |-> keyId,
      wrapped |-> Sealed(version, i, c, ik, params, extra),
      content |-> Sealed(version, i, ContentKeyChain(version, ik), payload, params, extra)]

\* An items key or a note is created.
Create(i) ==
  /\ ~stored[i].present /\ drawn < MaxDrawn
  /\ i \in KeyId => account.version = "004"
  /\ \E keyId \in KeyId \cup {NoId}, extra \in BOOLEAN :
       /\ CanWrap(i, keyId)
       /\ stored' = [stored EXCEPT ![i] =
            Encrypted(i, keyId, ItemKey(account.version, drawn + 1),
                      IF i \in KeyId THEN [id |-> drawn + 2, bytes |-> 32]
                                     ELSE Text(drawn + 2), extra)]
  /\ written' = IF i \in NoteId THEN [written EXCEPT ![i] = drawn + 2] ELSE written
  /\ drawn' = drawn + 2
  /\ UNCHANGED <<account, near, sfc>>

\* The password is changed, or the protocol version with it ...
ChangePassword(version) ==
  /\ drawn < MaxDrawn
  /\ account.version = "004" => version = "004"
  /\ account' = [account EXCEPT !.version = version,
                                !.root = [id |-> drawn + 1, bytes |-> 32]]
  /\ drawn' = drawn + 1
  /\ UNCHANGED <<stored, written, near, sfc>>

\* Whether item i is encrypted as the account has it now.
Current(i) ==
  LET w == stored[i].wrapped
  IN /\ w.version = account.version
     /\ CanWrap(i, stored[i].keyId) /\ w.enc = WrappingKey(i, stored[i].keyId)

\* ... and the items are encrypted again one after the other.
Reencrypt(i) ==
  /\ stored[i].present /\ ~Current(i) /\ drawn < MaxDrawn
  /\ \E keyId \in KeyId \cup {NoId}, extra \in BOOLEAN :
       /\ CanWrap(i, keyId)
       /\ stored' = [stored EXCEPT ![i] =
            Encrypted(i, keyId, ItemKey(account.version, drawn + 1),
                      stored[i].content.inner, extra)]
  /\ near' \in NearAfter(i)
  /\ drawn' = drawn + 1
  /\ UNCHANGED <<account, written, sfc>>

Others ==
  \/ \E i \in ItemId : Create(i) \/ Reencrypt(i)
  \/ \E version \in Protocol : ChangePassword(version)

-----------------------------------------------------------------------------
(* sfc.                                                                    *)

\* Login of sfc derives the keys of the account and saves them.
Login ==
  /\ account.cost >= MinCost(account.version)
  /\ chain' = RootChain(account.version, account.root)
  /\ recovered' = "none"
  /\ UNCHANGED <<server, drawn, editor, itemsKey, local, near, request, file>>

\* Note() up to the list of notes: all items are fetched and unsealed; the
\* first that does not open ends it.
Start ==
  /\ editor.at # "open" /\ chain # NoChain
  /\ local' = [i \in ItemId |-> [item |-> stored[i], base |-> Revision(stored[i])]]
  /\ near' = [i \in NoteId |-> FALSE]
  /\ itemsKey' = LoadedKeys(stored, chain)
  /\ editor' = [at |-> IF AllOpen(stored, chain) THEN "open" ELSE "aborted", chain |-> chain]
  /\ UNCHANGED <<server, drawn, chain, request, file, recovered>>

\* The key Seal draws.
NewKey == GenerateItemEncryptionKey(editor.chain.version, drawn + 1)

\* The synchronizer has one request at a time.
Editing(i) ==
  /\ editor.at = "open" /\ request = NoRequest
  /\ local[i].item.present /\ drawn < MaxDrawn

\* It seals note i in place under a new key and sends it, and the server finds
\* it made of the version it has.
Save(i) ==
  LET sealed == Seal(local[i].item, i, editor.chain, itemsKey, NewKey, Text(drawn + 2))
  IN /\ Editing(i)
     /\ CanSeal(local[i].item, i, editor.chain, itemsKey, NewKey)
     /\ UpToDate(i)
     /\ request' = [note |-> i, item |-> sealed, seen |-> Revision(stored[i]),
                    near |-> near[i], awaited |-> TRUE]
     /\ local' = [local EXCEPT ![i].item = sealed]
     /\ drawn' = drawn + 2
     /\ UNCHANGED <<server, chain, editor, itemsKey, near, file, recovered>>

\* The server saves it, whatever it has by now, and the editor gets the answer
\* unless that is lost.
Commit ==
  LET i == request.note
  IN /\ request # NoRequest
     /\ stored' = [stored EXCEPT ![i] = request.item]
     /\ written' = [written EXCEPT ![i] = request.item.content.inner.id]
     /\ \/ /\ request.awaited
           /\ local' = [local EXCEPT ![i].base = Revision(request.item)]
           /\ near' = [near EXCEPT ![i] = FALSE]
        \/ local' = local /\ near' \in NearAfter(i)
     /\ request' = NoRequest
     /\ UNCHANGED <<account, drawn, chain, editor, itemsKey, file, recovered>>

\* It cannot save it, or the request is lost.
Drop ==
  /\ request # NoRequest /\ request' = NoRequest
  /\ UNCHANGED <<server, drawn, chain, editor, itemsKey, local, near, file, recovered>>

\* The server has another version by now: the editor panics.
Conflict(i) ==
  /\ Editing(i)
  /\ CanSeal(local[i].item, i, editor.chain, itemsKey, NewKey)
  /\ ~UpToDate(i)
  /\ editor' = [editor EXCEPT !.at = "closed"]
  /\ UNCHANGED <<server, drawn, chain, itemsKey, local, near, request, file, recovered>>

\* Seal fails, or a cipher refuses its key: before the key is sealed, or after,
\* which leaves the copy with a new key around the old content.
SealFails(i) ==
  LET item == local[i].item
  IN /\ Editing(i)
     /\ \/ local' = local
        \/ /\ Fits(item.wrapped.version, KeyKeyChain(editor.chain, itemsKey, i, item).master)
           /\ local' = [local EXCEPT ![i].item = WithKey(item, i, editor.chain, itemsKey, NewKey)]
     /\ drawn' = drawn + 1
     /\ UNCHANGED <<server, chain, editor, itemsKey, near, request, file, recovered>>

\* The editor ends; what it sent stays with the server.
Quit ==
  /\ editor.at # "closed"
  /\ editor' = [editor EXCEPT !.at = "closed"]
  /\ request' = [request EXCEPT !.awaited = FALSE]
  /\ UNCHANGED <<server, drawn, chain, itemsKey, local, near, file, recovered>>

\* sfc backup writes all items to a file ...
Backup ==
  /\ chain # NoChain
  /\ file' = stored /\ recovered' = "none"
  /\ UNCHANGED <<server, drawn, chain, editor, itemsKey, local, near, request>>

\* ... and sfc unseal decrypts the notes in it, all or none.
Unseal ==
  /\ chain # NoChain /\ \E i \in NoteId : file[i].present
  /\ recovered' = IF NotesOpen(file, chain) THEN "all" ELSE "none of them"
  /\ UNCHANGED <<server, drawn, chain, editor, itemsKey, local, near, request, file>>

Command ==
  \/ Login \/ Start \/ Quit \/ Backup \/ Unseal \/ Commit \/ Drop
  \/ \E i \in NoteId : Save(i) \/ Conflict(i) \/ SealFails(i)

Next == Others \/ Command

Spec == Init /\ [][Next]_vars

-----------------------------------------------------------------------------
(* Properties.                                                             *)

\* Every variable keeps the shape its comment gives it.
TypeOK ==
  /\ account \in [version : Protocol, root : Key, cost : Cost]
  /\ stored \in [ItemId -> Item] /\ file \in [ItemId -> Item]
  /\ written \in [NoteId -> Nat] /\ drawn \in Nat
  /\ chain \in Chain
  /\ editor \in [at : {"closed", "open", "aborted"}, chain : Chain]
  /\ itemsKey \in [KeyId \cup {NoId} -> Key]
  /\ local \in [ItemId -> Copy]
  /\ near \in [NoteId -> BOOLEAN] /\ request \in Request
  /\ recovered \in {"none", "all", "none of them"}

\* Whoever has the key a note is wrapped with reads the text last saved in it,
\* whatever failed while it was sealed: a new key never goes out around
\* content sealed with another (item.go:118 and :143).
Readable ==
  \A i \in NoteId : stored[i].present =>
    LET n == stored[i]
    IN /\ n.content.inner = Text(written[i])
       /\ Unseals(n.content, i, ContentKeyChain(n.wrapped.version, n.wrapped.inner))

\* The note on its way goes over another version than the one its copy was made
\* of, for one of two reasons: that version was saved after the comparison
\* (sync_20190520.go:109 and :156), or less than a millisecond after the copy
\* (:137).
Crossed(i) == request.note = i /\ (request.near \/ request.seen # Revision(stored[i]))

\* A note encrypted for the password, the protocol and the items keys of now is
\* never replaced by one that is not: an editor that still runs with the keys
\* of before does not drag notes back, but by a save that crossed that of
\* another client (keychain.go:19).
SchemeStays ==
  [][\A i \in ItemId :
       stored[i].present /\ Current(i) /\ account' = account /\ ~Crossed(i)
         => Current(i)']_vars

\* What the editor has opened it can seal: the key it generates by the version
\* of its key chain suits the cipher of the version of the item (item.go:103).
SealsWhatItOpens ==
  editor.at = "open" =>
    \A i \in NoteId : local[i].item.present =>
      CanSeal(local[i].item, i, editor.chain, itemsKey, NewKey)

\* Sealing changes neither the protocol version of a note, nor the key params
\* of 003, nor the part 004 adds to a secret (vault4.go:142), but by a save that
\* crossed that of another client.
FormatKept ==
  [][\A i \in NoteId :
       Commit /\ request.note = i /\ ~Crossed(i) =>
         /\ \A field \in {"version", "params", "extra"} :
              /\ stored'[i].wrapped[field] = stored[i].wrapped[field]
              /\ stored'[i].content[field] = stored[i].content[field]
         /\ stored'[i].keyId = stored[i].keyId]_vars

\* All items are encrypted for the key chain c.
EncryptedFor(items, c) ==
  /\ \A i \in ItemId : items[i].present => items[i].wrapped.version = c.version
  /\ \A i \in ItemId : items[i].present =>
       items[i].wrapped.enc = IF c.version \in Old \/ i \in KeyId THEN c.master
                              ELSE items[items[i].keyId].content.inner

\* The editor starts unless an item was encrypted for other keys than those of
\* its login: in particular the items keys are there when notes need them.
StartsWhenCurrent ==
  editor.at = "aborted" => ~EncryptedFor([i \in ItemId |-> local[i].item], editor.chain)

\* sfc unseal decrypts a backup of items encrypted for its key chain.
BackupReadable == recovered = "none of them" => ~EncryptedFor(file, chain)

\* It does before 004.
OldBackupReadable == chain.version \in Old => BackupReadable

=============================================================================

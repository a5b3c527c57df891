# A verification project for standardfile

standardfile is a self-hosted synchronization server for Standard Notes, with a
client library (`pkg/libsf`) and a command line client (`sfc`).  This directory
holds TLA+ models of its core, the TLC configurations that check them on small
instances, and theorems about them that TLAPS proves for every instance.

- [The system](#the-system): its parts, state, operations and what is hard
- [The modules](#the-modules): what each one models and how it matches the code
- [The runs](#the-runs): what TLC checks, with which bounds and why
- [The proofs](#the-proofs)
- [What the checks found](#what-the-checks-found)
- [Abstractions](#abstractions)
- [Not modelled](#not-modelled)

## The system

The server is one process: an Echo HTTP server that runs every request in a
goroutine of its own, over a bolt database accessed through storm.  There is no
lock above the database: a handler makes several database calls, each a
transaction, and requests interleave between them.  `Save` is an upsert of a
whole record.  Clients see only responses, which may be lost.

| component | state | operations | interacts with |
|---|---|---|---|
| Storage (`internal/database`, `internal/model`) | users, items, sessions, PKCE challenges | one transaction per query, save or deletion; `Save` stamps `updated_at` before its transaction | everything below |
| Item synchronization (`service/sync*.go`) | none of its own | `Execute`: retrieve items newer than a token, save the incoming ones or report conflicts, hand out a sync token, a cursor and an integrity hash | storage; the clients' copies and tokens |
| Sessions (`session/manager.go`, `middlewares/session.go`, `session_handler.go`, `service/user_20200115.go`) | tokens and expiry of a session | create, validate twice per request, refresh, list, delete one, delete all, log out, hand out again after an update of the user | storage; the pair a client holds |
| Users and JWT (`service/user*.go`, `auth_handler.go`) | e-mail address, password hash, time of the last password change, key parameters | register, log in, update, change password; issue and check JWT | storage, sessions |
| PKCE (`service/pkce.go`) | challenges with an expiry | store, revoke the expired, check | storage; precedes a login |
| HTTP server (`server.go`, `middlewares`, `serializer`, `sferror`) | none | routes, binding, the Recover middleware | all handlers |
| Client library (`pkg/libsf`) | the bearer token and the session of a client | HTTP calls, key derivation | the server; `sfc` |
| Encryption of items (`libsf/item.go`, `keychain.go`, `vault*.go`) | the key chain, and the vaults an item was unsealed with | `Seal`, `Unseal` | the other clients of the account, by what they store |
| `sfc` (`internal/client`) | the credentials file | login, logout, refresh, backup, unseal | client library |
| Note editor (`internal/client/note.go`, `tui`) | the text and `updated_at` of each note | debounced synchronization of edits under a mutex | client library |
| Tools (`tools`, `pkg/stormsql`, codecs) | none while the server runs | console, removal of a user | the database file |

What makes each of them correct, and what is hard about it (every hazard is in
`PROJECT.json` at its line):

- *Synchronization.*  No client may miss a version that another one saved, no
  write may be lost silently, a conflict must be a real one, and everyone must
  end up with the same items.  Hard: the retrieval, the comparison, the save
  and the token are separate steps, and the token is a time.
- *Sessions.*  Terminated stays terminated, replaced tokens stay dead, and the
  client that was handed tokens can use them.  Hard: refresh finds and saves in
  two transactions, terminations run in loops, clients retry.
- *Users.*  One user per address; a JWT that dies with the password it was
  issued for and stays dead.  Hard: requests work on copies
  of the record through long hash computations, and times are in seconds.
- *PKCE.*  A challenge is good for one login, before it expires, and not lost.
  Hard: find and remove are two transactions.
- *The credentials file.*  It holds a usable session, and nothing of one that was
  logged out.  Hard: commands that run at the same time read it, talk to the
  server and write it without a lock, and may end between any two steps.
- *Encryption.*  Whoever has the keys of an account can read its items, and what
  `sfc` saves is in the protocol version and under the keys the account has now.
  Hard: an item carries two vaults, sealed one after the other; keys come from a
  login, from other items and from a generator, each of which may be of another
  protocol version or another password than the item.
- *The note editor.*  What is typed is saved, or the user is told; nothing older
  replaces it; and the editor, which cannot resolve conflicts, runs into none of its
  own making.  Hard: each edit is synchronized by a goroutine of its own, and only a part
  of its work is under the mutex.

## The modules

Every component is a module with its state as VARIABLES, one action per step
that other requests can come between, and its parameters as CONSTANTS with named
assumptions; an `MC` module instantiates it for TLC and a `Proofs` module extends
it with theorems.  A request in progress is a record `req[x]` whose `phase` says
which database call comes next, and whose other fields are the handler's local
variables.  `Overlap`, `Parallel`, `Faulty`, `Lossy`, `Jwt` and `OmitUpdatedAt` are Boolean
constants that switch parts of the environment on: with `Overlap = FALSE` the
requests run one after the other.

`MCItemHistory`, `MCSessionsAny` and `MCAccountsBoth` check several environments in one
run: `mode`, chosen at the start, says which a behaviour is in.  `"serial"` is the
specification with the constants of the configuration, `"overlap"` its instance
`Overlapping`, `"hasty"` and `"impatient"` are the instances `Hasty` of `ItemHistory` and
`Impatient` of `Sessions`.  What the code does not guard against is named by history variables
(`mishaps`, `doubt`, `crossed`, `cut`, and in `ItemHistory` `gaps`, `unseen`, `overtaken` and
`lost`): they note the steps of two requests that the code does not order, and the properties
hold in every environment with those exceptions alone.

### ItemSync, ItemHistory, ItemRegister

One account: `db` holds its items, `known`, `token`, `cursor` and `hashed` what
each device took from its responses.  A version of an item is named by its
`updated_at` (microseconds); `base` is a history field, the version its author
started from.

| action | code |
|---|---|
| `Submit` | a client calls `POST /items/sync` (`item_handler.go`, `NewSync`) |
| `Get` | `get` and `FindItemsByParams` |
| `Accept`, `Conflict`, `Panic` | `FindItemByUserID` and the comparison of `updated_at` in `save` of 20190520; 20161215 accepts always |
| `Stamp`, `Commit` | `Save`: `time.Now()`, then the transaction |
| `SkipFailed` | a failing call inside the loop, which goes on |
| `Finish` | the removal of conflicting items, the integrity hash, cursor and sync token, and the client taking the response over |
| `Fail`, `Crash`, `Recover` | an error or a lost response; the process stops; the Recover middleware |

In a fault-free response the client applies the retrieved items first and then
what became of its own (`View`).  `ItemRegister` is the abstract specification:
each item is a register, written only by someone who held the value it replaces.
`RegisterSpec` says that `ItemSync` implements it, mapping `store[i]` to
`updated_at` and `base` of the stored item.

`ItemHistory` is `ItemSync` with variables that watch its steps.

| variable | what it has |
|---|---|
| `unseen[d]` | items the page of the request in progress left out, or that another stored since it retrieved, until its own save or conflict shows them |
| `gaps[d]` | what was `unseen` when a response was taken over, and what others had stamped and not stored at that moment with a time its next sync does not ask for (`Pending`); a later response that shows the item closes the gap |
| `overtaken` | devices with an item that another request stored since theirs looked at it (`Accept`) |
| `lost` | items saved by an overtaken request, by one of 20161215, which does not look, or by one stamped less than the conflict interval (a millisecond) after the version it replaces, so that `save()` takes the two for one from then on |

So `MissedOnlyInGaps`, `HashMissesOnlyGaps` and `OverwrittenUnseen` say that a device misses a
version for two reasons and no third, in any interleaving, and `RegisterUntilLost` that an
item is the register of `ItemRegister` until it is `lost` (`LosingSpec`: registers may be
given up, one by one and for good).  Where neither reason arises there is no exception left:
with one request after the other and whole responses `gaps` stays empty (`NothingIsMissed`,
below), and with requests of 20190520 one after the other, and saves at least the interval apart,
nothing is lost (`RegisterSpec`).

### Sessions, SessionRegistry

`sessions` is the database; `held[d]` the session and pair a device goes by,
`doubt[d]` whether it has reasons to doubt that pair, and `ended`
the sessions a client was told are terminated.  The access and the refresh token
of a session are always drawn together, so both are one number.  `Check` is
executed twice for a request, as the middleware calls `Validate` itself and
again through `UserFromToken`; `Refresh`/`Regenerate`, `Delete`/`Remove` and
`DeleteAll`/`Sweep` are the handlers cut at their database calls.  `Ask` with a
JWT leads to a handler without a session, whose nil dereference is the phase
`panicked`.  A response that hands over a pair stays on its way (`respond`) until the client
takes it over (`Deliver`); with `Parallel` a client has several requests in progress, and
their responses arrive in any order.

| action | code |
|---|---|
| `AskSession`, `Create` | a sign-in of API 20200115, and `SuccessfulAuthentication` with a new session |
| `Ask`, `Check` | a request with the access token of the pair held, or a JWT, and `Validate` |
| `AskRefresh`, `Refresh`, `Regenerate` | `POST /session/refresh`: find and compare, then draw and save |
| `Reauthenticate` | `POST /auth/update` and `/auth/change_pw` answer with the session the middleware found, after a hash and a save of the user; with a JWT they create one |
| `List`, `Logout`, `Delete`/`Remove`, `DeleteAll`/`Sweep`/`SweptAll` | the other handlers |
| `Deliver` | a response with a pair reaches a client that still waits for it |
| `GiveUp`, `Fail`, `Crash`, `Recover`, `Tick` | a response that is lost, a failing database call, the end of the process, the Recover middleware, time |

Three things the handlers do not guard against are in `mishaps`, a history variable:
`"refresh"`, a session was ended while a refresh had found it and not saved it yet;
`"termination"`, one was ended whose own request was terminating others; `"logout"`, a
failing logout was answered as a success.  `EndedForGood` and `SomeoneStays` hold in any
interleaving but for these, so they say that there is no fourth way to break them.

`HolderAccepted` has exceptions of the same kind, in `doubt`.  A client may hold dead tokens
when it gave up a refresh (its response, `session_handler.go:111`, was the only copy of the
new pair); when two refreshes of its session had both found it before either was answered
(`:81`; the last save wins, whichever response comes last); or when an update handed it the
tokens the middleware had read (`user_20200115.go:52`), and it held others by the time that answer
arrived.  Nothing else may: not an update that is answered in time, not the requests of
others, not a failing call.  And the next sign-in or refresh that meets no other settles it, if
it is answered.

`SessionRegistry` is what the server promises of sessions: each is opened once, gets
tokens that were never drawn before, and once ended never comes back.  `RegistrySpec` says
that `Sessions` implements it, however requests overlap; its `void`, after which
sessions may come back, is `"refresh" \in mishaps`.

### Accounts

`users` is the database, `jwts` the set of tokens issued (with a history field
`secret`: the password of the record each was issued for).  `FindUserByMail`,
`Authenticate`, `Hash`, `Save` and `Sign` are the steps of `register`, `login`,
`update` and `password`; `req[s].copy` is the record in the handler's hands.  The
unique index on the e-mail address is `Taken`.  Of what `apply()` sets from the request
(`pw_cost`, `pw_nonce`, `pw_salt`, `version`), each optional with either update, one field,
`cost`, stands for all: clients may send it with a new password, alone, or not at all, and
the code keeps the old value where it is left out.  The history variable `crossed` has the users
whose password was changed while another request had a copy of the record in its
hands, or was issued a JWT between the time the change noted and its save: the two
properties of JWT exempt them and nobody else.  A later change that nothing crosses, and that
notes a time no JWT of the user is past (`Settles`), takes the user out again: from then on whatever
such requests put back, or were issued, is refused.

### PKCE

`stored` is the database, `issued` and `accepted` count how often a challenge was
stored and spent.  `Revoke`, `Save`, `Find`, `Remove` are the database calls of
`StoreChallenge` and `CheckChallenge`.

### Credentials

`file` is the credentials file of one directory, `session` the database of the
server, `proc[p]` a command of `sfc` in progress with the `cfg.Session` in its
hands.  A file is absent, empty (after `os.Create`), whole, or broken (two
commands write it and the text of one ends in the other's).

| action | code |
|---|---|
| `Login` | `login.go` up to the answer of the server: a session, or a JWT without one |
| `Load` | the start of `note`, `backup` and `logout`; an empty or broken file ends it (by an error or, at `config.go:58`, a panic) |
| `Refresh`, `Regenerate` | `config.go` `Refresh` and `RefreshSession`; the server finds the session (`session_handler.go:81`), then saves it with new tokens, there or not (`manager.go:155`) |
| `Create`, `Write` | `Save`: `os.Create` truncates, `Write` fills; `linked` says whether the file written is still the one in the directory |
| `Logout`, `End`, `Remove` | `logout.go`: the middleware accepts the access token, the server deletes the session (`auth_handler.go:211`), the file is removed |
| `Kill`, `Fail` | a command is cut short: interrupted, without an answer, or without a passphrase; the save of a refresh fails |
| `Terminate` | another client of the account ends a session |

A request to the server is in two steps, one for each call of the database that counts, and
goes on when the command is killed (`awaited`).  What the code does not guard against is in
`mishaps`, by session: `"ended"`, it was deleted while a refresh had found it; `"twice"`, a
refresh was saved with another of the same session under way; `"unsaved"`, it was deleted while
a command still had to save its new tokens; `"logout"`, a failing deletion was answered as a
success.  `cut` says whether a save of the file was cut short, or met another.  `FileUsable`
exempts `cut` and `"twice"`, `LogoutEnds` the other three: nothing else harms the file, and
nothing else brings a session back that was logged out.  `RegistrySpec` says that the server
of this model is a `SessionRegistry` too, with `void` after an `"ended"`: the same abstract
specification, and the same one exception, that `Sessions` implements in full.

### Vault

A secret (`Secret`) is what it takes to open it and what is inside: the version,
the UUID, the key or the two halves of one, the root key its key params describe, and
the payload.  An item has two, `enc_item_key` (`wrapped`) and `content`.  `stored` is
what the server has, `chain` the key chain in the credentials file, `itemsKey` and
`local` the key chain and the copies of an open editor, `file` the last backup.
`request` is the note on its way, which the server has compared and
not saved yet.  `written` is a history variable: the text last saved in a note.  Keys have a
length, as the ciphers check nothing else of them.

| operator or action | code |
|---|---|
| `RootChain`, `MinCost` | `Authenticate` of `libsf`: `SymmetricKeyPair`, `IntegrityCheck` |
| `KeyKeyChain`, `ContentKeyChain`, `GenerateItemEncryptionKey` | `keychain.go`: which key opens the key, how it is split, what is drawn |
| `Sealed`, `Unseals` | `create`, `setup`, `seal` and `parse`, `unseal` of `vault3.go` and `vault4.go`; only a vault of before 004 compares the UUID |
| `WithKey`, `WithContent` | the two halves of `Item.Seal`, which may fail before, between and after them |
| `Login`, `Start`, `Conflict`, `SealFails`, `Quit` | `login.go`; `note.go` up to the list of notes, items keys first; the synchronizer |
| `Save`, `Commit`, `Drop` | the synchronizer seals and sends, and the server compares `updated_at` (`sync_20190520.go:109`); the server saves (`:156`), whatever it has by then; it fails to |
| `Backup`, `Unseal` | `backup.go`; `unseal.go`, which tries notes only, with the key chain of the file |
| `Create`, `ChangePassword`, `Reencrypt` | other clients, by the protocol: they are outside the repository; their requests are one step, and come at any time, between the two of a save too |

`UpToDate` is the comparison: the copy was made of the version stored, or (`near`) of one
that was saved less than a millisecond before it, which the server does not tell apart.  A save
that goes over a version saved after the comparison, or over one it was only near to, is
`Crossed`: there the code drags a note back to the scheme the editor knows, as
`sync_lost_update` shows of texts, and `SchemeStays` and `FormatKept` exempt such saves and no
others.  `Readable` exempts none.

### NoteEditor

`editor` is the text of the widget, `text` and `updatedAt` the fields of the item, which
several goroutines assign, `call[c]` a debounced callback in progress, `stored` the
notes of the server, `left` requests the editor gave up and the server may still
get.  `told` is the text of which the user was told last that it is not saved.

| action | code |
|---|---|
| `Type` | the `SetChangedFunc` of an item: the debounce timer starts anew |
| `Fire`, `Read`, `Assign` | the callback of `tui/item.go` up to the synchronizer: the text is read and assigned outside the mutex |
| `Seal`, `SealFails` | the synchronizer gets the mutex (`note.go`); the text may be assigned by another callback at this moment, `Torn` then |
| `Send`, `Serve`, `Saved`, `Refused`, `GiveUp`, `Panic` | `SyncItems`, the comparison of `updated_at` on the server, and the three ways out; a conflict is a panic that ends the process |
| `Finish` | `item.UpdatedAt` is assigned after the mutex was released (`tui/item.go:34`) |
| `Quit`, `Open`, `Expire`, `ServeLeft` | Ctrl+Q, a new start, the end of the access token's life, a request nobody waits for arrives or is lost |

Two history variables name the two causes of a conflict of the editor with itself:
`astray` (a request was given up) and `raced` (`UpdatedAt` was read while another
callback still had to assign it).

### How they compose

The modules share the database but no records: a login is a PKCE check, then
the steps of `Accounts`, then `Create` of `Sessions` or `Sign` of `Accounts`; a
synchronization is `Check` of `Sessions` and then `ItemSync`.  No step of one
reads what another writes apart from `currentSession` and `currentUser`, so they
are checked apart.  `NoteEditor` and `Vault` are two views of one program: the
first has the interleavings of its goroutines and one abstract text, the second the keys,
with a synchronization as two steps, those of the server.  To both the server is the comparison of `updated_at`
that `ItemSync` models in full, and `Credentials` has its session.  `Sessions` and
`Credentials` implement one abstract specification, `SessionRegistry`, both cut where
the server reads and where it writes.

## The runs

| run | environment | shows | bounds |
|---|---|---|---|
| `sync` | serial: both API versions, pages of one, rounded and missing `updated_at`, failures and crashes; overlap: both API versions, pages of one; hasty: saves closer than the conflict interval | in each `TypeOK`, `MissedOnlyInGaps`, `HashMissesOnlyGaps`, `OverwrittenUnseen`, `TokenCoversResponse`, `NoSpuriousConflict` and the refinement `RegisterUntilLost` | 2 devices, 2 items; edits until clock 6 (hasty: 8, interval 3, steps 2 and 3) |
| `sync_fair` | 20190520, rounded and missing `updated_at`, failures, no overlap, fair | the refinement `RegisterSpec`, and `Converges` | 2 devices, 2 items, edits until clock 8 |
| `pkce_spent` | overlap, failures, crashes | `SpentOnce`, `AcceptedUnexpired`, `UnspentStays`, `TypeOK` | 3 requests, 2 challenges stored twice, lifetime 2 of clock 3 |
| `sessions` | serial: lost responses, crashes and JWT; overlap: failing calls; impatient: one client whose own requests overlap, are given up and lost | in each `TypeOK`, `HolderAccepted`, `EndedForGood`, `SomeoneStays`, `RetiredTokensDead` and the refinement `RegistrySpec` | 2 devices, 2 requests, 2 sessions, 3 tokens (impatient: 1 session, 4 tokens), lives 0 and 1, clock 2 (serial) or 1 |
| `accounts` | serial; overlap with failures and crashes | in both `TypeOK`, `EmailsUnique`, `JwtOfCurrentPassword`, `RevokedStaysRevoked` | 2 requests, 2 users, 2 addresses, 2 passwords; 4 JWT and clock 4 (serial), 2 and 2 (overlap) |
| `credentials` | two commands at a time, cut short anywhere; other clients terminate sessions | `FileUsable`, `LogoutEnds`, `TypeOK` and the refinement `RegistrySpec` | 2 commands, 2 sessions, 2 tokens, lives 1 and 2, margin 1, clock 3 |
| `note_editor` | failures, lost and late requests, an expiring session, restarts, fair | `TypeOK`, `NothingForgotten`, `ConflictsExplained`, `NeverOlder`, `Synchronized` | 2 notes, 2 callbacks, 2 texts |
| `vault` | an upgrade from 003 to 004, changes of the password, sealing that fails half-way, other clients between the two steps of a save | `TypeOK`, `Readable`, `SealsWhatItOpens`, `StartsWhenCurrent`, `OldBackupReadable`, `SchemeStays`, `FormatKept` | 2 items keys, 2 notes, 7 keys and texts drawn |
| `sync_gap`, `sync_lost_update`, `sessions_revived`, `unseal_backup` | overlap; 004 | a counterexample each, see below | the smallest that shows it |

*Bounds.*  Two devices are enough for every conflict and for every stale read,
as each involves one writer and one reader; two items let a request mix a
conflict with a save and a page with a rest.  `MaxClock` of `ItemSync` stops only
edits, never synchronizations, and leaves room for two edits of one item by each
device.  Lifetimes of 0 and 1 ticks make an access token expire by the next tick, a
session by the one after, and both within the run.  In `credentials` tokens live long enough to
be refreshed before they expire and short enough to expire within the clock, while a second command
logs in or out; two tokens are a session refreshed once, twice at once, or two sessions.
The other environments are smaller than the serial ones, as their exceptions need little:
three tokens for a session ended under its refresh and one that goes on; one session, a
sign-in and three refreshes for a client that repeats itself, settles and does it again;
two JWT and two ticks for one issued before a change of password and one meanwhile, in its
second or not; in `sync`, a save just within and one just beyond the interval, and an
edit of either.
Three PKCE requests let two checks race a store.  Two callbacks let one
hold the mutex and the other wait for it or still read the text, of the same note or
another; two texts let an older one be saved after a newer one, and start no third
callback.  Two items keys
let a note be wrapped with one while the other is read first; seven draws are a note of 003,
a new password, a save with the old one and the note encrypted again before it commits; or the
note, an upgrade, an items key and the note encrypted again under that; or a note of
004 from the start, sealed twice.
The bounds of `Sessions`, `Accounts`, `NoteEditor` and `Vault`
(`MaxSessions`, `MaxToken`, `MaxUsers`, `MaxJwts`, `MaxTyped`, `MaxDrawn`) stop the users and
clients from asking for more, so those runs end in states without a step and do not check
deadlock; the others do.  Items, devices, requests, commands, challenges, addresses,
passwords, items keys and notes are symmetric in the runs that use `SYMMETRY`, none of
which has a liveness property.

*Clock steps.*  The sync token is one microsecond past the last save, and `get`
asks for later times only.  The runs let the clock advance by at least 2 between two
saves: no two are stamped within one microsecond.  Where two are, the second is at the
token of the first and its device never asks for it: `MissedOnlyInGaps` fails with
`Steps = {1}`.  What `ItemSyncProofs` proves of tokens, conflicts and types does not
assume this.

*Fairness.*  `Converges` and `Synchronized` need it.

- `ItemSync`: weak fairness of `Serve(d)`, as Go runs every goroutine and a database
  call returns, so a handler gets to its end.  Strong fairness of `Submit(d)`: clients
  synchronize periodically; strong because with `Overlap = FALSE` a device has to wait
  for the others again and again.  Nothing is assumed of failures: `Converges` is
  conditional on their ending and on the clients sending the `updated_at` of the items
  they edit, and the end of edits comes with `MaxClock`.
- `NoteEditor`: weak fairness of `Fire(n)` and `Progress(c)`: timers run off, goroutines
  go on, and the server answers or the request fails.  Strong fairness of
  `Seal(c) \/ SealFails(c)`: a `sync.Mutex` that was waited for long enough is handed
  over in turn.  That requests end is the one assumption the code does not ensure:
  `http.DefaultClient` has no timeout (`client.go:52`).

## The proofs

All theorems hold for every value of the constants that meets the named
assumptions of the module: any set of devices, requests, items, notes and callbacks.
The only assumption beyond those on types is that clients
round `updated_at` by less than the conflict interval (`IntervalAssumption`).  A theorem
that needs more says so in its statement: one request
after the other (`~Overlap`), no failing database call (`~Faulty`), or

- `Prompt`: no two saves within one microsecond (of requests that may overlap);
- `Whole`: `Prompt`, no overlap, and responses not cut into pages;
- `Sound`: no overlap, requests of 20190520 only, and any two saves at least the conflict
  interval apart, a millisecond (`Apart`).

| theorem | states | argument |
|---|---|---|
| `ItemSyncProofs!TypeCorrect` | types, and `StampsOrdered` | types alone are not inductive: `SyncToken` takes the maximum of the saved items, which must exist.  `StampsOrdered` adds that whatever a response shows was stamped by now, and that what a request saves was stamped after what it retrieved |
| `ItemSyncProofs!TokenCovers` | `TokenCoversResponse` | from `StampsOrdered` |
| `ItemSyncProofs!ConflictsReal` | `NoSpuriousConflict` | `ConflictsFounded`: an edit carries the time of the version it was made from less a rounding below the interval, a conflicting version is at least the interval away |
| `ItemSyncProofs!RefinesRegister` | `RegisterSpec`, if `Sound` | `LockInv`: a version that a device or a response still has is the one stored or at least the interval older, so an edit admitted was made from the version stored, and nobody comes between |
| `ItemHistoryProofs!RefinesRegisterUntilLost` | `RegisterUntilLost` (requests overlap, both versions, saves at any distance) | `TightInv`: of the items not lost, what devices hold, responses show and edits were made from is the version stored or the interval older; and at an item nobody overtook a request at, it is the version stored.  A save that was overtaken, does not look, or comes within the interval gives the register up, every other one is a write of it |
| `ItemHistoryProofs!MissesOnlyGaps`, `HashesAgreeButGaps` | `MissedOnlyInGaps`, `HashMissesOnlyGaps`, if `Prompt` (requests overlap, both versions, pages) | `TouchInv`: outside its gaps a device holds what is stored or what it will ask for (`CaughtUp`), what others have stamped and not stored it will ask for (`Awaited`), and a response in the making tells of each item, but for what is `unseen`, the version stored, or leaves the client's copy, which is that one (`Told`).  `Awaited` is what makes the stamp before the transaction harmless to a device whose token is older |
| `ItemHistoryProofs!OverwritesReported` | `OverwrittenUnseen`, if `Prompt` | from `Told`: a version its client has not seen, and that was there when the request retrieved, is in what it retrieved, and save() shows an item once |
| `ItemHistoryProofs!NothingIsMissed` | `NothingMissed`, if `Whole` | from the same and `WholeInv`: one request at a time retrieves all it asks for and shows what it saves, so nothing is `unseen` and no gap is left; this is the property `sync_gap` refutes where requests overlap |
| `PKCEProofs!ChallengeSpentOnce` | `SpentOnce` | the sum of checks accepted and records left never exceeds the number of stores; inductive with the types, by counting lemmas on finite sets |
| `PKCEProofs!UnspentChallengeStays`, `AcceptedWasUnexpired` | `UnspentStays`, `AcceptedUnexpired` | every step that removes a record is a revocation or an accepted check; after a request's revocation, no record expired before that time is left |
| `SessionsProofs!RetiredStayDead` | `RetiredTokensDead` | every token a step writes is drawn in that step, although the session it is written to may be gone |
| `SessionsProofs!HolderIsAccepted` | `HolderAccepted` (requests overlap, those of one client too, and responses are lost) | `Tracked`: every session goes with one client (`Owned`); a pair on its way to a client is known to nobody else and, unless its refresh met another, is the one stored (`Underway`), and two refreshes that found one session both know it (`Met`); so a client without doubts holds the tokens stored or awaits them, and awaits whatever may still replace them (`Certain`) |
| `SessionsProofs!EndedStayDead` | `EndedForGood` | `EndedInv`: until a mishap, what ended is gone, a request about to renew a session has it still there, and of the sessions its client will be told of those not gone are still to be deleted.  It is conditional on `mishaps`, which only grow, so steps after one need no argument |
| `SessionsProofs!TerminatedStayDead` | `TerminatedStays`, if `~Overlap` and `~Faulty` | a corollary: `Orderly`, at most one request is in progress, so no mishap occurs |
| `SessionsProofs!SomeoneAlwaysStays` | `SomeoneStays` | `PresentInv`: until a termination is harmed, a request past the middleware that terminates others has its own session there and is not about to delete it |
| `SessionsProofs!NoTerminationHarmed` | `"termination" \notin mishaps`, if `~Overlap` | from `Orderly` |
| `SessionsProofs!RefinesRegistry` | `RegistrySpec` | `Numbered`: sessions stored were opened, and a request about to renew one has it still there, or the registry is void; then each step is a step of the registry or leaves it as it is |
| `AccountsProofs!AddressesUnique` | `EmailsUnique` | `Save` is the only writer and refuses an address taken by another |
| `AccountsProofs!AcceptedJwtIsCurrent`, `RevokedJwtStays` | `JwtOfCurrentPassword`, `RevokedStaysRevoked` | `JwtInv`: unless its user is `crossed`, the copy of a request has the password of the record stored and its time (`Agrees`), or is about to change them and younger than every JWT issued for them (`Supersedes`); no copy and no JWT is from the future (`Recent`, `Timely`).  When a change settles, no copy is left and no JWT is later than it, so the user is `Current` again without having been before |
| `AccountsProofs!NothingCrossed` | `crossed = {}`, if `~Overlap` | `OneAtATime` |
| `CredentialsProofs!RefinesRegistry` | `RegistrySpec` | `Numbered`, as above, and `RenewalFound`: the session of a refresh under way is there, or was ended under it |
| `CredentialsProofs!LogoutIsFinal` | `LogoutEnds` | `LogoutsOver`: a session logged out is gone, nobody refreshes it and nobody is about to save its tokens, but for the mishaps named; it needs `RenewalFound`, that what a command is about to save nobody else has, and is current unless two refreshes met (`SavingAlone`), and that no token or session is held before it is drawn (`Known`) |
| `CredentialsProofs!FileStaysUsable` | `FileUsable` | from the same, and `OneWriter`: until a save is cut short or meets another, the one writer finds the file empty, or removed.  A command that is about to save holds the current tokens, unless its refresh met another |
| `NoteEditorProofs!NoTextForgotten` | `NothingForgotten` | `Orderly` (one callback has the mutex, one of a note reads the editor) and `AllSettled`: the text of the editor was assigned, and is what the callback with the mutex sends, or on the server, or told of, or a callback is still to take it up |
| `NoteEditorProofs!ConflictsHaveReasons` | `ConflictsExplained` | `AllAgreed`: unless `astray` or `raced`, the `updated_at` of the item, and what a callback will assign to it, is the server's; whatever is `left` under way made its note astray |
| `NoteEditorProofs!NeverGoesBack` | `NeverOlder` | `AllNewer`: from the server over the callback with the mutex and the item to the editor, texts get newer |
| `VaultProofs!NotesReadable` | `Readable` | `FormsOK`: both secrets of an item, and of a copy a failing `Seal` left behind, are of one version and have its form; so the next `Seal`, which replaces both under one key, leaves an item that opens |
| `VaultProofs!SealingKeepsFormat` | `FormatKept` | from `FormsOK` and `Followed`: a copy of the version stored has its form, and so has the note on its way, unless it crosses another save (`Way`) |
| `VaultProofs!SchemeIsKept` | `SchemeStays` | from `Followed`: the open editor wraps a copy with the key it is wrapped with, and a note on its way that crosses nothing is wrapped with the key of what it replaces |
| `VaultProofs!SealsWhatItHasOpened` | `SealsWhatItOpens` | `KeysFit`: the key chain of the editor is of 004 if one of its notes is, which needs that root keys and items keys are drawn apart (`KeysApart`) |
| `VaultProofs!StartsUnlessOutdated` | `StartsWhenCurrent` | `Whole`: both secrets of a stored item open with the key each was sealed with (`WellSealed`), and the items key a note names is stored; with `KeysWhole`, root and items keys have the length of a key |
| `VaultProofs!OldBackupsRecovered` | `OldBackupReadable` | the same of the backup (`FileOK`) |

`TypeCorrect` is proved for each module.  `ItemSyncProofs` also holds lemmas about
the operators: pages and cursors (`PageType`), what a device takes over
(`MergeType`), the maximum behind a sync token (`SyncTokenPast`).

No exception can be spared: TLC finds a counterexample when `Track` leaves out `Pending`,
`unseen`, `overtaken` or the saves within the interval, when `Doubtful` or `GiveUp` of
`Sessions` leaves out one of its cases, when `Save` or `Sign` of `Accounts` never adds to `crossed`, when
`FileUsable` or `LogoutEnds` leaves out a mishap, and when `Crossed` is false.  All theorems allow
failures wherever they do not exclude them.

Every invariant and every action property of a passing run, and each refinement, is stated by
a theorem, under the assumptions named in the table.
Only model-checked: `Converges` and `Synchronized`, as liveness under fairness is beyond
the prover.

## What the checks found

Four runs end in a counterexample, the first three about requests that overlap:

- `sync_gap`: device 2 saves an item after device 1 retrieved and before it takes
  its sync token, which is `now`.  The item is older than the token and device 1
  never receives it (`sync_20190520.go:79`).
- `sync_lost_update`: two devices edit one version.  Both pass the comparison at
  `sync_20190520.go:109` before either saves at line 156; no conflict is reported
  and the first version is overwritten.
- `sessions_revived`: a session is deleted between the two calls of a refresh,
  whose `Save` (`manager.go:155`) stores it again with new tokens.
- `unseal_backup`: `sfc unseal` skips the items keys (`unseal.go:38`), which alone fill
  the key chain that opens a note of 004, and ends at the first note.

Further behaviour seen in the models, which other constants or a look at the
action show; the properties above are stated or configured around it:

- What `crossed` stands for: an update saves the record it read before a password change
  (`user.go:164`), and the old password, with its time, is back; a login that compared
  the old password (`user.go:151`) still gets its token.  Both last until the password is
  changed again.
- What `doubt` stands for: a client that repeats a refresh before the first is answered may
  be left with the pair of the one that saved first (`session_handler.go:81`); and one whose
  update is answered after its refresh goes back to dead tokens (`user_20200115.go:52`).
- `"twice"` of `Credentials`: two commands of `sfc` refresh one pair at once and both
  succeed; when the one that saved first on the server writes the file last, the pair in it is
  dead.  `"ended"` and `"unsaved"`: a session that `sfc logout` ended is back on the
  server, or its tokens in the file.
- `Crossed` of `Vault`: an editor with the keys of before a change of the password passes the
  comparison, the other client encrypts the note again, and the save puts it back under
  the old key.
- A save of the credentials file that is cut short leaves the old tokens, which
  the server no longer knows, or nothing (`config.go:124`, `config.go:153`).
- With `Limits = {1}`, `NothingMissed` fails without any overlap: pages are cut
  newest first (`storm.go:194`), and the cursor goes on from the oldest of a page
  towards the newer ones.  What a page leaves out is a gap of `ItemHistory`, which only a
  later version of the item closes.
- With `Overlap`, a device has a second kind of gap: another request takes its time
  (`storm.go:64`), the device is given a later token, and only then the transaction of the
  other stores the older time.
- `Panic` of `ItemSync`: an edit without `updated_at` of an item that exists ends
  in a nil dereference (`sync_20190520.go:129`), and what the request saved stays.  A
  client that keeps sending such an edit never converges.
- `List`, `Delete`, `DeleteAll` of `Sessions` panic when they are called with a JWT
  (`session_handler.go:41`, `:138`, `:166`).
- The mishap `"logout"`: `Logout` returns only the error that says that the session is
  gone already (`auth_handler.go:212`), so a client is told that a session has ended which
  a failing call left there.
- `Sweep`: `DeleteAll` stops at a session that another request deleted
  (`session_handler.go:170`).  The mishap `"termination"`: two `DeleteAll` that
  overlap can end the sessions of each other and leave the account without one.
- A JWT issued in the second of a password change survives it
  (`manager.go:217`); `JwtOfCurrentPassword` names the exception.
- The note editor, although the only client, can conflict with itself, which
  `note.go:137` does not expect: after a response was lost, or when a callback takes
  the mutex before the one before it has assigned `UpdatedAt` (`tui/item.go:34`).
  The conflict is a panic in a goroutine (`note.go:139`) and ends the process,
  with the edits of all notes that were not synchronized.  `Quit` (`tui.go:133`) drops an edit
  whose debounce timer runs, too.
- Outside the models, but met on the way: the key params of the answer to
  a password change are computed before the change (`user_20200115.go:38`); a sync
  token that cannot be decoded stands for now, and one without a colon panics
  (`token.go:17`).

## Abstractions

- Clocks do not go backwards, and all times are those of one server.
- The content and type of items, titles, user agents and other payload that no
  decision looks at are left out; so is the filter on `content_type`.
- A request holds an item at most once, and the items of a request are handled in
  any order, which includes the one they are sent in.
- Tokens a client sends are tokens it was given: the fallback of `TimeFromToken`
  for others (the current time) is not modelled.
- The expiry claim inside a PASETO is not modelled: the middleware ignores it in
  favour of the session (`middlewares/session.go:58`).
- In `PKCE`, storing a challenge takes less than the lifetime of a challenge (an
  hour) from the moment it read the clock.
- `Backup` and `Delete` of `item_handler.go` are stubs without effect.
- Passwords stand for their hashes.  `Sessions` is of an account of version 004, the only one with sessions.
- In `Credentials` the clocks of `sfc` and the server agree, and a write of the file is
  one step.  The middleware's two looks at the session of a logout are one step, and so is a
  termination by another client; `Sessions` has them apart.
- In `Vault` a cipher opens what was sealed with the same keys, and nothing else.  The
  two halves of a key of 003 always go together and are one key.  The requests
  of other clients are one step.  User preferences, which are unsealed as notes
  are and only sort the list, are left out.
- In `NoteEditor` two times are equal if they are within the server's conflict interval.  The
  debounce delay is longer than a callback takes from the text it reads to its assignment,
  reading the text of the widget is one step, and the account has no other client.  A
  request that was given up may arrive at any later time, or never: more than a
  connection that broke allows.

## Not modelled

- *Binding, serialization, error formats, subscription payloads.*  Pure I/O without a
  state; the routes are the requests of the modules.
- *Ciphers, encodings and key derivation of `libsf`.*  What they compute is
  not for a model checker; `Vault` has what opens what, and the length of keys.  The
  order of versions (`version.go`) is a total order on four strings, the text of a
  sync token a conversion.
- *Key parameters and the protocol version of a user* (`user.go`): values that are passed
  through.  The version decides one thing, whether a login is answered with a session or a
  JWT (`UserSupportsSessions`); `Sessions` and `Accounts` are the two answers.
- *Opening and indexing the database, `DeleteItem`*: run before any request, or never.
- *Prompts, the passphrase of the credentials file, the display, the sorting and the keys of the
  editor*: one user, one thread, no state that outlives them.
- *The codecs and the SQL console* (`pkg/storm*`, `pkg/structs`): conversions and an
  interactive query builder.
- *`rmuser`, `console`, `cmd/standardfile`, the release workflow*: configuration and tools that run
  alone, on a database no server has open.

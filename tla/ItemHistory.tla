---------------------------- MODULE ItemHistory ----------------------------
(***************************************************************************)
(* ItemSync with variables that record where requests of several devices   *)
(* met: what a device may have missed because another saved while it       *)
(* synchronized or because its response was cut into a page, and which     *)
(* items were saved over a version save() had not looked at.  They only    *)
(* watch the steps of ItemSync; the properties below say that nothing else *)
(* goes wrong, in any interleaving.                                        *)
(***************************************************************************)
EXTENDS ItemSync

VARIABLES
  unseen,    \* unseen[d]: items that were left out of the page d is given, or
             \* saved by another since its request retrieved, and not shown to it
  gaps,      \* gaps[d]: items of which a response to d left some version out
             \* that d may not ask for again, and no later one has shown
  overtaken, \* the devices at an item that another saved since save() looked
  lost       \* items saved by a request that was overtaken, or does not look, or
             \* sooner after the version replaced than the interval tells apart

history == <<unseen, gaps, overtaken, lost>>

HistoryInit ==
  /\ Init
  /\ unseen = [d \in Device |-> {}] /\ gaps = [d \in Device |-> {}]
  /\ overtaken = {} /\ lost = {}

\* A request that has retrieved and is not answered.
Past(r) == r.phase \in {"save", "stamp", "commit", "panicked"}

ShownIds(r) == {v.id : v \in r.retrieved \cup r.saved \cup r.conflicts}

\* What a step stores, and what it shows to device d of what save() does.
Changed == {i \in Item : db'[i] # db[i]}

Learnt(d) == {v.id : v \in (req'[d].saved \cup req'[d].conflicts)
                              \ (req[d].saved \cup req[d].conflicts)}

\* get() retrieves for device d versions of that time.
Asks(d, upd) == IF cursor[d] # 0 THEN upd >= cursor[d] ELSE upd > token[d]

\* Versions others have stamped and not stored, of a time d will not ask for.
Pending(d) ==
  {i \in Item : \E e \in Device \ {d} :
     req[e].phase = "commit" /\ i \in req[e].at /\ ~Asks(d, req[e].stamp)'}

Track ==
  /\ unseen' = [d \in Device |->
       IF ~Past(req'[d]) THEN {}
       ELSE IF req[d].phase = "get"
       THEN {i \in Item : Matches(token[d], cursor[d], db[i])} \ ShownIds(req'[d])
       ELSE (unseen[d] \cup Changed) \ Learnt(d)]
  /\ gaps' = [d \in Device |->
       IF Finish(d) THEN (gaps[d] \ ShownIds(req[d])) \cup unseen[d] \cup Pending(d)
       ELSE gaps[d]]
  /\ overtaken' = {d \in Device : /\ req'[d].at # {}
                                  /\ d \in overtaken \/ req[d].at \cap Changed # {}}
  /\ lost' = lost \cup {i \in Changed : \E d \in Device :
                          /\ i \in req[d].at /\ req'[d].at = {}
                          /\ \/ d \in overtaken
                             \/ req[d].api = "20161215"
                             \/ db[i].upd + ConflictInterval > req[d].stamp}

HistoryNext == Next /\ Track

HistorySpec == HistoryInit /\ [][HistoryNext]_<<vars, history>>

-----------------------------------------------------------------------------
(* Properties.                                                             *)

\* In any interleaving of requests and whatever fails, a client that waits holds
\* the stored version of every item, or one its next sync retrieves, unless a
\* page left the item out, or another device's save of it fell between this
\* one's retrieval and its sync token (stored in between, or stamped before and
\* stored after), and it was not shown the item since.
MissedOnlyInGaps ==
  \A d \in Device, i \in Item :
    (req[d].phase = "idle" /\ token[d] # 0 /\ i \notin gaps[d]) =>
      \/ known[d][i] = [upd |-> db[i].upd, deleted |-> db[i].deleted]
      \/ Asks(d, db[i].upd)
      \/ known[d][i] = NoCopy /\ db[i].deleted

\* Without such a gap the integrity hash a client got, computed after save over
\* all items, is the one it computes over its copies.
HashMissesOnlyGaps ==
  \A d \in Device :
    gaps[d] = {} =>
      hashed[d] = {known[d][i].upd : i \in {j \in Item : /\ known[d][j].upd # 0
                                                         /\ ~known[d][j].deleted}}

\* A 20161215 request that overwrites a version its client has not seen, more
\* than the interval old and not a deletion, tells the client of it, unless
\* the version was saved after the request retrieved (checkForConflicts compares
\* with what get() found) or is one the client had missed before.
OverwrittenUnseen ==
  [][\A d \in Device, i \in Item :
       (/\ Commit(d, i) /\ req[d].api = "20161215"
        /\ i \notin unseen[d] \cup gaps[d]
        /\ db[i].upd # req[d].batch[i].base /\ ~db[i].deleted
        /\ Distance(req[d].stamp, db[i].upd) > ConflictInterval16)
       => Show(i, db[i]) \in Unsaved(req'[d])]_vars

\* An item is a register whose writes replace the version their author held,
\* until a save of it is overtaken by another's, between the look of save() and
\* its Save, or comes from a 20161215 request, which does not look, or from one
\* stamped less than minConflictInterval after the version it replaces, which
\* save() takes for the new one from then on.
LostRegister ==
  INSTANCE ItemRegister
    WITH store <- [i \in Item |-> IF i \in lost THEN [upd |-> -1, base |-> -1]
                                  ELSE [upd |-> db[i].upd, base |-> db[i].base]]

RegisterUntilLost == LostRegister!LosingSpec

=============================================================================

------------------------------- MODULE Informer -------------------------------
(***************************************************************************)
(* The informer of the client (client_pipe/informers/informer.go): one     *)
(* goroutine lists the nodes, then reads the events of a watch and lists   *)
(* again from time to time; each change goes into the store first and is   *)
(* then told to the handlers. A handler that comes after the start is told *)
(* of the store by a goroutine of its own.                                 *)
(*                                                                         *)
(* told is what a handler knows, a handler being one that keeps the last   *)
(* object of each key.                                                     *)
(***************************************************************************)
EXTENDS NodeFeed

CONSTANT Handler

VARIABLES
    store,
    pc,         \* control of Run
    batch,      \* answer of the last List, as far as it is not worked off
    listed,     \* its keys (currentKeys)
    notice,     \* a change that is in the store and not told yet
    synced,
    joined,     \* when AddEventHandler was called
    told,
    replay      \* what sendCurrentStateToHandler has still to tell

cacheVars == <<store, pc, batch, listed, notice, synced>>
handlerVars == <<joined, told, replay>>
informerVars == <<cacheVars, handlerVars>>

Objects == {history[r] : r \in {q \in Revisions : history[q].put}}
Keys(objects) == {o.key : o \in objects}

(* "before": before Run; "listing": before synced is set; "after": later,   *)
(* with a goroutine that has not read the store; "reading": it has.         *)
Joining == {"no", "before", "listing", "after", "reading"}
Registered == {h \in Handler : joined[h] # "no"}
Early == {h \in Handler : joined[h] = "before"}

InformerInit ==
    /\ store = EmptyStore /\ pc = "list" /\ batch = {} /\ listed = {}
    /\ notice = None /\ synced = FALSE
    /\ joined \in [Handler -> {"no", "before"}]
    /\ told = [h \in Handler |-> Nothing] /\ replay = [h \in Handler |-> {}]

What == {"add", "update", "delete"}

ASSUME ChangeAssumption ==
    None \notin [what : What, old : Object \cup {None}, new : Object \cup {None}]

Change(what, old, new) == [what |-> what, old |-> old, new |-> new]

(* The store changes, and the handlers are told next. *)
AddAndNotify(o) ==
    /\ store' = Add(store, o.key, o)
    /\ notice' = Change("add", None, o)

(* The old object is nil when the store does not have the key. *)
UpdateAndNotify(o) ==
    /\ store' = Update(store, o.key, o)
    /\ notice' = Change("update", Get(store, o.key), o)

(* DeleteSilently, ForgetsWhatItListed and AddWithoutReplay are defects the *)
(* code could have; they only serve to see that the properties notice.      *)
DeleteSilently(k) == store' = Delete(store, k) /\ UNCHANGED notice

DeleteAndNotify(k) ==
    /\ store' = Delete(store, k)
    /\ notice' = Change("delete", Get(store, k), None)

Steady == UNCHANGED <<store, notice>>

----------------------------------------------------------------------------
(* Run *)

InitialList ==
    /\ pc = "list" /\ pc' = "adding"
    /\ batch' = Listing
    /\ UNCHANGED <<feedVars, store, listed, notice, synced, handlerVars>>

(* Run returns. *)
ListFails ==
    /\ pc = "list" /\ pc' = "failed" /\ Fault
    /\ UNCHANGED <<history, connected, announce, next, resultChan, store, batch, listed, notice, synced, handlerVars>>

AddListed ==
    /\ pc = "adding" /\ notice = None
    /\ \E o \in batch : AddAndNotify(o) /\ batch' = batch \ {o}
    /\ UNCHANGED <<feedVars, pc, listed, synced, handlerVars>>

(* client.Watch starts a goroutine and succeeds before it has connected. *)
StartWatch ==
    /\ pc = "adding" /\ batch = {} /\ notice = None
    /\ NewWatch /\ synced' = TRUE /\ pc' = "watch"
    /\ UNCHANGED <<history, faults, store, batch, listed, notice, handlerVars>>

(* handleWatchEvent: an error is logged; without an object nothing happens, *)
(* which is what a removal looks like.                                      *)
HandleWatchEvent(event) ==
    IF event.object = None THEN Steady
    ELSE \/ event.type = "ADDED" /\ AddAndNotify(event.object)
         \/ event.type = "MODIFIED" /\ UpdateAndNotify(event.object)

Receive ==
    /\ pc = "watch" /\ notice = None /\ resultChan # <<>>
    /\ HandleWatchEvent(Head(resultChan)) /\ resultChan' = Tail(resultChan)
    /\ UNCHANGED <<history, connected, announce, next, faults, pc, batch, listed, synced, handlerVars>>

Stop ==
    /\ pc = "watch" /\ notice = None /\ pc' = "stopped"
    /\ UNCHANGED <<feedVars, store, batch, listed, notice, synced, handlerVars>>

----------------------------------------------------------------------------
(* resync; when its List fails, the informer only logs it *)

ForgetsWhatItListed ==
    /\ pc = "watch" /\ notice = None /\ pc' = "resync"
    /\ batch' = Listing /\ listed' = {}
    /\ UNCHANGED <<feedVars, store, notice, synced, handlerVars>>

Resync ==
    /\ pc = "watch" /\ notice = None /\ pc' = "resync"
    /\ batch' = Listing /\ listed' = Keys(Listing)
    /\ UNCHANGED <<feedVars, store, notice, synced, handlerVars>>

ObjectsEqual(old, new) == old.updatedAt = new.updatedAt

ResyncItem ==
    /\ pc = "resync" /\ notice = None
    /\ \E o \in batch :
          LET old == Get(store, o.key) IN
          /\ batch' = batch \ {o}
          /\ \/ old = None /\ AddAndNotify(o)
             \/ old # None /\ ObjectsEqual(old, o) /\ Steady
             \/ old # None /\ ~ObjectsEqual(old, o) /\ UpdateAndNotify(o)
    /\ UNCHANGED <<feedVars, pc, listed, synced, handlerVars>>

ResyncDelete ==
    /\ pc = "resync" /\ notice = None /\ batch = {}
    /\ \E k \in ListKeys(store) \ listed : DeleteAndNotify(k)
    /\ UNCHANGED <<feedVars, pc, batch, listed, synced, handlerVars>>

ResyncEnd ==
    /\ pc = "resync" /\ notice = None /\ batch = {} /\ ListKeys(store) \subseteq listed
    /\ pc' = "watch" /\ listed' = {}
    /\ UNCHANGED <<feedVars, store, batch, notice, synced, handlerVars>>

----------------------------------------------------------------------------
(* Handlers *)

Tell(h, k, o) == [told EXCEPT ![h][k] = o]

NoticeKey == IF notice.new # None THEN notice.new.key ELSE notice.old.key

(* notifyAdd, notifyUpdate, notifyDelete: all handlers registered now. *)
Notify ==
    /\ notice # None /\ notice' = None
    /\ told' = [h \in Handler |-> IF h \in Registered
                                  THEN [told[h] EXCEPT ![NoticeKey] = notice.new] ELSE told[h]]
    /\ UNCHANGED <<feedVars, store, pc, batch, listed, synced, joined, replay>>

AddWithoutReplay(h) ==
    /\ joined[h] = "no"
    /\ joined' = [joined EXCEPT ![h] = IF synced THEN "reading" ELSE "listing"]
    /\ UNCHANGED <<feedVars, cacheVars, told, replay>>

AddEventHandler(h) ==
    /\ joined[h] = "no"
    /\ joined' = [joined EXCEPT ![h] = IF synced THEN "after" ELSE "listing"]
    /\ UNCHANGED <<feedVars, cacheVars, told, replay>>

(* sendCurrentStateToHandler *)
ReadStore(h) ==
    /\ joined[h] = "after" /\ joined' = [joined EXCEPT ![h] = "reading"]
    /\ replay' = [replay EXCEPT ![h] = List(store)]
    /\ UNCHANGED <<feedVars, cacheVars, told>>

Replay(h) ==
    /\ \E o \in replay[h] :
          /\ told' = Tell(h, o.key, o)
          /\ replay' = [replay EXCEPT ![h] = @ \ {o}]
    /\ UNCHANGED <<feedVars, cacheVars, joined>>

----------------------------------------------------------------------------
(* What the goroutine does when it does not wait in the select of watch. *)
Working ==
    \/ InitialList \/ AddListed \/ StartWatch
    \/ ResyncItem \/ ResyncDelete \/ ResyncEnd \/ Notify

Run == Working \/ ListFails \/ Receive \/ Resync \/ Stop

Handlers == \E h \in Handler : AddEventHandler(h) \/ ReadStore(h) \/ Replay(h)
=============================================================================

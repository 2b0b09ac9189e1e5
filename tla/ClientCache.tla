----------------------------- MODULE ClientCache ------------------------------
(***************************************************************************)
(* A store of the client filled by an informer or by a reflector           *)
(* (driver), from the same nodes and the same kind of watch.               *)
(***************************************************************************)
EXTENDS Informer

CONSTANT
    MaxEvents   \* bound: writes, faults and late handlers of one behaviour

VARIABLE driver

Ended == {"failed", "stopped"}

(* The lister: a key is made of the namespace, the kind and the id. *)
ListerList(n, d) == GetByNamespaceAndKind(store, n, d)
ListerGet(n, d, k) == IF KeyNamespace[k] = n /\ KeyKind[k] = d THEN Get(store, k) ELSE None

vars == <<feedVars, informerVars, driver>>

R == INSTANCE Reflector

Init ==
    /\ FeedInit /\ InformerInit
    /\ \/ driver = "informer"
       \/ driver = "reflector" /\ R!NewReflector /\ Registered = {}

Informing(A) == driver = "informer" /\ A /\ UNCHANGED driver
Reflecting(A) ==
    /\ driver = "reflector" /\ A
    /\ UNCHANGED <<batch, listed, notice, synced, handlerVars, driver>>
Elsewhere(A) == A /\ UNCHANGED <<informerVars, driver>>
InWatch(A) == pc \in {"watch", "resync"} /\ Elsewhere(A)

(* A handler was told of what the store has at k: of an object with the same *)
(* Phase. The operator writes the next phase there before it asks for the    *)
(* Update, which may fail (test/pipeline_test.go).                           *)
EditPhase(h, k) ==
    /\ told[h][k] # None /\ store.items[k] # None
    /\ notice # None => NoticeKey # k
    /\ store' = Edit(store, k)
    /\ UNCHANGED <<feedVars, pc, batch, listed, notice, synced, handlerVars, driver>>

Bounded == Len(history) + faults + Cardinality(Registered \ Early) <= MaxEvents

(* Nobody looks at the nodes when the client has ended. *)
Next ==
    /\ \/ pc \notin Ended /\ Elsewhere(Writes)
       \/ InWatch(Watching \/ Lose)
       \/ Informing(Run \/ Handlers)
       \/ Reflecting(R!Run)
       \/ pc \notin Ended /\ \E h \in Handler, k \in Key : EditPhase(h, k)
       \/ pc \in Ended /\ UNCHANGED vars
    /\ Bounded'

Spec == Init /\ [][Next]_vars

(* Go chooses among the ready cases of a select at random, so neither events *)
(* nor the ticker wait for ever; a connection is made, sends its list, goes  *)
(* on and ends with the timeout of the HTTP client. Nobody has to write, to  *)
(* fail, or to stop.                                                         *)
Fairness ==
    /\ WF_vars(InWatch(Connect)) /\ WF_vars(InWatch(Deliver)) /\ WF_vars(InWatch(Disconnect))
    /\ WF_vars(Informing(Working)) /\ SF_vars(Informing(Receive)) /\ SF_vars(Informing(Resync))
    /\ WF_vars(Reflecting(R!Working)) /\ SF_vars(Reflecting(R!Receive)) /\ SF_vars(Reflecting(R!Resync))

FairSpec == Spec /\ Fairness

----------------------------------------------------------------------------
(* Properties. *)

Wanted == {k \in Key : KeyKind[k] = WantedKind}

(* Every variable has its type; a watch has sent no more than there is. *)
TypeOK ==
    /\ driver \in {"informer", "reflector"} /\ connected \in BOOLEAN /\ synced \in BOOLEAN
    /\ announce \subseteq Objects /\ next \in 0 .. Len(history) + 1
    /\ Len(resultChan) <= Cap
    /\ pc \in {"list", "adding", "start", "watch", "resync", "ended"} \cup Ended
    /\ batch \subseteq Objects /\ listed \subseteq Key
    /\ store.items \in [Key -> Objects \cup {None}] /\ store.edited \subseteq ListKeys(store)
    /\ told \in [Handler -> [Key -> Objects \cup {None}]]
    /\ joined \in [Handler -> Joining] /\ replay \in [Handler -> SUBSET Objects]

(* Whatever the store went through, a lister lists by namespace and kind     *)
(* what has that namespace and kind, and Get of the lister finds just what   *)
(* the list shows: the indices are kept beside the items by four operations  *)
(* (store.go).                                                               *)
StoreIndexed ==
    /\ \A n \in Namespace \cup {Blank}, d \in Kind \cup {Blank} :
           ListerList(n, d) = Matching(store, n, d)
    /\ \A k \in Key, n \in Namespace, d \in Kind :
           LET o == ListerGet(n, d, k) IN o # None <=> o \in ListerList(n, d)

(* What a handler that came before the start was told adds up to the store,  *)
(* through lists, events in any order, resyncs and reconnections (notifyAdd, *)
(* notifyUpdate, notifyDelete).                                              *)
HandlersFollowStore ==
    notice = None => \A h \in Early : told[h] = store.items

(* A handler that comes after the informer has synced was told of every key  *)
(* in the store once its goroutine is through, though live events and the    *)
(* replay reach it in any order (AddEventHandler, sendCurrentStateToHandler).*)
LateHandlerComplete ==
    notice = None => \A h \in Handler : joined[h] = "reading" /\ replay[h] = {} =>
        \A k \in ListKeys(store) : told[h][k] # None

(* The store only holds what etcd held, but for a phase that a handler wrote *)
(* and that stays until the key comes anew (copyObject); it drops a key it   *)
(* should have only after etcd did: a list, which may be older than the      *)
(* store by the time it is worked off, never takes away what is there.       *)
Copy == INSTANCE Replica WITH copy <- store.items, edited <- store.edited
ImplementsReplica == Copy!Spec

(* A client that has caught up with its watch misses nothing of its kind, as *)
(* long as no call failed and no line was lost, however often the connection *)
(* was made anew: what a connection does not send because it came before it, *)
(* the list at its beginning has, and an older list that a resync works off, *)
(* or an older event that waits in the channel, does not undo it. (What it   *)
(* has is the last write of each key; a handler may have edited the phase.)  *)
CaughtUp ==
    /\ pc = "watch" /\ notice = None
    /\ connected /\ announce = {} /\ next > Len(history) /\ resultChan = <<>>
NothingMissing ==
    faults = 0 /\ CaughtUp =>
        \A k \in Wanted : Current(k) # None => store.items[k] = Current(k)

(* When nobody writes any more, the store comes to hold what etcd does, for  *)
(* every key asked for, unless the informer failed at the start or was       *)
(* stopped: lost events, removals that are not told, and lists that see no   *)
(* difference are made good by later lists and connections. (This is about   *)
(* the write that the store has, not about a phase that was edited.)         *)
StoreConverges == <>[](pc \in Ended \/ \A k \in Wanted : store.items[k] = Current(k))

----------------------------------------------------------------------------
(* What the code or its users take for granted and the model refutes.       *)

(* OnUpdate comes with the object before: the handler of                     *)
(* test/pipeline_test.go:181 compares its phase with that of the new one.    *)
UpdateHasOld == notice # None /\ notice.what = "update" => notice.old # None

(* An object is never replaced by an older one (README_NEW.md:83).           *)
NoneOlder ==
    [][\A k \in Key : store.items[k] # None /\ store'.items[k] # None
                          => store'.items[k].rev >= store.items[k].rev]_vars

(* A client that has caught up shows what etcd holds: consistency is kept    *)
(* automatically (README_NEW.md:83). A phase that a handler wrote stays, also *)
(* when the Update it wrote it for has failed, and no resync takes it back,  *)
(* as UpdatedAt is the same (objectsEqual).                                  *)
NoneEdited == CaughtUp => store.edited = {}

(* Synced means that the watch has a connection (informer.go:121).           *)
SyncedIsConnected == [][synced' /\ ~synced => connected']_vars

(* The store holds nothing but what was asked for.                           *)
OnlyWanted == ListKeys(store) \subseteq Wanted

(* Whoever has registered was told of every key in the store.                *)
EveryHandlerComplete ==
    notice = None => \A h \in Handler : joined[h] = "listing" /\ synced =>
        \A k \in ListKeys(store) : told[h][k] # None
=============================================================================

--------------------------- MODULE ClientCacheProofs ---------------------------
(***************************************************************************)
(* Proofs about ClientCache for any number of keys, writes, faults and     *)
(* handlers: the indices of the store are always what its items say, early *)
(* handlers follow the store, late ones miss nothing, what the store holds *)
(* is a copy of etcd, and without faults a client that has caught up with  *)
(* its watch misses nothing.                                               *)
(*                                                                         *)
(* The argument about the store: namespace and kind are part of the key,   *)
(* so every operation that puts one object at its key moves the indices    *)
(* with the items. Indexed(items, edited) is the store whose indices are    *)
(* right.                                                                  *)
(***************************************************************************)
EXTENDS ClientCache, TLAPS

(* Items that are filed under their own keys. *)
Filed == {i \in [Key -> Object \cup {None}] : \A k \in Key : i[k] # None => i[k].key = k}

(* What one index is for the items i. *)
IndexOf(i, attribute, values) == [v \in values |-> Having(i, attribute, v)]

(* A store with the items i, edited at e, and the indices of j. *)
Stored(i, j, e) == Holding(i, IndexOf(j, "namespace", Namespace), IndexOf(j, "kind", Kind), e)

Indexed(i, e) == Stored(i, i, e)

(* What a store consists of. *)
LEMMA IndexedIs ==
  /\ \A i, e : Indexed(i, e).items = i /\ Indexed(i, e).edited = e
  /\ \A i : Replace(i) = Indexed(i, {})
  BY DEF Indexed, Stored, Holding, Replace, IndexOf

(* An object has the attributes of its key. *)
LEMMA ObjectFits ==
  ASSUME NEW o \in Object
  PROVE  /\ o # None /\ o.key \in Key /\ o.put = TRUE
         /\ o.namespace = KeyNamespace[o.key] /\ o.namespace \in Namespace \cup {Blank}
         /\ o.kind = KeyKind[o.key] /\ o.kind \in Kind \cup {Blank}
  BY FeedAssumption DEF Object

(* One entry of one index is set: the index is that of the changed items.  *)
LEMMA EntryIsSet ==
  ASSUME NEW V, Blank \notin V, NEW a \in {"namespace", "kind"}, NEW k \in Key,
         NEW j \in [Key -> Object \cup {None}], NEW o \in Object \cup {None},
         NEW v \in V \cup {Blank},
         o # None => o[a] = v, j[k] # None => j[k][a] = v,
         NEW new, new[k] = o, \A l \in Key \ {k} : new[l] = j[l]
  PROVE  SetEntry(IndexOf(j, a, V), v, k, o) = IndexOf(new, a, V)
  <1> DEFINE index == IndexOf(j, a, V)
  <1>1. ASSUME NEW n \in V
        PROVE  Having(new, a, n) = IF n = v THEN [Having(j, a, n) EXCEPT ![k] = o]
                                   ELSE Having(j, a, n)
    <2>1. Having(new, a, n)[k] = IF n = v THEN o ELSE None
      BY <1>1 DEF Having
    <2>2. n # v => Having(j, a, n)[k] = None
      BY <1>1 DEF Having
    <2>3. \A l \in Key \ {k} : Having(new, a, n)[l] = Having(j, a, n)[l]
      BY DEF Having
    <2>4. Having(new, a, n) = [l \in Key |-> Having(new, a, n)[l]]
          /\ Having(j, a, n) = [l \in Key |-> Having(j, a, n)[l]]
      BY DEF Having
    <2> QED
      BY <2>1, <2>2, <2>3, <2>4
  <1>2. CASE v = Blank
    BY <1>1, <1>2 DEF SetEntry, IndexOf
  <1>3. CASE v # Blank
    <2>1. SetEntry(index, v, k, o) = [index EXCEPT ![v] = [index[v] EXCEPT ![k] = o]]
      BY <1>3 DEF SetEntry
    <2>2. [index EXCEPT ![v] = [index[v] EXCEPT ![k] = o]]
            = [n \in V |-> IF n = v THEN [Having(j, a, n) EXCEPT ![k] = o] ELSE Having(j, a, n)]
      BY <1>3 DEF IndexOf
    <2> QED
      BY <1>1, <2>1, <2>2 DEF IndexOf
  <1> QED
    BY <1>2, <1>3

(* Both indices, for an object of the key or for its removal. *)
LEMMA IndicesAreSet ==
  ASSUME NEW j \in Filed, NEW k \in Key, NEW o \in Object \cup {None},
         NEW f \in Object, f.key = k, o # None => o.key = k
  PROVE  /\ SetEntry(IndexOf(j, "namespace", Namespace), f.namespace, k, o) = IndexOf([j EXCEPT ![k] = o], "namespace", Namespace)
         /\ SetEntry(IndexOf(j, "kind", Kind), f.kind, k, o) = IndexOf([j EXCEPT ![k] = o], "kind", Kind)
  <1>1. /\ f.namespace = KeyNamespace[k] /\ f.namespace \in Namespace \cup {Blank}
        /\ f.kind = KeyKind[k] /\ f.kind \in Kind \cup {Blank}
    BY ObjectFits
  <1>2. o # None => o["namespace"] = KeyNamespace[k] /\ o["kind"] = KeyKind[k]
    BY ObjectFits
  <1>3. /\ j \in [Key -> Object \cup {None}]
        /\ j[k] # None => j[k]["namespace"] = KeyNamespace[k] /\ j[k]["kind"] = KeyKind[k]
    <2>1. j \in [Key -> Object \cup {None}] /\ (j[k] # None => j[k].key = k)
      BY DEF Filed
    <2>2. j[k] # None => j[k] \in Object
      BY <2>1
    <2> QED
      BY <2>1, <2>2, ObjectFits
  <1>4. Blank \notin Namespace /\ Blank \notin Kind
    BY FeedAssumption
  <1>5. SetEntry(IndexOf(j, "namespace", Namespace), f.namespace, k, o) = IndexOf([j EXCEPT ![k] = o], "namespace", Namespace)
    <2> DEFINE v == f.namespace
               a == "namespace"
    <2>1. (o # None => o[a] = v) /\ (j[k] # None => j[k][a] = v)
      BY <1>1, <1>2, <1>3
    <2>2. v \in Namespace \cup {Blank} /\ a \in {"namespace", "kind"}
      BY <1>1
    <2> DEFINE new == [j EXCEPT ![k] = o]
    <2>3. new[k] = o /\ \A l \in Key \ {k} : new[l] = j[l]
      BY <1>3
    <2> HIDE DEF v, a, new
    <2>4. SetEntry(IndexOf(j, a, Namespace), v, k, o) = IndexOf(new, a, Namespace)
      BY <1>3, <1>4, <2>1, <2>2, <2>3, EntryIsSet
    <2> QED
      BY <2>4 DEF v, a, new
  <1>6. SetEntry(IndexOf(j, "kind", Kind), f.kind, k, o) = IndexOf([j EXCEPT ![k] = o], "kind", Kind)
    <2> DEFINE v == f.kind
               a == "kind"
    <2>1. (o # None => o[a] = v) /\ (j[k] # None => j[k][a] = v)
      BY <1>1, <1>2, <1>3
    <2>2. v \in Kind \cup {Blank} /\ a \in {"namespace", "kind"}
      BY <1>1
    <2> DEFINE new == [j EXCEPT ![k] = o]
    <2>3. new[k] = o /\ \A l \in Key \ {k} : new[l] = j[l]
      BY <1>3
    <2> HIDE DEF v, a, new
    <2>4. SetEntry(IndexOf(j, a, Kind), v, k, o) = IndexOf(new, a, Kind)
      BY <1>3, <1>4, <2>1, <2>2, <2>3, EntryIsSet
    <2> QED
      BY <2>4 DEF v, a, new
  <1> QED
    BY <1>5, <1>6

(* Changing one key keeps items filed. *)
LEMMA FiledExcept ==
  ASSUME NEW i \in Filed, NEW k \in Key, NEW o \in Object \cup {None}, o # None => o.key = k
  PROVE  [i EXCEPT ![k] = o] \in Filed
  BY DEF Filed

(* Add of the store (store.go). *)
LEMMA AddStored ==
  ASSUME NEW i \in Filed, NEW j \in Filed, NEW o \in Object, NEW e
  PROVE  Add(Stored(i, j, e), o.key, o)
           = Stored([i EXCEPT ![o.key] = o], [j EXCEPT ![o.key] = o], e \ {o.key})
  <1> DEFINE k == o.key
             x == IndexOf(j, "namespace", Namespace)
             y == IndexOf(j, "kind", Kind)
             new == [i EXCEPT ![k] = o]
  <1>1. k \in Key
    BY ObjectFits
  <1>3. SetItem(Holding(i, x, y, e), k, o) = Holding(new, x, y, e \ {k})
    BY DEF SetItem, Holding
  <1>4. Add(Stored(i, j, e), k, o)
          = Holding(new, SetEntry(x, o.namespace, k, o), SetEntry(y, o.kind, k, o), e \ {k})
    <2> DEFINE d == e \ {k}
    <2>1. AddToIndex(Holding(new, x, y, d), k, o)
            = Holding(new, SetEntry(x, o.namespace, k, o), SetEntry(y, o.kind, k, o), d)
      BY DEF AddToIndex, Holding
    <2> HIDE DEF x, y, new, d
    <2> QED
      BY <1>3, <2>1 DEF Add, Stored, x, y, d
  <1>5. /\ SetEntry(x, o.namespace, k, o) = IndexOf([j EXCEPT ![k] = o], "namespace", Namespace)
        /\ SetEntry(y, o.kind, k, o) = IndexOf([j EXCEPT ![k] = o], "kind", Kind)
    BY <1>1, IndicesAreSet
  <1> QED
    BY <1>4, <1>5 DEF Stored

(* What an object was indexed under is taken back. *)
LEMMA RemoveStored ==
  ASSUME NEW i \in Filed, NEW j \in Filed, NEW o \in Object, NEW e
  PROVE  RemoveFromIndex(Stored(i, j, e), o.key, o) = Stored(i, [j EXCEPT ![o.key] = None], e)
  <1> DEFINE k == o.key
             x == IndexOf(j, "namespace", Namespace)
             y == IndexOf(j, "kind", Kind)
  <1>1. k \in Key
    BY ObjectFits
  <1>2. RemoveFromIndex(Holding(i, x, y, e), k, o)
          = Holding(i, SetEntry(x, o.namespace, k, None), SetEntry(y, o.kind, k, None), e)
    BY DEF RemoveFromIndex, Holding
  <1>3. /\ SetEntry(x, o.namespace, k, None) = IndexOf([j EXCEPT ![k] = None], "namespace", Namespace)
        /\ SetEntry(y, o.kind, k, None) = IndexOf([j EXCEPT ![k] = None], "kind", Kind)
    BY <1>1, IndicesAreSet
  <1> QED
    BY <1>2, <1>3 DEF Stored

(* The operations of a store whose indices are right leave them right. *)
LEMMA StoreChanges ==
  ASSUME NEW i \in Filed, NEW e
  PROVE  /\ \A o \in Object : Add(Indexed(i, e), o.key, o) = Indexed([i EXCEPT ![o.key] = o], e \ {o.key})
         /\ \A o \in Object : Update(Indexed(i, e), o.key, o) = Indexed([i EXCEPT ![o.key] = o], e \ {o.key})
         /\ \A k \in Key : Delete(Indexed(i, e), k) = Indexed([i EXCEPT ![k] = None], e \ {k})
  <1>1. \A j, d : Indexed(j, d) = Stored(j, j, d)
    BY DEF Indexed
  <1>2. \A k \in Key : i[k] # None => i[k] \in Object /\ i[k].key = k
    BY DEF Filed
  <1>3. \A j, l, d : Stored(j, l, d).items = j
    BY DEF Stored, Holding
  <1>4. ASSUME NEW k \in Key
        PROVE  /\ [i EXCEPT ![k] = None] \in Filed
               /\ i[k] # None => Unindexed(Indexed(i, e), k) = Stored(i, [i EXCEPT ![k] = None], e)
               /\ i[k] = None => Unindexed(Indexed(i, e), k) = Stored(i, i, e) /\ [i EXCEPT ![k] = None] = i
    <2>1. [i EXCEPT ![k] = None] \in Filed
      BY FiledExcept
    <2>2. Unindexed(Indexed(i, e), k)
            = IF i[k] = None THEN Stored(i, i, e) ELSE RemoveFromIndex(Stored(i, i, e), k, i[k])
      BY <1>1, <1>3 DEF Unindexed, Get
    <2>3. i[k] # None => RemoveFromIndex(Stored(i, i, e), k, i[k]) = Stored(i, [i EXCEPT ![k] = None], e)
      BY <1>2, RemoveStored
    <2>4. i[k] = None => [i EXCEPT ![k] = None] = i
      BY DEF Filed
    <2> QED
      BY <2>1, <2>2, <2>3, <2>4
  <1>5. ASSUME NEW o \in Object
        PROVE  Add(Indexed(i, e), o.key, o) = Indexed([i EXCEPT ![o.key] = o], e \ {o.key})
    <2>1. [i EXCEPT ![o.key] = o] \in Filed
      BY ObjectFits, FiledExcept
    <2> QED
      BY <1>1, <2>1, AddStored
  <1>6. ASSUME NEW o \in Object
        PROVE  Update(Indexed(i, e), o.key, o) = Indexed([i EXCEPT ![o.key] = o], e \ {o.key})
    <2>1. o.key \in Key /\ [i EXCEPT ![o.key] = o] \in Filed
      BY ObjectFits, FiledExcept
    <2>2. CASE i[o.key] = None
      <3>1. Update(Indexed(i, e), o.key, o) = Add(Stored(i, i, e), o.key, o)
        BY <1>4, <2>1, <2>2 DEF Update
      <3>2. Add(Stored(i, i, e), o.key, o) = Stored([i EXCEPT ![o.key] = o], [i EXCEPT ![o.key] = o], e \ {o.key})
        BY AddStored
      <3> QED
        BY <1>1, <2>1, <3>1, <3>2
    <2>3. CASE i[o.key] # None
      <3> DEFINE j == [i EXCEPT ![o.key] = None]
      <3>1. j \in Filed /\ Unindexed(Indexed(i, e), o.key) = Stored(i, j, e)
        BY <1>4, <2>1, <2>3
      <3>2. [j EXCEPT ![o.key] = o] = [i EXCEPT ![o.key] = o]
        BY <2>1 DEF Filed
      <3> HIDE DEF j
      <3>3. Add(Stored(i, j, e), o.key, o) = Stored([i EXCEPT ![o.key] = o], [j EXCEPT ![o.key] = o], e \ {o.key})
        BY <3>1, AddStored
      <3> QED
        BY <1>1, <2>1, <3>1, <3>2, <3>3 DEF Update
    <2> QED
      BY <2>2, <2>3
  <1>7. ASSUME NEW k \in Key
        PROVE  Delete(Indexed(i, e), k) = Indexed([i EXCEPT ![k] = None], e \ {k})
    <2> DEFINE j == [i EXCEPT ![k] = None]
    <2>1. j \in Filed /\ Unindexed(Indexed(i, e), k) = Stored(i, j, e)
      BY <1>4
    <2>2. SetItem(Stored(i, j, e), k, None) = Stored(j, j, e \ {k})
      BY DEF SetItem, Stored, Holding
    <2> QED
      BY <1>1, <2>1, <2>2 DEF Delete
  <1> QED
    BY <1>5, <1>6, <1>7

----------------------------------------------------------------------------
(* The invariant. *)

Removal == [key : Key, put : {FALSE}, rev : Nat]

AnyEvent ==
    {e \in [type : {"ADDED", "MODIFIED", "DELETED", "ERROR"}, object : Objects \cup {None}] :
        e.type \in {"ADDED", "MODIFIED"} <=> e.object # None}

HistoryOK == history \in Seq(Object \cup Removal)

FeedOK ==
    /\ connected \in BOOLEAN
    /\ announce \subseteq Objects /\ next \in 0 .. Len(history) + 1
    /\ resultChan \in Seq(AnyEvent) /\ Len(resultChan) <= Cap

Pcs == {"list", "adding", "start", "watch", "resync", "ended"} \cup Ended

Changes == [what : What, old : Object \cup {None}, new : Object \cup {None}]

RunOK ==
    /\ pc \in Pcs /\ synced \in BOOLEAN
    /\ batch \subseteq Objects /\ listed \subseteq Key

(* The indices are right, each item is something that was put at its key,  *)
(* and only what is there is edited.                                       *)
ItemsOK ==
    /\ store = Indexed(store.items, store.edited) /\ store.items \in Filed
    /\ store.items \in [Key -> Objects \cup {None}]
    /\ store.edited \subseteq ListKeys(store)

(* What is to be told has happened to the store. *)
NoticeOK ==
    /\ notice \in {None} \cup Changes
    /\ notice # None =>
          NoticeKey \in Key /\ notice.new \in Objects \cup {None} /\ store.items[NoticeKey] = notice.new

(* A replay is that of a handler whose goroutine has read the store. *)
HandlersOK ==
    /\ joined \in [Handler -> Joining]
    /\ told \in [Handler -> [Key -> Objects \cup {None}]]
    /\ replay \in [Handler -> SUBSET Objects]
    /\ \A h \in Handler : replay[h] # {} => joined[h] = "reading"

(* Early handlers know the store but for the change that is to be told. *)
EarlyKnow ==
    \A h \in Early : \A k \in Key :
        notice = None \/ k # NoticeKey => told[h][k] = store.items[k]

(* A late handler has heard of a key, or will: by its replay or the notice. *)
LateHear ==
    \A h \in Handler : joined[h] = "reading" => \A k \in ListKeys(store) :
        \/ told[h][k] # None
        \/ \E o \in replay[h] : o.key = k
        \/ notice # None /\ NoticeKey = k

(* A reflector tells nobody. *)
DriverOK ==
    /\ driver \in {"informer", "reflector"}
    /\ driver = "reflector" => notice = None /\ Registered = {}

IInv ==
    /\ HistoryOK /\ FeedOK /\ RunOK /\ ItemsOK
    /\ NoticeOK /\ HandlersOK /\ EarlyKnow /\ LateHear /\ DriverOK

(* What the operations of the store make of it now. *)
LEMMA StoreChangesNow ==
  ASSUME ItemsOK
  PROVE  /\ \A o \in Object :
                /\ Add(store, o.key, o) = Indexed([store.items EXCEPT ![o.key] = o], store.edited \ {o.key})
                /\ Update(store, o.key, o) = Indexed([store.items EXCEPT ![o.key] = o], store.edited \ {o.key})
         /\ \A k \in Key : Delete(store, k) = Indexed([store.items EXCEPT ![k] = None], store.edited \ {k})
  <1> DEFINE i == store.items
             e == store.edited
  <1>1. store = Indexed(i, e) /\ i \in Filed
    BY DEF ItemsOK
  <1> HIDE DEF i, e
  <1>2. /\ \A o \in Object : Add(Indexed(i, e), o.key, o) = Indexed([i EXCEPT ![o.key] = o], e \ {o.key})
        /\ \A o \in Object : Update(Indexed(i, e), o.key, o) = Indexed([i EXCEPT ![o.key] = o], e \ {o.key})
        /\ \A k \in Key : Delete(Indexed(i, e), k) = Indexed([i EXCEPT ![k] = None], e \ {k})
    BY <1>1, StoreChanges
  <1>3. /\ \A o \in Object : Add(store, o.key, o) = Indexed([i EXCEPT ![o.key] = o], e \ {o.key})
        /\ \A o \in Object : Update(store, o.key, o) = Indexed([i EXCEPT ![o.key] = o], e \ {o.key})
        /\ \A k \in Key : Delete(store, k) = Indexed([i EXCEPT ![k] = None], e \ {k})
    BY <1>1, <1>2
  <1> QED
    BY <1>3 DEF i, e

----------------------------------------------------------------------------
(* Facts about the feed. *)

(* What was put are objects. *)
LEMMA ObjectsAre ==
  ASSUME HistoryOK
  PROVE  Objects \subseteq Object /\ None \notin Objects
  <1>1. ASSUME NEW r \in 1 .. Len(history), history[r].put PROVE history[r] \in Object
    <2>1. history[r] \in Object \cup Removal
      BY DEF HistoryOK
    <2>2. history[r] \notin Removal
      BY <1>1 DEF Removal
    <2> QED
      BY <2>1, <2>2
  <1> QED
    BY <1>1, ObjectFits DEF Objects, Revisions

(* A write leaves what was put before. *)
LEMMA ObjectsGrow ==
  ASSUME HistoryOK, NEW w \in Object \cup Removal, history' = Append(history, w)
  PROVE  HistoryOK' /\ Objects \subseteq Objects' /\ Len(history') = Len(history) + 1
  <1>1. /\ Len(history) \in Nat /\ Len(history') = Len(history) + 1
        /\ \A r \in 1 .. Len(history) : history'[r] = history[r]
    BY DEF HistoryOK
  <1>2. HistoryOK'
    BY DEF HistoryOK
  <1> QED
    BY <1>1, <1>2 DEF Objects, Revisions

(* What etcd holds was put at that key. *)
LEMMA CurrentWasPut ==
  ASSUME HistoryOK, NEW k \in Key
  PROVE  Current(k) \in Objects \cup {None} /\ (Current(k) # None => Current(k).key = k)
  <1>1. CASE \E r \in Last(k) : history[r].put
    <2>1. PICK r \in Last(k) : history[r].put
      BY <1>1
    <2>2. \A q \in Last(k) : q = r
      BY DEF Last, Revisions, HistoryOK
    <2>3. Current(k) = history[r]
      BY <1>1, <2>1, <2>2 DEF Current
    <2> QED
      BY <2>1, <2>3 DEF Last, Objects
  <1> QED
    BY <1>1 DEF Current

(* So are the lists of the server. *)
LEMMA ListsWerePut ==
  ASSUME HistoryOK
  PROVE  Existing \subseteq Objects /\ Listing \subseteq Objects
  BY CurrentWasPut DEF Existing, Listing

(* An event carries what was put, if anything. *)
LEMMA EventsCarry ==
  ASSUME HistoryOK, NEW r \in Revisions
  PROVE  EventOf(r) \in AnyEvent
  <1>1. CASE history[r].put
    <2>1. history[r] \in Objects /\ history[r] # None
      BY <1>1, ObjectsAre DEF Objects
    <2> QED
      BY <1>1, <2>1 DEF EventOf, AnyEvent
  <1>2. CASE ~history[r].put
    BY <1>2 DEF EventOf, AnyEvent
  <1> QED
    BY <1>1, <1>2

----------------------------------------------------------------------------
(* What a step changes, and why that keeps the invariant. *)

(* Nothing is there at the start. *)
LEMMA InvInit == Init => IInv
  <1> SUFFICES ASSUME Init PROVE IInv
    OBVIOUS
  <1>1. HistoryOK /\ FeedOK
    <2>1. history = <<>> /\ connected = FALSE /\ announce = {} /\ next = 0 /\ resultChan = <<>>
      BY DEF Init, FeedInit
    <2>2. \A S : <<>> \in Seq(S)
      OBVIOUS
    <2>3. Len(<<>>) = 0 /\ 0 \in 0 .. Len(<<>>) + 1 /\ 0 <= Cap
      BY FeedAssumption
    <2>4. HistoryOK
      BY <2>1, <2>2 DEF HistoryOK
    <2>5. FeedOK
      BY <2>1, <2>2, <2>3 DEF FeedOK
    <2> QED
      BY <2>4, <2>5
  <1>2. store = EmptyStore /\ pc = "list" /\ batch = {} /\ listed = {} /\ notice = None /\ synced = FALSE
    BY DEF Init, InformerInit
  <1>3. EmptyStore.items = Nothing /\ EmptyStore.edited = {}
    BY DEF EmptyStore, Holding
  <1>4. EmptyStore = Indexed(Nothing, {})
    <2>1. \A a, v : Having(Nothing, a, v) = Nothing
      BY DEF Having, Nothing
    <2> QED
      BY <2>1, IndexedIs DEF EmptyStore, Replace
  <1>5. Nothing \in Filed /\ Nothing \in [Key -> Objects \cup {None}]
    BY DEF Nothing, Filed
  <1>6. ItemsOK
    BY <1>2, <1>3, <1>4, <1>5 DEF ItemsOK
  <1>7. RunOK /\ NoticeOK
    BY <1>2 DEF RunOK, NoticeOK, Pcs
  <1>8. /\ joined \in [Handler -> {"no", "before"}]
        /\ told = [h \in Handler |-> Nothing] /\ replay = [h \in Handler |-> {}]
    BY DEF Init, InformerInit
  <1>9. HandlersOK
    BY <1>5, <1>8 DEF HandlersOK, Joining
  <1>10. EarlyKnow /\ LateHear
    BY <1>2, <1>3, <1>8 DEF EarlyKnow, LateHear, Early
  <1>11. DriverOK
    BY <1>2 DEF Init, DriverOK
  <1> QED
    BY <1>1, <1>6, <1>7, <1>9, <1>10, <1>11 DEF IInv

(* Only the feed moves. *)
LEMMA FeedMoves ==
  ASSUME IInv, HistoryOK', FeedOK', Objects \subseteq Objects', UNCHANGED <<informerVars, driver>>
  PROVE  IInv'
  <1> USE DEF informerVars, cacheVars, handlerVars
  <1>1. RunOK' /\ ItemsOK'
    BY DEF IInv, RunOK, ItemsOK
  <1>2. NoticeOK'
    BY DEF IInv, NoticeOK, NoticeKey
  <1>3. HandlersOK'
    <2>1. \A h \in Handler : told[h] \in [Key -> Objects' \cup {None}] /\ replay[h] \subseteq Objects'
      BY DEF IInv, HandlersOK
    <2> QED
      BY <2>1 DEF IInv, HandlersOK
  <1>4. EarlyKnow' /\ LateHear' /\ DriverOK'
    BY DEF IInv, EarlyKnow, LateHear, DriverOK, Early, Registered, NoticeKey, ListKeys
  <1> QED
    BY <1>1, <1>2, <1>3, <1>4 DEF IInv

(* The goroutine moves, and neither the store nor a handler does. *)
LEMMA RunMoves ==
  ASSUME IInv, FeedOK', RunOK', UNCHANGED <<history, store, notice, handlerVars, driver>>
  PROVE  IInv'
  <1> USE DEF handlerVars
  <1>1. Objects' = Objects
    BY DEF Objects, Revisions
  <1>2. HistoryOK' /\ ItemsOK' /\ NoticeOK' /\ HandlersOK'
    BY <1>1 DEF IInv, HistoryOK, ItemsOK, NoticeOK, NoticeKey, HandlersOK
  <1>3. EarlyKnow' /\ LateHear' /\ DriverOK'
    BY DEF IInv, EarlyKnow, LateHear, DriverOK, Early, Registered, NoticeKey, ListKeys
  <1> QED
    BY <1>2, <1>3 DEF IInv

(* The store changes at one key, and the handlers are to be told of that. *)
LEMMA StoreMoves ==
  ASSUME IInv, FeedOK', RunOK', driver = "informer", notice = None,
         UNCHANGED <<history, handlerVars, driver>>,
         NEW k \in Key, NEW o \in Objects \cup {None}, o # None => o.key = k,
         store' = Indexed([store.items EXCEPT ![k] = o], store.edited \ {k}),
         notice' \in Changes, NoticeKey' = k, notice'.new = o
  PROVE  IInv'
  <1> USE DEF handlerVars
  <1> DEFINE i == [store.items EXCEPT ![k] = o]
  <1>1. Objects' = Objects
    BY DEF Objects, Revisions
  <1>2. o \in Object \cup {None}
    BY ObjectsAre DEF IInv
  <1>3. i \in Filed /\ i \in [Key -> Objects \cup {None}]
    BY <1>2, FiledExcept DEF IInv, ItemsOK
  <1>4. store'.items = i /\ store'.edited = store.edited \ {k} /\ store' = Indexed(i, store.edited \ {k})
    BY IndexedIs
  <1>5. i[k] = o /\ \A l \in Key \ {k} : i[l] = store.items[l]
    BY DEF IInv, ItemsOK
  <1>6. ItemsOK'
    <2>1. store'.edited \subseteq ListKeys(store')
      BY <1>4, <1>5 DEF IInv, ItemsOK, ListKeys
    <2> QED
      BY <1>1, <1>3, <1>4, <2>1 DEF ItemsOK
  <1>7. notice' # None
    BY ChangeAssumption DEF Changes
  <1> HIDE DEF i
  <1>8. NoticeOK'
    BY <1>1, <1>4, <1>5 DEF NoticeOK
  <1>9. HistoryOK' /\ HandlersOK'
    BY <1>1 DEF IInv, HistoryOK, HandlersOK
  <1>10. EarlyKnow'
    <2>1. \A h \in Early : \A l \in Key : told[h][l] = store.items[l]
      BY DEF IInv, EarlyKnow
    <2>2. Early' = Early
      BY DEF Early
    <2>3. \A h \in Early' : \A l \in Key : l # k => told'[h][l] = store'.items[l]
      BY <1>4, <1>5, <2>1, <2>2
    <2> QED
      BY <1>7, <2>3 DEF EarlyKnow
  <1>11. LateHear'
    <2> SUFFICES ASSUME NEW h \in Handler, joined[h] = "reading", NEW l \in Key, i[l] # None
                 PROVE  told[h][l] # None \/ (\E p \in replay[h] : p.key = l) \/ l = k
      BY <1>4, <1>7 DEF LateHear, ListKeys
    <2> QED
      BY <1>5 DEF IInv, LateHear, ListKeys
  <1>12. DriverOK'
    BY DEF IInv, DriverOK
  <1> QED
    BY <1>6, <1>8, <1>9, <1>10, <1>11, <1>12 DEF IInv

(* The reflector moves; it has nobody to tell. *)
LEMMA ReflectorMoves ==
  ASSUME IInv, FeedOK', RunOK', ItemsOK', driver = "reflector",
         UNCHANGED <<history, notice, handlerVars, driver>>
  PROVE  IInv'
  <1> USE DEF handlerVars
  <1>1. Objects' = Objects
    BY DEF Objects, Revisions
  <1>2. notice = None /\ \A h \in Handler : joined[h] = "no"
    BY DEF IInv, DriverOK, Registered
  <1>3. HistoryOK' /\ HandlersOK'
    BY <1>1 DEF IInv, HistoryOK, HandlersOK
  <1>4. NoticeOK' /\ EarlyKnow' /\ LateHear' /\ DriverOK'
    BY <1>2 DEF IInv, NoticeOK, EarlyKnow, LateHear, DriverOK, Early, Registered
  <1> QED
    BY <1>3, <1>4 DEF IInv

----------------------------------------------------------------------------
(* The writes and the watch. *)

(* Somebody writes. *)
LEMMA WritesKeep ==
  ASSUME IInv, Writes, UNCHANGED <<informerVars, driver>>
  PROVE  IInv'
  <1>1. UNCHANGED <<connected, announce, next, resultChan>>
    BY DEF Writes, Put, Remove
  <1>2. PICK w \in Object \cup Removal : history' = Append(history, w)
    <2>1. CASE \E k \in Key : Remove(k)
      <3>1. PICK k \in Key : Remove(k)
        BY <2>1
      <3> DEFINE w == [key |-> k, put |-> FALSE, rev |-> Len(history) + 1]
      <3>2. Len(history) + 1 \in Nat
        BY DEF IInv, HistoryOK
      <3>3. w \in Removal
        BY <3>2 DEF Removal
      <3> QED
        BY <3>1, <3>3 DEF Remove
    <2>2. CASE \E k \in Key, t \in 0 .. MaxTime : Put(k, t)
      <3>1. PICK k \in Key, t \in 0 .. MaxTime : Put(k, t)
        BY <2>2
      <3> DEFINE w == [key |-> k, put |-> TRUE, rev |-> Len(history) + 1,
                       namespace |-> KeyNamespace[k], kind |-> KeyKind[k], updatedAt |-> t]
      <3>2. t \in Nat /\ Len(history) + 1 \in Nat
        BY FeedAssumption DEF IInv, HistoryOK
      <3>3. w \in Object
        BY <3>2, FeedAssumption DEF Object
      <3> QED
        BY <3>1, <3>3 DEF Put
    <2> QED
      BY <2>1, <2>2 DEF Writes
  <1>3. HistoryOK' /\ Objects \subseteq Objects' /\ Len(history') = Len(history) + 1
    BY <1>2, ObjectsGrow DEF IInv
  <1>4. AnyEvent \subseteq AnyEvent'
    BY <1>3 DEF AnyEvent
  <1>5. resultChan \in Seq(AnyEvent')
    BY <1>4 DEF IInv, FeedOK
  <1>6. FeedOK'
    <2>1. Len(history) \in Nat
      BY DEF IInv, HistoryOK
    <2> QED
      BY <1>1, <1>3, <1>5, <2>1 DEF IInv, FeedOK
  <1> QED
    BY <1>3, <1>6, FeedMoves

(* A step of the watch leaves what a feed has. *)
LEMMA WatchKeepsFeed ==
  ASSUME IInv, Watching \/ Lose
  PROVE  FeedOK' /\ history' = history
  <1>1. history' = history
    BY DEF Watching, Connect, Deliver, Disconnect, Lose
  <1>2. Objects' = Objects /\ AnyEvent' = AnyEvent
    BY <1>1 DEF Objects, Revisions, AnyEvent
  <1>3. Len(history) \in Nat /\ FeedOK
    BY DEF IInv, HistoryOK
  <1>4. ASSUME NEW e, NextLine(e)
        PROVE  announce' \subseteq Objects /\ next' \in 0 .. Len(history) + 1
    BY <1>3, <1>4 DEF NextLine, FeedOK
  <1>5. CASE Connect
    <2>1. announce' \subseteq Objects
      BY <1>5, ListsWerePut DEF Connect, IInv
    <2> QED
      BY <1>1, <1>2, <1>3, <1>5, <2>1 DEF Connect, FeedOK
  <1>6. CASE Deliver
    <2>1. PICK e \in Events : NextLine(e) /\ resultChan' = Append(resultChan, e)
      BY <1>6 DEF Deliver
    <2>2. e \in AnyEvent
      BY EventsCarry DEF Events, IInv
    <2>3. resultChan' \in Seq(AnyEvent) /\ Len(resultChan') = Len(resultChan) + 1
      BY <1>3, <2>1, <2>2 DEF FeedOK
    <2>4. Len(resultChan) < Cap /\ connected' = connected
      BY <1>6 DEF Deliver
    <2>5. Len(resultChan') <= Cap
      BY <1>3, <2>3, <2>4, FeedAssumption DEF FeedOK
    <2> QED
      BY <1>1, <1>2, <1>3, <1>4, <2>1, <2>3, <2>4, <2>5 DEF FeedOK
  <1>7. CASE Disconnect
    <2>1. ErrorEvent \in AnyEvent
      BY DEF ErrorEvent, AnyEvent
    <2>2. resultChan' \in Seq(AnyEvent) /\ Len(resultChan') <= Cap
      BY <1>3, <1>7, <2>1, FeedAssumption DEF Disconnect, FeedOK
    <2>3. announce' = {} /\ next' = 0 /\ connected' = FALSE
      BY <1>7 DEF Disconnect
    <2>4. 0 \in 0 .. Len(history') + 1
      BY <1>1, <1>3
    <2>5. connected' \in BOOLEAN /\ announce' \subseteq Objects' /\ next' \in 0 .. Len(history') + 1
      BY <2>3, <2>4
    <2> QED
      BY <1>1, <1>2, <2>2, <2>5 DEF FeedOK
  <1>8. CASE Lose
    BY <1>1, <1>2, <1>3, <1>4, <1>8 DEF Lose, FeedOK
  <1> QED
    BY <1>1, <1>5, <1>6, <1>7, <1>8 DEF Watching

(* The watch moves. *)
LEMMA WatchKeeps ==
  ASSUME IInv, Watching \/ Lose, UNCHANGED <<informerVars, driver>>
  PROVE  IInv'
  <1>1. FeedOK' /\ history' = history
    BY WatchKeepsFeed
  <1>2. HistoryOK' /\ Objects' = Objects
    BY <1>1 DEF IInv, HistoryOK, Objects, Revisions
  <1> QED
    BY <1>1, <1>2, FeedMoves

----------------------------------------------------------------------------
(* What both goroutines do with the watch. *)

(* A new watch has an empty channel. *)
LEMMA NewWatchKeepsFeed ==
  ASSUME IInv, NewWatch, history' = history
  PROVE  FeedOK'
  <1>1. connected' = FALSE /\ announce' = {} /\ next' = 0 /\ resultChan' = <<>>
    BY DEF NewWatch
  <1>2. Len(history) \in Nat
    BY DEF IInv, HistoryOK
  <1>3. 0 \in 0 .. Len(history') + 1
    BY <1>2
  <1>4. Len(<<>>) <= Cap /\ <<>> \in Seq(AnyEvent')
    BY FeedAssumption
  <1>5. connected' \in BOOLEAN /\ announce' \subseteq Objects' /\ next' \in 0 .. Len(history') + 1
    BY <1>1, <1>3
  <1>6. resultChan' \in Seq(AnyEvent') /\ Len(resultChan') <= Cap
    BY <1>1, <1>4
  <1> QED
    BY <1>5, <1>6 DEF FeedOK

(* The channel without its first event, and what that event is. *)
LEMMA TakeKeepsFeed ==
  ASSUME IInv, resultChan # <<>>, resultChan' = Tail(resultChan),
         UNCHANGED <<history, connected, announce, next>>
  PROVE  FeedOK' /\ Head(resultChan) \in AnyEvent
  <1>1. Objects' = Objects /\ AnyEvent' = AnyEvent
    BY DEF Objects, Revisions, AnyEvent
  <1>2. resultChan \in Seq(AnyEvent) /\ Len(resultChan) <= Cap
    BY DEF IInv, FeedOK
  <1>3. Tail(resultChan) \in Seq(AnyEvent) /\ Head(resultChan) \in AnyEvent
        /\ Len(Tail(resultChan)) <= Cap
    BY <1>2, FeedAssumption
  <1> QED
    BY <1>1, <1>3 DEF IInv, FeedOK

(* The feed stays as it is. *)
LEMMA FeedStays ==
  ASSUME IInv, UNCHANGED <<history, connected, announce, next, resultChan>>
  PROVE  FeedOK'
  <1>1. Objects' = Objects /\ AnyEvent' = AnyEvent
    BY DEF Objects, Revisions, AnyEvent
  <1> QED
    BY <1>1 DEF IInv, FeedOK

----------------------------------------------------------------------------
(* The informer. *)

(* What a change is made of. *)
LEMMA ChangeIs ==
  ASSUME NEW what \in What, NEW old \in Object \cup {None}, NEW new \in Object \cup {None}
  PROVE  /\ Change(what, old, new) \in Changes
         /\ Change(what, old, new).old = old /\ Change(what, old, new).new = new
  BY DEF Change, Changes

(* An object is added or updated; the handlers are to be told. *)
LEMMA ObjectArrives ==
  ASSUME IInv, FeedOK', RunOK', driver = "informer", notice = None,
         UNCHANGED <<history, handlerVars, driver>>,
         NEW o \in Objects, AddAndNotify(o) \/ UpdateAndNotify(o)
  PROVE  IInv'
  <1>1. o \in Object /\ o.key \in Key /\ o # None
    BY ObjectsAre, ObjectFits DEF IInv
  <1>2. store = Indexed(store.items, store.edited) /\ store.items \in Filed
    BY DEF IInv, ItemsOK
  <1>3. store' = Indexed([store.items EXCEPT ![o.key] = o], store.edited \ {o.key})
    BY <1>1, StoreChangesNow DEF AddAndNotify, UpdateAndNotify, IInv
  <1>4. PICK what \in What, old \in Object \cup {None} : notice' = Change(what, old, o)
    <2>1. Get(store, o.key) \in Object \cup {None}
      BY <1>1, <1>2 DEF Get, Filed
    <2>2. notice' = Change("add", None, o) \/ notice' = Change("update", Get(store, o.key), o)
      BY DEF AddAndNotify, UpdateAndNotify
    <2> QED
      BY <1>1, <2>1, <2>2 DEF What
  <1>5. notice' \in Changes /\ notice'.new = o
    BY <1>1, <1>4, ChangeIs
  <1>6. NoticeKey' = o.key
    BY <1>1, <1>5 DEF NoticeKey
  <1> QED
    BY <1>1, <1>3, <1>5, <1>6, StoreMoves

(* A key goes, and the handlers are to be told. *)
LEMMA ObjectLeaves ==
  ASSUME IInv, FeedOK', RunOK', driver = "informer", notice = None,
         UNCHANGED <<history, handlerVars, driver>>,
         NEW k \in ListKeys(store), DeleteAndNotify(k)
  PROVE  IInv'
  <1>1. store = Indexed(store.items, store.edited) /\ store.items \in Filed
    BY DEF IInv, ItemsOK
  <1>2. k \in Key /\ store.items[k] # None /\ store.items[k] \in Object /\ store.items[k].key = k
    BY <1>1 DEF ListKeys, Filed
  <1>3. store' = Indexed([store.items EXCEPT ![k] = None], store.edited \ {k})
    BY <1>2, StoreChangesNow DEF DeleteAndNotify, IInv
  <1>4. notice' = Change("delete", store.items[k], None)
    BY DEF DeleteAndNotify, Get
  <1>5. notice' \in Changes /\ notice'.new = None /\ notice'.old = store.items[k]
    <2>1. "delete" \in What
      BY DEF What
    <2> QED
      BY <1>2, <1>4, <2>1, ChangeIs
  <1>6. NoticeKey' = k
    BY <1>2, <1>5 DEF NoticeKey
  <1> QED
    BY <1>2, <1>3, <1>5, <1>6, StoreMoves

(* The steps of Run. *)
LEMMA RunKeeps ==
  ASSUME IInv, driver = "informer", driver' = driver, Run
  PROVE  IInv'
  <1> USE DEF Steady
  <1>0. RunOK /\ Listing \subseteq Objects /\ (history' = history => Objects' = Objects)
    BY ListsWerePut DEF IInv, Objects, Revisions
  <1>1. CASE InitialList
    <2>1. FeedOK'
      BY <1>1, FeedStays DEF InitialList, feedVars
    <2>2. RunOK'
      BY <1>0, <1>1 DEF InitialList, RunOK, Pcs, feedVars
    <2> QED
      BY <1>1, <2>1, <2>2, RunMoves DEF InitialList, feedVars
  <1>2. CASE ListFails
    <2>1. FeedOK'
      BY <1>2, FeedStays DEF ListFails
    <2>2. RunOK'
      BY <1>0, <1>2 DEF ListFails, RunOK, Pcs, Ended
    <2> QED
      BY <1>2, <2>1, <2>2, RunMoves DEF ListFails
  <1>3. CASE AddListed
    <2>1. FeedOK'
      BY <1>3, FeedStays DEF AddListed, feedVars
    <2>2. RunOK'
      BY <1>0, <1>3 DEF AddListed, RunOK, feedVars
    <2>3. PICK o \in batch : AddAndNotify(o)
      BY <1>3 DEF AddListed
    <2>4. o \in Objects
      BY <1>0 DEF RunOK
    <2>5. notice = None /\ UNCHANGED <<history, handlerVars>>
      BY <1>3 DEF AddListed, feedVars
    <2> QED
      BY <2>1, <2>2, <2>3, <2>4, <2>5, ObjectArrives
  <1>4. CASE StartWatch
    <2>1. FeedOK'
      BY <1>4, NewWatchKeepsFeed DEF StartWatch
    <2>2. RunOK'
      BY <1>0, <1>4 DEF StartWatch, RunOK, Pcs
    <2> QED
      BY <1>4, <2>1, <2>2, RunMoves DEF StartWatch
  <1>5. CASE Receive
    <2> DEFINE e == Head(resultChan)
    <2>1. FeedOK' /\ e \in AnyEvent
      BY <1>5, TakeKeepsFeed DEF Receive
    <2>2. RunOK' /\ notice = None /\ UNCHANGED <<history, handlerVars>>
      BY <1>0, <1>5 DEF Receive, RunOK
    <2>3. CASE UNCHANGED <<store, notice>>
      BY <2>1, <2>2, <2>3, RunMoves
    <2>4. CASE e.object # None /\ (AddAndNotify(e.object) \/ UpdateAndNotify(e.object))
      <3>1. e.object \in Objects
        BY <2>1, <2>4 DEF AnyEvent
      <3> QED
        BY <2>1, <2>2, <2>4, <3>1, ObjectArrives
    <2> QED
      BY <1>5, <2>3, <2>4 DEF Receive, HandleWatchEvent
  <1>6. CASE Resync
    <2>1. FeedOK'
      BY <1>6, FeedStays DEF Resync, feedVars
    <2>2. Keys(Listing) \subseteq Key
      BY <1>0, ObjectsAre, ObjectFits DEF Keys, IInv
    <2>3. RunOK'
      BY <1>0, <1>6, <2>2 DEF Resync, RunOK, Pcs, feedVars
    <2> QED
      BY <1>6, <2>1, <2>3, RunMoves DEF Resync, feedVars
  <1>7. CASE ResyncItem
    <2>1. FeedOK'
      BY <1>7, FeedStays DEF ResyncItem, feedVars
    <2>2. PICK o \in batch : UNCHANGED <<store, notice>> \/ AddAndNotify(o) \/ UpdateAndNotify(o)
      BY <1>7 DEF ResyncItem
    <2>3. RunOK'
      BY <1>0, <1>7 DEF ResyncItem, RunOK, feedVars
    <2>4. o \in Objects /\ notice = None /\ UNCHANGED <<history, handlerVars>>
      BY <1>0, <1>7 DEF RunOK, ResyncItem, feedVars
    <2> QED
      BY <2>1, <2>2, <2>3, <2>4, RunMoves, ObjectArrives
  <1>8. CASE ResyncDelete
    <2>1. FeedOK'
      BY <1>8, FeedStays DEF ResyncDelete, feedVars
    <2>2. RunOK'
      BY <1>0, <1>8 DEF ResyncDelete, RunOK, feedVars
    <2>3. PICK k \in ListKeys(store) : DeleteAndNotify(k)
      BY <1>8 DEF ResyncDelete
    <2>4. notice = None /\ UNCHANGED <<history, handlerVars>>
      BY <1>8 DEF ResyncDelete, feedVars
    <2> QED
      BY <2>1, <2>2, <2>3, <2>4, ObjectLeaves
  <1>9. CASE ResyncEnd
    <2>1. FeedOK'
      BY <1>9, FeedStays DEF ResyncEnd, feedVars
    <2>2. RunOK'
      BY <1>0, <1>9 DEF ResyncEnd, RunOK, Pcs, feedVars
    <2> QED
      BY <1>9, <2>1, <2>2, RunMoves DEF ResyncEnd, feedVars
  <1>10. CASE Stop
    <2>1. FeedOK'
      BY <1>10, FeedStays DEF Stop, feedVars
    <2>2. RunOK'
      BY <1>0, <1>10 DEF Stop, RunOK, Pcs, Ended, feedVars
    <2> QED
      BY <1>10, <2>1, <2>2, RunMoves DEF Stop, feedVars
  <1>11. CASE Notify
    <2>1. /\ notice # None /\ notice' = None /\ UNCHANGED <<feedVars, store, pc, batch, listed, synced, joined, replay>>
          /\ told' = [h \in Handler |-> IF h \in Registered
                           THEN [told[h] EXCEPT ![NoticeKey] = notice.new] ELSE told[h]]
      BY <1>11 DEF Notify
    <2>2. HistoryOK' /\ FeedOK' /\ RunOK' /\ ItemsOK' /\ NoticeOK' /\ Objects' = Objects
      BY <1>0, <2>1, FeedStays DEF feedVars, IInv, HistoryOK, RunOK, ItemsOK, NoticeOK
    <2>3. /\ NoticeKey \in Key /\ notice.new \in Objects \cup {None}
          /\ store.items[NoticeKey] = notice.new
          /\ \A h \in Handler : told[h] \in [Key -> Objects \cup {None}]
      BY <2>1 DEF IInv, NoticeOK, HandlersOK
    <2>4. \A h \in Registered : told'[h] = [told[h] EXCEPT ![NoticeKey] = notice.new]
      BY <2>1 DEF Registered
    <2>5. \A h \in Registered : \A k \in Key :
             told'[h][k] = IF k = NoticeKey THEN store.items[k] ELSE told[h][k]
      BY <2>3, <2>4 DEF Registered
    <2>6. told' \in [Handler -> [Key -> Objects \cup {None}]]
      <3>1. ASSUME NEW h \in Handler
            PROVE  (IF h \in Registered THEN [told[h] EXCEPT ![NoticeKey] = notice.new] ELSE told[h])
                        \in [Key -> Objects \cup {None}]
        BY <2>3
      <3> QED
        BY <2>1, <3>1
    <2>7. HandlersOK'
      BY <2>1, <2>2, <2>6 DEF IInv, HandlersOK
    <2>8. EarlyKnow'
      <3>1. Early' = Early /\ Early \subseteq Registered
        BY <2>1 DEF Early, Registered
      <3>2. \A h \in Early : \A k \in Key : k # NoticeKey => told[h][k] = store.items[k]
        BY DEF IInv, EarlyKnow
      <3> QED
        BY <2>1, <2>5, <3>1, <3>2 DEF EarlyKnow
    <2>9. LateHear'
      <3>1. \A h \in Handler : joined[h] = "reading" => h \in Registered
        BY DEF Registered
      <3>2. ASSUME NEW h \in Handler, joined[h] = "reading", NEW k \in Key, store.items[k] # None
            PROVE  told'[h][k] # None \/ \E o \in replay[h] : o.key = k
        <4>1. CASE k = NoticeKey
          BY <2>5, <3>1, <3>2, <4>1
        <4>2. CASE k # NoticeKey
          BY <2>5, <3>1, <3>2, <4>2 DEF IInv, LateHear, ListKeys
        <4> QED
          BY <4>1, <4>2
      <3> QED
        BY <2>1, <3>2 DEF LateHear, ListKeys
    <2>10. DriverOK'
      BY DEF IInv, DriverOK
    <2> QED
      BY <2>2, <2>7, <2>8, <2>9, <2>10 DEF IInv
  <1> QED
    BY <1>1, <1>2, <1>3, <1>4, <1>5, <1>6, <1>7, <1>8, <1>9, <1>10, <1>11 DEF Run, Working

(* Handlers come, read the store and are told of what they read. *)
LEMMA HandlersKeep ==
  ASSUME IInv, driver = "informer", driver' = driver, Handlers
  PROVE  IInv'
  <1>1. UNCHANGED <<feedVars, cacheVars>>
    BY DEF Handlers, AddEventHandler, ReadStore, Replay
  <1>2. HistoryOK' /\ FeedOK' /\ RunOK' /\ ItemsOK' /\ NoticeOK' /\ DriverOK' /\ Objects' = Objects
    <2>1. Objects' = Objects
      BY <1>1 DEF Objects, Revisions, feedVars
    <2> QED
      BY <1>1, <2>1, FeedStays DEF feedVars, cacheVars, IInv, HistoryOK, RunOK, ItemsOK, NoticeOK,
           NoticeKey, DriverOK
  <1>3. UNCHANGED <<store, notice, NoticeKey>> /\ HandlersOK /\ EarlyKnow /\ LateHear /\ ItemsOK
    BY <1>1 DEF cacheVars, IInv, NoticeKey
  <1>4. SUFFICES HandlersOK' /\ EarlyKnow' /\ LateHear'
    BY <1>2 DEF IInv
  <1>5. CASE \E h \in Handler : AddEventHandler(h)
    <2>1. PICK h \in Handler : AddEventHandler(h)
      BY <1>5
    <2>2. /\ joined[h] = "no" /\ told' = told /\ replay' = replay
          /\ joined' = [joined EXCEPT ![h] = IF synced THEN "after" ELSE "listing"]
      BY <2>1 DEF AddEventHandler
    <2>3. /\ joined'[h] \in {"after", "listing"}
          /\ \A g \in Handler \ {h} : joined'[g] = joined[g]
      BY <1>3, <2>2 DEF HandlersOK
    <2>4. HandlersOK'
      BY <1>2, <1>3, <2>2, <2>3 DEF HandlersOK, Joining
    <2>5. EarlyKnow'
      <3>1. Early' = Early
        BY <2>2, <2>3 DEF Early
      <3> QED
        BY <1>3, <2>2, <3>1 DEF EarlyKnow
    <2>6. LateHear'
      BY <1>3, <2>2, <2>3 DEF LateHear, ListKeys
    <2> QED
      BY <2>4, <2>5, <2>6
  <1>6. CASE \E h \in Handler : ReadStore(h)
    <2>1. PICK h \in Handler : ReadStore(h)
      BY <1>6
    <2>2. joined[h] = "after" /\ joined' = [joined EXCEPT ![h] = "reading"]
          /\ replay' = [replay EXCEPT ![h] = List(store)] /\ told' = told
      BY <2>1 DEF ReadStore
    <2>3. /\ joined'[h] = "reading" /\ replay'[h] = List(store)
          /\ \A g \in Handler \ {h} : joined'[g] = joined[g] /\ replay'[g] = replay[g]
      BY <1>3, <2>2 DEF HandlersOK
    <2>4. List(store) \subseteq Objects
      BY <1>3 DEF List, ListKeys, ItemsOK
    <2>5. joined' \in [Handler -> Joining] /\ replay' \in [Handler -> SUBSET Objects]
      BY <1>3, <2>2, <2>4 DEF HandlersOK, Joining
    <2>6. HandlersOK'
      BY <1>2, <1>3, <2>2, <2>3, <2>5 DEF HandlersOK
    <2>7. EarlyKnow'
      <3>1. Early' = Early
        BY <2>2, <2>3 DEF Early
      <3> QED
        BY <1>3, <2>2, <3>1 DEF EarlyKnow
    <2>8. LateHear'
      <3>1. \A k \in ListKeys(store) : \E o \in List(store) : o.key = k
        BY <1>3 DEF List, ListKeys, ItemsOK, Filed
      <3>2. ListKeys(store') = ListKeys(store)
        BY <1>3 DEF ListKeys
      <3>3. ASSUME NEW g \in Handler, joined'[g] = "reading", NEW k \in ListKeys(store)
            PROVE  told[g][k] # None \/ (\E o \in replay'[g] : o.key = k) \/ (notice # None /\ NoticeKey = k)
        BY <1>3, <2>3, <3>1, <3>3 DEF LateHear
      <3> QED
        BY <1>3, <2>2, <3>2, <3>3 DEF LateHear
    <2> QED
      BY <2>6, <2>7, <2>8
  <1>7. CASE \E h \in Handler : Replay(h)
    <2>1. PICK h \in Handler : Replay(h)
      BY <1>7
    <2>2. PICK o \in replay[h] : told' = Tell(h, o.key, o) /\ replay' = [replay EXCEPT ![h] = @ \ {o}]
      BY <2>1 DEF Replay
    <2>3. joined[h] = "reading" /\ o \in Objects /\ joined' = joined
      BY <1>3, <2>1 DEF HandlersOK, Replay
    <2>4. o \in Object /\ o.key \in Key /\ o # None
      BY <2>3, ObjectsAre, ObjectFits DEF IInv
    <2>5. /\ told'[h] = [told[h] EXCEPT ![o.key] = o] /\ replay'[h] = replay[h] \ {o}
          /\ \A g \in Handler \ {h} : told'[g] = told[g] /\ replay'[g] = replay[g]
      BY <1>3, <2>2 DEF HandlersOK, Tell
    <2>6. \A k \in Key : told'[h][k] = IF k = o.key THEN o ELSE told[h][k]
      BY <1>3, <2>4, <2>5 DEF HandlersOK
    <2>7. told'[h] \in [Key -> Objects \cup {None}] /\ replay'[h] \subseteq Objects
      BY <1>3, <2>3, <2>4, <2>5 DEF HandlersOK
    <2>8. told' \in [Handler -> [Key -> Objects \cup {None}]] /\ replay' \in [Handler -> SUBSET Objects]
      BY <1>3, <2>2, <2>5, <2>7 DEF HandlersOK, Tell
    <2>9. HandlersOK'
      BY <1>2, <1>3, <2>3, <2>5, <2>8 DEF HandlersOK
    <2>10. EarlyKnow'
      <3>1. Early' = Early /\ h \notin Early
        BY <2>3 DEF Early
      <3>2. \A g \in Early : told'[g] = told[g]
        BY <2>5, <3>1 DEF Early
      <3> QED
        BY <1>3, <3>1, <3>2 DEF EarlyKnow
    <2>11. LateHear'
      <3>1. ListKeys(store') = ListKeys(store) /\ ListKeys(store) \subseteq Key
        BY <1>3 DEF ListKeys
      <3>2. ASSUME NEW g \in Handler, joined[g] = "reading", NEW k \in ListKeys(store)
            PROVE  told'[g][k] # None \/ (\E p \in replay'[g] : p.key = k) \/ (notice # None /\ NoticeKey = k)
        <4>1. told[g][k] # None \/ (\E p \in replay[g] : p.key = k) \/ (notice # None /\ NoticeKey = k)
          BY <1>3, <3>2 DEF LateHear
        <4>2. CASE g = h
          BY <2>4, <2>5, <2>6, <3>1, <4>1, <4>2
        <4>3. CASE g # h
          BY <2>5, <4>1, <4>3
        <4> QED
          BY <4>2, <4>3
      <3> QED
        BY <1>3, <2>3, <3>1, <3>2 DEF LateHear
    <2> QED
      BY <2>9, <2>10, <2>11
  <1> QED
    BY <1>5, <1>6, <1>7 DEF Handlers

----------------------------------------------------------------------------
(* The reflector. *)

(* Its list is that of the informer, and its store that of the informer. *)
LEMMA SameForReflector ==
  /\ R!Listing = Listing /\ (\A k \in Key : R!Current(k) = Current(k))
  /\ R!EmptyStore = EmptyStore
  /\ \A i : R!Replace(i) = Replace(i)
  /\ \A s, k, o : R!Add(s, k, o) = Add(s, k, o) /\ R!Update(s, k, o) = Update(s, k, o)
  /\ R!NewWatch = NewWatch /\ R!feedVars = feedVars
  <1>1. \A k : R!Last(k) = Last(k) /\ R!Current(k) = Current(k)
    BY DEF R!Last, Last, R!Current, Current, R!Revisions, Revisions
  <1>2. R!Listing = Listing
    BY <1>1 DEF R!Listing, Listing, R!Existing, Existing
  <1>3. \A i : R!Replace(i) = Replace(i)
    BY DEF R!Replace, Replace, R!Having, Having, R!Holding, Holding
  <1>4. R!EmptyStore = EmptyStore
    BY DEF R!EmptyStore, EmptyStore, R!Holding, Holding, R!Nothing, Nothing
  <1>5. \A s, k, o : R!Add(s, k, o) = Add(s, k, o)
    BY DEF R!Add, Add, R!AddToIndex, AddToIndex, R!SetItem, SetItem, R!Holding, Holding,
           R!SetEntry, SetEntry
  <1>6. \A s, k : R!Unindexed(s, k) = Unindexed(s, k)
    BY DEF R!Unindexed, Unindexed, R!Get, Get, R!RemoveFromIndex, RemoveFromIndex,
           R!Holding, Holding, R!SetEntry, SetEntry
  <1>7. \A s, k, o : R!Update(s, k, o) = Update(s, k, o)
    BY <1>5, <1>6 DEF R!Update, Update
  <1>8. R!NewWatch = NewWatch /\ R!feedVars = feedVars
    BY DEF R!NewWatch, NewWatch, R!feedVars, feedVars
  <1> QED
    BY <1>1, <1>2, <1>3, <1>4, <1>5, <1>7, <1>8

(* The list replaces the store. *)
LEMMA ListAndSyncKeeps ==
  ASSUME IInv, R!ListAndSync, history' = history
  PROVE  ItemsOK'
  <1> DEFINE i == [k \in Key |-> IF \E o \in Listing : o.key = k THEN Current(k) ELSE None]
  <1>1. store' = Replace(i)
    <2>1. i = [k \in Key |-> IF \E o \in R!Listing : o.key = k THEN R!Current(k) ELSE None]
      BY SameForReflector
    <2> HIDE DEF i
    <2> QED
      BY <2>1, SameForReflector DEF R!ListAndSync
  <1>2. Objects' = Objects
    BY DEF Objects, Revisions
  <1>3. \A k \in Key : i[k] \in Objects \cup {None} /\ (i[k] # None => i[k].key = k)
    BY CurrentWasPut DEF IInv
  <1>4. i \in [Key -> Objects \cup {None}]
    BY <1>3
  <1> HIDE DEF i
  <1>5. i \in Filed
    BY <1>3, <1>4, ObjectsAre DEF Filed, IInv
  <1>6. store'.items = i /\ store'.edited = {} /\ store' = Indexed(i, {})
    BY <1>1, IndexedIs
  <1> QED
    BY <1>1, <1>2, <1>4, <1>5, <1>6 DEF ItemsOK

(* An event puts its object into the store. *)
LEMMA EventKeepsItems ==
  ASSUME IInv, history' = history, NEW o \in Objects,
         store' = Add(store, o.key, o) \/ store' = Update(store, o.key, o)
  PROVE  ItemsOK'
  <1> DEFINE i == [store.items EXCEPT ![o.key] = o]
  <1>1. o \in Object /\ o.key \in Key
    BY ObjectsAre, ObjectFits DEF IInv
  <1>2. store = Indexed(store.items, store.edited) /\ store.items \in Filed
        /\ store.items \in [Key -> Objects \cup {None}] /\ store.edited \subseteq ListKeys(store)
    BY DEF IInv, ItemsOK
  <1>3. store' = Indexed(i, store.edited \ {o.key})
    BY <1>1, StoreChangesNow DEF IInv
  <1>4. i \in Filed /\ i \in [Key -> Objects \cup {None}]
        /\ \A k \in Key \ {o.key} : i[k] = store.items[k]
    BY <1>1, <1>2, FiledExcept
  <1> HIDE DEF i
  <1>5. store'.items = i /\ store'.edited = store.edited \ {o.key}
    BY <1>3, IndexedIs
  <1>6. Objects' = Objects
    BY DEF Objects, Revisions
  <1>7. store'.edited \subseteq ListKeys(store')
    BY <1>2, <1>4, <1>5 DEF ListKeys
  <1> QED
    BY <1>3, <1>4, <1>5, <1>6, <1>7 DEF ItemsOK

(* The steps of the reflector's Run. *)
LEMMA ReflectorKeeps ==
  ASSUME IInv, driver = "reflector", R!Run,
         UNCHANGED <<batch, listed, notice, synced, handlerVars, driver>>
  PROVE  IInv'
  <1>1. history' = history /\ pc' \in Pcs
    <2>1. pc \in Pcs
      BY DEF IInv, RunOK
    <2> QED
      BY <2>1 DEF R!Run, R!Working, R!RunLists, R!StartWatch, R!Relist, R!Receive, R!Resync, R!Stop,
             R!HandleWatchEvent, R!NewWatch, R!feedVars, Pcs, Ended
  <1>2. Objects' = Objects
    BY <1>1 DEF Objects, Revisions
  <1>3. RunOK'
    BY <1>1, <1>2 DEF IInv, RunOK
  <1>4. store' = store => ItemsOK'
    BY <1>2 DEF IInv, ItemsOK
  <1>5. FeedOK' /\ ItemsOK'
    <2>1. CASE R!StartWatch
      BY <1>1, <1>4, <2>1, NewWatchKeepsFeed, SameForReflector DEF R!StartWatch
    <2>2. CASE R!Stop
      BY <1>4, <2>2, FeedStays DEF R!Stop, R!feedVars
    <2>3. CASE R!Receive
      <3> DEFINE e == Head(resultChan)
      <3>1. FeedOK' /\ e \in AnyEvent
        BY <2>3, TakeKeepsFeed DEF R!Receive
      <3>2. \/ store' = store
            \/ /\ e.type \in {"ADDED", "MODIFIED"}
               /\ store' = Add(store, e.object.key, e.object) \/ store' = Update(store, e.object.key, e.object)
        BY <2>3, SameForReflector DEF R!Receive, R!HandleWatchEvent
      <3>3. e.type \in {"ADDED", "MODIFIED"} => e.object \in Objects
        BY <3>1 DEF AnyEvent
      <3> HIDE DEF e
      <3> QED
        BY <1>1, <1>4, <3>1, <3>2, <3>3, EventKeepsItems
    <2>4. CASE R!RunLists \/ R!Resync \/ R!Relist
      <3>1. UNCHANGED <<history, connected, announce, next, resultChan>>
        BY <2>4 DEF R!RunLists, R!Resync, R!Relist
      <3>2. R!ListAndSync \/ store' = store
        BY <2>4 DEF R!RunLists, R!Resync, R!Relist
      <3> QED
        BY <1>4, <3>1, <3>2, FeedStays, ListAndSyncKeeps
    <2> QED
      BY <2>1, <2>2, <2>3, <2>4 DEF R!Run, R!Working
  <1> QED
    BY <1>1, <1>3, <1>5, ReflectorMoves

----------------------------------------------------------------------------
(* A handler writes to the phase of an object. *)

(* That leaves everything of the store but what is edited. *)
LEMMA EditIs ==
  ASSUME IInv, NEW k, store' = Edit(store, k)
  PROVE  /\ store'.items = store.items /\ store'.edited = store.edited \cup {k}
         /\ store' = Indexed(store'.items, store'.edited)
  <1>1. store = Indexed(store.items, store.edited)
    BY DEF IInv, ItemsOK
  <1> DEFINE i == store.items
             e == store.edited
  <1>2. Edit(Indexed(i, e), k) = Indexed(i, e \cup {k})
    BY DEF Edit, Indexed, Stored, Holding
  <1> HIDE DEF i, e
  <1>3. store' = Indexed(i, e \cup {k})
    BY <1>1, <1>2 DEF i, e
  <1> QED
    BY <1>3, IndexedIs DEF i, e

LEMMA EditKeeps ==
  ASSUME IInv, NEW h \in Handler, NEW k \in Key, EditPhase(h, k)
  PROVE  IInv'
  <1>1. UNCHANGED <<feedVars, pc, batch, listed, notice, synced, handlerVars, driver>> /\ store.items[k] # None
    BY DEF EditPhase
  <1>2. /\ store'.items = store.items /\ store'.edited = store.edited \cup {k}
        /\ store' = Indexed(store'.items, store'.edited)
    BY EditIs DEF EditPhase
  <1>3. Objects' = Objects
    BY <1>1 DEF Objects, Revisions, feedVars
  <1>4. ItemsOK'
    BY <1>1, <1>2, <1>3 DEF IInv, ItemsOK, ListKeys
  <1>5. HistoryOK' /\ RunOK' /\ NoticeOK' /\ HandlersOK'
    BY <1>1, <1>2, <1>3 DEF IInv, HistoryOK, RunOK, NoticeOK, NoticeKey, HandlersOK, feedVars, handlerVars
  <1>6. EarlyKnow' /\ LateHear' /\ DriverOK'
    BY <1>1, <1>2 DEF IInv, EarlyKnow, LateHear, DriverOK, Early, Registered, NoticeKey, ListKeys, handlerVars
  <1>7. FeedOK'
    BY <1>1, FeedStays DEF feedVars
  <1> QED
    BY <1>4, <1>5, <1>6, <1>7 DEF IInv

----------------------------------------------------------------------------
(* Every step keeps the invariant. *)
LEMMA InvNext == IInv /\ [Next]_vars => IInv'
  <1> SUFFICES ASSUME IInv, [Next]_vars PROVE IInv'
    OBVIOUS
  <1>1. CASE UNCHANGED vars
    <2>1. FeedOK' /\ RunOK' /\ UNCHANGED <<history, store, notice, handlerVars, driver>>
      <3>1. UNCHANGED <<feedVars, cacheVars, handlerVars, driver>>
        BY <1>1 DEF vars, informerVars
      <3>2. FeedOK'
        BY <3>1, FeedStays DEF feedVars
      <3>3. Objects' = Objects
        BY <3>1 DEF feedVars, Objects, Revisions
      <3> QED
        BY <3>1, <3>2, <3>3 DEF feedVars, cacheVars, IInv, RunOK
    <2> QED
      BY <2>1, RunMoves
  <1>2. CASE Elsewhere(Writes)
    BY <1>2, WritesKeep DEF Elsewhere
  <1>3. CASE InWatch(Watching \/ Lose)
    BY <1>3, WatchKeeps DEF InWatch, Elsewhere
  <1>4. CASE Informing(Run \/ Handlers)
    BY <1>4, RunKeeps, HandlersKeep DEF Informing
  <1>5. CASE Reflecting(R!Run)
    BY <1>5, ReflectorKeeps DEF Reflecting
  <1>6. CASE \E h \in Handler, k \in Key : EditPhase(h, k)
    BY <1>6, EditKeeps
  <1> QED
    BY <1>1, <1>2, <1>3, <1>4, <1>5, <1>6 DEF Next

(* The invariant holds in every behaviour of the client. *)
THEOREM InvHolds == Spec => []IInv
  BY InvInit, InvNext, PTL DEF Spec

(* Every variable of a client has its type; what a store, a handler or the  *)
(* feed holds was put at that key.                                          *)
THEOREM TypeCorrect == Spec => []TypeOK
  <1>1. IInv => TypeOK
    BY DEF IInv, TypeOK, FeedOK, RunOK, ItemsOK, HandlersOK, DriverOK, Pcs
  <1> QED
    BY <1>1, InvHolds, PTL

(* Listing by the indices of the store (store.go) gives what is there, after *)
(* any sequence of lists, events, resyncs and removals.                      *)
THEOREM StoreIsIndexed == Spec => []StoreIndexed
  <1>1. ASSUME IInv PROVE StoreIndexed
    <2> DEFINE i == store.items
    <2>1. store = Indexed(i, store.edited) /\ i \in Filed
      BY <1>1 DEF IInv, ItemsOK
    <2>2. \A n \in Namespace, k \in Key :
             store.namespaceIndex[n][k] = IF i[k] # None /\ i[k]["namespace"] = n THEN i[k] ELSE None
      BY <2>1 DEF Indexed, Stored, IndexOf, Holding, Having
    <2>3. \A d \in Kind, k \in Key :
             store.kindIndex[d][k] = IF i[k] # None /\ i[k]["kind"] = d THEN i[k] ELSE None
      BY <2>1 DEF Indexed, Stored, IndexOf, Holding, Having
    <2>4. \A k \in Key : i[k] # None =>
             i[k].namespace = KeyNamespace[k] /\ i[k].kind = KeyKind[k] /\ i[k].key = k
      BY <2>1, ObjectFits DEF Filed
    <2>5. ASSUME NEW n \in Namespace \cup {Blank}, NEW d \in Kind \cup {Blank}
          PROVE  ListerList(n, d) = Matching(store, n, d)
      BY <2>2, <2>3, <2>5 DEF ListerList, GetByNamespaceAndKind, Matching, List, ListKeys
    <2>6. ASSUME NEW k \in Key, NEW n \in Namespace, NEW d \in Kind
          PROVE  LET o == ListerGet(n, d, k) IN o # None <=> o \in ListerList(n, d)
      <3>1. ListerList(n, d) = Matching(store, n, d) /\ n # Blank /\ d # Blank
        BY <2>5, FeedAssumption
      <3> QED
        BY <2>4, <3>1 DEF ListerGet, Get, Matching, List, ListKeys
    <2> QED
      BY <2>5, <2>6 DEF StoreIndexed
  <1> QED
    BY <1>1, InvHolds, PTL

(* A handler that came before the start knows what the store holds, whenever *)
(* there is nothing to tell (notifyAdd, notifyUpdate, notifyDelete).         *)
THEOREM HandlersFollow == Spec => []HandlersFollowStore
  <1>1. ASSUME IInv PROVE HandlersFollowStore
    <2> SUFFICES ASSUME notice = None, NEW h \in Early PROVE told[h] = store.items
      BY DEF HandlersFollowStore
    <2>1. \A k \in Key : told[h][k] = store.items[k]
      BY <1>1 DEF IInv, EarlyKnow
    <2>2. told[h] \in [Key -> Objects \cup {None}] /\ store.items \in [Key -> Objects \cup {None}]
      BY <1>1 DEF IInv, HandlersOK, ItemsOK, Early
    <2> QED
      BY <2>1, <2>2
  <1> QED
    BY <1>1, InvHolds, PTL

(* A handler that came after the informer had synced was told of every key,  *)
(* in whatever order its replay and the live events came (AddEventHandler).  *)
THEOREM LateHandlersComplete == Spec => []LateHandlerComplete
  <1>1. IInv => LateHandlerComplete
    BY DEF IInv, LateHear, LateHandlerComplete
  <1> QED
    BY <1>1, InvHolds, PTL

----------------------------------------------------------------------------
(* The store is a Replica. A key that a list does not show is gone, and it   *)
(* went after anything the store may have of it; a resync that works off an  *)
(* old list removes just such keys.                                          *)

Gone(k) == store.items[k] # None => Copy!RemovedAfter(k, store.items[k])

(* A revision is a position, and each key that was written has a last one.  *)
IsLast(q, k) ==
    /\ q \in 1 .. Len(history) /\ history[q].key = k
    /\ \A p \in 1 .. Len(history) : history[p].key = k => p <= q

RevisionsOK ==
    /\ \A r \in 1 .. Len(history) : history[r].rev = r
    /\ \A k \in Key : \A r \in 1 .. Len(history) : history[r].key = k =>
           \E q \in 1 .. Len(history) : q >= r /\ IsLast(q, k)

(* What a resync has not listed is gone. *)
ResyncOK == pc = "resync" => Keys(batch) \subseteq listed /\ \A k \in Wanted \ listed : Gone(k)

JInv == RevisionsOK /\ ResyncOK

(* What etcd does not hold now it removed after all that was put there.     *)
LEMMA GoneWhenNotCurrent ==
  ASSUME IInv, JInv, NEW k \in Key, Current(k) = None
  PROVE  Gone(k)
  <1> SUFFICES ASSUME store.items[k] # None PROVE Copy!RemovedAfter(k, store.items[k])
    BY DEF Gone
  <1>1. store.items[k] \in Objects /\ store.items[k].key = k
    BY DEF IInv, ItemsOK, Filed
  <1>2. PICK r \in 1 .. Len(history) : history[r] = store.items[k] /\ history[r].put
    BY <1>1 DEF Objects, Revisions
  <1>3. PICK q \in Last(k) : q >= r
    BY <1>1, <1>2 DEF JInv, RevisionsOK, IsLast, Last, Revisions
  <1>4. q \in 1 .. Len(history) /\ history[q].key = k
    BY <1>3 DEF Last, Revisions
  <1>5. ~history[q].put
    <2>1. SUFFICES ASSUME history[q].put PROVE FALSE
      OBVIOUS
    <2>2. Current(k) = history[CHOOSE s \in Last(k) : TRUE] /\ (CHOOSE s \in Last(k) : TRUE) = q
      <3>1. \A s \in Last(k) : s = q
        BY <1>3 DEF Last, Revisions
      <3> QED
        BY <1>3, <2>1, <3>1 DEF Current
    <2>3. history[q] \in Objects
      BY <1>4, <2>1 DEF Objects, Revisions
    <2> QED
      BY <2>2, <2>3, ObjectsAre DEF IInv
  <1>6. q # r
    BY <1>2, <1>5
  <1>7. store.items[k].rev = r
    BY <1>2 DEF JInv, RevisionsOK
  <1> QED
    BY <1>3, <1>4, <1>5, <1>6, <1>7 DEF Copy!RemovedAfter

(* A wanted key that the list of the server does not show is gone. *)
LEMMA GoneWhenNotListed ==
  ASSUME IInv, JInv, NEW k \in Wanted, k \notin Keys(Listing)
  PROVE  Gone(k)
  <1>1. k \in Key /\ KeyKind[k] = WantedKind
    BY DEF Wanted
  <1>2. Current(k) = None
    <2>1. SUFFICES ASSUME Current(k) # None PROVE FALSE
      OBVIOUS
    <2>2. Current(k) \in Object /\ Current(k).key = k
      BY <1>1, <2>1, CurrentWasPut, ObjectsAre DEF IInv
    <2>3. Current(k) \in Listing
      BY <1>1, <2>1, <2>2, ObjectFits DEF Listing, Existing
    <2> QED
      BY <2>2, <2>3 DEF Keys
  <1> QED
    BY <1>1, <1>2, GoneWhenNotCurrent

(* The store has gone from one object that was put to another, or dropped   *)
(* what is gone.                                                            *)
LEMMA FollowsWhen ==
  ASSUME IInv, NEW k \in Key, ItemsOK', history' = history,
         store'.items[k] = None /\ k \in Wanted => Gone(k)
  PROVE  Copy!Follows(k)
  <1>1. Objects' = Objects
    BY DEF Objects, Revisions
  <1>2. CASE store'.items[k] # None
    <2>1. store'.items[k] \in Objects /\ store'.items[k].key = k
      BY <1>1, <1>2 DEF ItemsOK, Filed
    <2>2. Copy!Held(k, store'.items[k])
      BY <2>1 DEF Copy!Held, Objects, Revisions
    <2> QED
      BY <1>2, <2>2 DEF Copy!Follows
  <1>3. CASE store'.items[k] = None
    BY <1>3 DEF Copy!Follows, Gone
  <1> QED
    BY <1>2, <1>3

(* What an Append does, of whatever is appended. *)
LEMMA HistoryAppended ==
  ASSUME HistoryOK, NEW w, history' = Append(history, w)
  PROVE  /\ Len(history) \in Nat /\ Len(history') = Len(history) + 1
         /\ history'[Len(history) + 1] = w
         /\ \A r \in 1 .. Len(history) : history'[r] = history[r]
         /\ SubSeq(history', 1, Len(history)) = history
  BY DEF HistoryOK

(* A write is one of the abstract copy, and what is gone stays gone.        *)
LEMMA WritesFollow ==
  ASSUME IInv, JInv, Writes, UNCHANGED <<informerVars, driver>>
  PROVE  JInv' /\ Copy!Write
  <1>a. \E k \in Key : \E w :
           history' = Append(history, w) /\ w.key = k /\ w.rev = Len(history) + 1
    <2>1. CASE \E k \in Key : Remove(k)
      <3>1. PICK k \in Key : Remove(k)
        BY <2>1
      <3> DEFINE w == [key |-> k, put |-> FALSE, rev |-> Len(history) + 1]
      <3>2. history' = Append(history, w) /\ w.key = k /\ w.rev = Len(history) + 1
        BY <3>1 DEF Remove
      <3> HIDE DEF w
      <3> QED
        BY <3>2
    <2>2. CASE \E k \in Key, t \in 0 .. MaxTime : Put(k, t)
      <3>1. PICK k \in Key, t \in 0 .. MaxTime : Put(k, t)
        BY <2>2
      <3> DEFINE w == [key |-> k, put |-> TRUE, rev |-> Len(history) + 1,
                       namespace |-> KeyNamespace[k], kind |-> KeyKind[k], updatedAt |-> t]
      <3>2. history' = Append(history, w) /\ w.key = k /\ w.rev = Len(history) + 1
        BY <3>1 DEF Put
      <3> HIDE DEF w
      <3> QED
        BY <3>2
    <2> QED
      BY <2>1, <2>2 DEF Writes
  <1>b. PICK k \in Key : \E w :
           history' = Append(history, w) /\ w.key = k /\ w.rev = Len(history) + 1
    BY <1>a
  <1>1. PICK w : history' = Append(history, w) /\ w.key = k /\ w.rev = Len(history) + 1
    BY <1>b
  <1> DEFINE n == Len(history)
  <1>2. /\ history \in Seq(Object \cup Removal) /\ n \in Nat
        /\ Len(history') = n + 1 /\ history'[n + 1] = w
        /\ \A r \in 1 .. n : history'[r] = history[r]
    BY <1>1, HistoryAppended DEF IInv, HistoryOK
  <1>3. RevisionsOK'
    <2>1. \A r \in 1 .. n + 1 : history'[r].rev = r
      BY <1>1, <1>2 DEF JInv, RevisionsOK
    <2>2. ASSUME NEW l \in Key, NEW r \in 1 .. n + 1, history'[r].key = l
          PROVE  \E q \in 1 .. n + 1 : q >= r /\ IsLast(q, l)'
      <3>1. CASE l = k
        <4>1. PICK m \in 1 .. n + 1 : m = n + 1
          BY <1>2
        <4>2. IsLast(m, k)'
          BY <1>1, <1>2, <4>1 DEF IsLast
        <4> QED
          BY <1>2, <3>1, <4>1, <4>2
      <3>2. CASE l # k
        <4>1. r \in 1 .. n /\ history[r].key = l
          BY <1>1, <1>2, <2>2, <3>2
        <4>2. PICK q \in 1 .. n : q >= r /\ IsLast(q, l)
          BY <4>1 DEF JInv, RevisionsOK
        <4>3. IsLast(q, l)'
          BY <1>1, <1>2, <3>2, <4>2 DEF IsLast
        <4> QED
          BY <1>2, <4>2, <4>3
      <3> QED
        BY <3>1, <3>2
    <2> QED
      BY <1>2, <2>1, <2>2 DEF RevisionsOK
  <1>4. UNCHANGED <<store, pc, batch, listed>>
    BY DEF informerVars, cacheVars
  <1>5. \A l \in Key : Gone(l) => Gone(l)'
    BY <1>2, <1>4 DEF Gone, Copy!RemovedAfter
  <1>6. ResyncOK'
    BY <1>4, <1>5 DEF JInv, ResyncOK, Keys, Wanted
  <1>7. Copy!Write
    <2>1. SubSeq(history', 1, Len(history)) = history
      BY <1>1, HistoryAppended DEF IInv
    <2> QED
      BY <1>2, <1>4, <2>1 DEF Copy!Write
  <1> QED
    BY <1>3, <1>6, <1>7 DEF JInv

(* When nobody writes and no resync goes on, the revisions and what is gone *)
(* need no more thought.                                                    *)
LEMMA RevisionsStay ==
  ASSUME JInv, history' = history
  PROVE  RevisionsOK' /\ (\A k \in Key : store'.items[k] = store.items[k] => (Gone(k) <=> Gone(k)'))
  BY DEF JInv, RevisionsOK, IsLast, Gone, Copy!RemovedAfter

(* A step that leaves the store, and does not begin a resync. *)
LEMMA StoreStays ==
  ASSUME JInv, UNCHANGED <<history, store>>,
         pc' = "resync" => UNCHANGED <<pc, batch, listed>>
  PROVE  JInv' /\ UNCHANGED <<history, store.items, store.edited>>
  BY RevisionsStay DEF JInv, ResyncOK, Keys, Wanted

(* What AddAndNotify and UpdateAndNotify leave in the store. *)
LEMMA ArrivesAtKey ==
  ASSUME IInv, NEW o \in Objects, AddAndNotify(o) \/ UpdateAndNotify(o)
  PROVE  /\ o # None /\ o.key \in Key
         /\ store'.items[o.key] = o
         /\ \A k \in Key \ {o.key} : store'.items[k] = store.items[k]
         /\ store'.edited = store.edited \ {o.key}
  <1>1. o \in Object /\ o.key \in Key /\ o # None
    BY ObjectsAre, ObjectFits DEF IInv
  <1>2. store = Indexed(store.items, store.edited) /\ store.items \in Filed
    BY DEF IInv, ItemsOK
  <1> DEFINE i == [store.items EXCEPT ![o.key] = o]
  <1>3. store' = Indexed(i, store.edited \ {o.key})
    BY <1>1, StoreChangesNow DEF AddAndNotify, UpdateAndNotify, IInv
  <1>4. i[o.key] = o /\ \A k \in Key \ {o.key} : i[k] = store.items[k]
    BY <1>1, <1>2 DEF Filed
  <1> HIDE DEF i
  <1>5. store'.items = i /\ store'.edited = store.edited \ {o.key}
    BY <1>3, IndexedIs
  <1> QED
    BY <1>1, <1>4, <1>5

(* The steps of the informer. *)
LEMMA RunFollows ==
  ASSUME IInv, JInv, ItemsOK', driver = "informer", Run \/ Handlers
  PROVE  JInv' /\ (Copy!Follow \/ UNCHANGED <<history, store.items, store.edited>>)
  <1> USE DEF Steady, feedVars, cacheVars
  <1>1. CASE Handlers
    BY <1>1, StoreStays DEF Handlers, AddEventHandler, ReadStore, Replay
  <1>2. CASE InitialList \/ ListFails \/ StartWatch \/ Stop \/ ResyncEnd \/ Notify
    BY <1>2, StoreStays DEF InitialList, ListFails, StartWatch, Stop, ResyncEnd, Notify
  <1>3. CASE Resync
    <2>1. UNCHANGED <<history, store>> /\ batch' = Listing /\ listed' = Keys(Listing)
      BY <1>3 DEF Resync
    <2>2. \A k \in Wanted \ listed' : Gone(k) /\ k \in Key
      BY <2>1, GoneWhenNotListed DEF Wanted
    <2>3. RevisionsOK' /\ ResyncOK'
      BY <2>1, <2>2, RevisionsStay DEF ResyncOK, Keys, Wanted
    <2> QED
      BY <2>1, <2>3 DEF JInv
  <1>4. ASSUME NEW o \in Objects, AddAndNotify(o) \/ UpdateAndNotify(o), history' = history,
               \/ pc' # "resync"
               \/ /\ UNCHANGED <<pc, listed>> /\ batch' \subseteq batch /\ o \in batch
        PROVE  JInv' /\ Copy!Follow
    <2>1. /\ o # None /\ o.key \in Key /\ store'.items[o.key] = o
          /\ \A k \in Key \ {o.key} : store'.items[k] = store.items[k]
          /\ store'.edited = store.edited \ {o.key}
      BY <1>4, ArrivesAtKey
    <2>2. Copy!Follow
      <3>1. ASSUME NEW k \in Key PROVE Copy!Follows(k)
        <4>1. CASE k = o.key
          BY <1>4, <2>1, <4>1, FollowsWhen
        <4>2. CASE k # o.key
          BY <2>1, <4>2 DEF Copy!Follows
        <4> QED
          BY <4>1, <4>2
      <3>2. store'.edited \subseteq {k \in store.edited : store'.items[k] = store.items[k]}
        BY <2>1 DEF IInv, ItemsOK, ListKeys
      <3> QED
        BY <1>4, <3>1, <3>2 DEF Copy!Follow
    <2>3. ResyncOK'
      <3> SUFFICES ASSUME pc' = "resync"
                   PROVE  Keys(batch)' \subseteq listed' /\ \A k \in Wanted' \ listed' : Gone(k)'
        BY DEF ResyncOK
      <3>1. UNCHANGED <<pc, listed>> /\ batch' \subseteq batch /\ o \in batch
        BY <1>4
      <3>2. Keys(batch) \subseteq listed /\ \A k \in Wanted \ listed : Gone(k)
        BY <3>1 DEF JInv, ResyncOK
      <3>3. o.key \in listed /\ Keys(batch)' \subseteq listed'
        BY <3>1, <3>2 DEF Keys
      <3>4. Wanted \subseteq Key /\ Wanted' = Wanted
        BY DEF Wanted
      <3>5. \A k \in Wanted \ listed : Gone(k)'
        BY <1>4, <2>1, <3>2, <3>3, <3>4, RevisionsStay
      <3> QED
        BY <3>1, <3>3, <3>4, <3>5
    <2> QED
      BY <1>4, <2>2, <2>3, RevisionsStay DEF JInv
  <1>5. CASE AddListed
    <2>1. PICK o \in batch : AddAndNotify(o)
      BY <1>5 DEF AddListed
    <2>2. o \in Objects /\ history' = history /\ pc' # "resync"
      BY <1>5 DEF AddListed, IInv, RunOK
    <2> QED
      BY <1>4, <2>1, <2>2
  <1>6. CASE Receive
    <2> DEFINE e == Head(resultChan)
    <2>1. history' = history /\ pc' # "resync" /\ e \in AnyEvent
      BY <1>6, TakeKeepsFeed DEF Receive
    <2>2. \/ UNCHANGED <<store, notice>>
          \/ e.object # None /\ (AddAndNotify(e.object) \/ UpdateAndNotify(e.object))
      BY <1>6 DEF Receive, HandleWatchEvent
    <2>3. e.object # None => e.object \in Objects
      BY <2>1 DEF AnyEvent
    <2> HIDE DEF e
    <2> QED
      BY <1>4, <2>1, <2>2, <2>3, StoreStays
  <1>7. CASE ResyncItem
    <2>1. PICK o \in batch : /\ UNCHANGED <<store, notice>> \/ AddAndNotify(o) \/ UpdateAndNotify(o)
                             /\ batch' = batch \ {o}
      BY <1>7 DEF ResyncItem
    <2>2. o \in Objects /\ UNCHANGED <<history, pc, listed>>
      BY <1>7 DEF ResyncItem, IInv, RunOK
    <2>3. CASE UNCHANGED <<store, notice>>
      <3>1. \A k \in Key : Gone(k) <=> Gone(k)'
        BY <2>2, <2>3, RevisionsStay
      <3>2. ResyncOK'
        BY <2>1, <2>2, <3>1 DEF JInv, ResyncOK, Keys, Wanted
      <3> QED
        BY <2>2, <2>3, <3>2, RevisionsStay DEF JInv
    <2> QED
      BY <1>4, <2>1, <2>2, <2>3
  <1>8. CASE ResyncDelete
    <2>1. PICK k \in ListKeys(store) \ listed : DeleteAndNotify(k)
      BY <1>8 DEF ResyncDelete
    <2>2. k \in Key /\ pc = "resync" /\ UNCHANGED <<history, pc, batch, listed>>
      BY <1>8, <2>1 DEF ResyncDelete, ListKeys
    <2> DEFINE i == [store.items EXCEPT ![k] = None]
    <2>3. store' = Indexed(i, store.edited \ {k})
      BY <2>1, <2>2, StoreChangesNow DEF DeleteAndNotify, IInv
    <2>4. i[k] = None /\ \A l \in Key \ {k} : i[l] = store.items[l]
      BY <2>2 DEF IInv, ItemsOK
    <2> HIDE DEF i
    <2>5. store'.items = i /\ store'.edited = store.edited \ {k}
      BY <2>3, IndexedIs
    <2>6. Copy!Follow
      <3>1. ASSUME NEW l \in Key PROVE Copy!Follows(l)
        <4>1. CASE l = k
          <5>1. k \in Wanted => Gone(k)
            BY <2>1, <2>2 DEF JInv, ResyncOK
          <5> QED
            BY <2>2, <4>1, <5>1, FollowsWhen
        <4>2. CASE l # k
          BY <2>4, <2>5, <4>2 DEF Copy!Follows
        <4> QED
          BY <4>1, <4>2
      <3>2. store'.edited \subseteq {l \in store.edited : store'.items[l] = store.items[l]}
        BY <2>4, <2>5 DEF IInv, ItemsOK, ListKeys
      <3> QED
        BY <2>2, <3>1, <3>2 DEF Copy!Follow
    <2>7. ResyncOK'
      <3>1. \A l \in Wanted \ listed : l \in Key /\ Gone(l)
        BY <2>2 DEF JInv, ResyncOK, Wanted
      <3>2. \A l \in Wanted \ listed : Gone(l)'
        <4>1. Gone(k)'
          BY <2>4, <2>5 DEF Gone
        <4>2. \A l \in Key \ {k} : Gone(l) => Gone(l)'
          BY <2>2, <2>4, <2>5, RevisionsStay
        <4> QED
          BY <3>1, <4>1, <4>2
      <3> QED
        BY <2>2, <3>2 DEF JInv, ResyncOK, Keys, Wanted
    <2> QED
      BY <2>2, <2>6, <2>7, RevisionsStay DEF JInv
  <1> QED
    BY <1>1, <1>2, <1>3, <1>5, <1>6, <1>7, <1>8 DEF Run, Working

(* The steps of the reflector. *)
LEMMA ReflectorFollows ==
  ASSUME IInv, JInv, ItemsOK', driver = "reflector", R!Run
  PROVE  JInv' /\ (Copy!Follow \/ UNCHANGED <<history, store.items, store.edited>>)
  <1>1. history' = history /\ pc' # "resync"
    BY DEF R!Run, R!Working, R!RunLists, R!StartWatch, R!Relist, R!Receive, R!Resync, R!Stop,
             R!HandleWatchEvent, R!NewWatch, R!feedVars
  <1>2. JInv'
    BY <1>1, RevisionsStay DEF JInv, ResyncOK
  <1>3. CASE store' = store
    BY <1>1, <1>2, <1>3
  <1>4. CASE R!Receive /\ store' # store
    <2> DEFINE e == Head(resultChan)
    <2>1. e \in AnyEvent
      BY <1>1, <1>4, TakeKeepsFeed DEF R!Receive
    <2>2. /\ e.type \in {"ADDED", "MODIFIED"}
          /\ store' = Add(store, e.object.key, e.object) \/ store' = Update(store, e.object.key, e.object)
      BY <1>4, SameForReflector DEF R!Receive, R!HandleWatchEvent
    <2> DEFINE o == e.object
               i == [store.items EXCEPT ![o.key] = o]
    <2>3. o \in Objects
      BY <2>1, <2>2 DEF AnyEvent
    <2> HIDE DEF e
    <2>4. o \in Object /\ o.key \in Key /\ o # None
      BY <2>3, ObjectsAre, ObjectFits DEF IInv
    <2>5. store' = Indexed(i, store.edited \ {o.key})
      BY <2>2, <2>4, StoreChangesNow DEF IInv
    <2>6. i[o.key] = o /\ \A k \in Key \ {o.key} : i[k] = store.items[k]
      BY <2>4 DEF IInv, ItemsOK
    <2> HIDE DEF i
    <2>7. store'.items = i /\ store'.edited = store.edited \ {o.key}
      BY <2>5, IndexedIs
    <2>8. ASSUME NEW k \in Key PROVE Copy!Follows(k)
      <3>1. CASE k = o.key
        BY <1>1, <2>4, <2>6, <2>7, <3>1, FollowsWhen
      <3>2. CASE k # o.key
        BY <2>6, <2>7, <3>2 DEF Copy!Follows
      <3> QED
        BY <3>1, <3>2
    <2>9. store'.edited \subseteq {k \in store.edited : store'.items[k] = store.items[k]}
      BY <2>6, <2>7 DEF IInv, ItemsOK, ListKeys
    <2> QED
      BY <1>1, <1>2, <2>8, <2>9 DEF Copy!Follow
  <1>5. CASE R!ListAndSync
    <2> DEFINE i == [k \in Key |-> IF \E o \in Listing : o.key = k THEN Current(k) ELSE None]
    <2>1. store' = Replace(i)
      <3>1. i = [k \in Key |-> IF \E o \in R!Listing : o.key = k THEN R!Current(k) ELSE None]
        BY SameForReflector
      <3> HIDE DEF i
      <3> QED
        BY <1>5, <3>1, SameForReflector DEF R!ListAndSync
    <2>2. \A k \in Key : i[k] = None => k \notin Keys(Listing) \/ Current(k) = None
      BY DEF Keys
    <2> HIDE DEF i
    <2>3. store'.items = i /\ store'.edited = {}
      BY <2>1, IndexedIs
    <2>4. ASSUME NEW k \in Key PROVE Copy!Follows(k)
      <3>1. store'.items[k] = None /\ k \in Wanted => Gone(k)
        BY <2>2, <2>3, GoneWhenNotListed, GoneWhenNotCurrent
      <3> QED
        BY <1>1, <3>1, FollowsWhen
    <2> QED
      BY <1>1, <1>2, <2>3, <2>4 DEF Copy!Follow
  <1> QED
    BY <1>3, <1>4, <1>5 DEF R!Run, R!Working, R!RunLists, R!StartWatch, R!Relist, R!Receive, R!Resync,
           R!Stop

(* Somebody writes to a phase, and the items stay what they are. *)
LEMMA EditFollows ==
  ASSUME IInv, JInv, NEW h \in Handler, NEW k \in Key, EditPhase(h, k)
  PROVE  JInv' /\ Copy!Edit
  <1>1. /\ store.items[k] # None /\ store'.items = store.items /\ store'.edited = store.edited \cup {k}
        /\ UNCHANGED <<history, pc, batch, listed>>
    BY EditIs DEF EditPhase, feedVars
  <1>2. Copy!Edit
    BY <1>1 DEF Copy!Edit
  <1>3. \A l \in Key : Gone(l) <=> Gone(l)'
    BY <1>1, RevisionsStay
  <1>4. ResyncOK'
    BY <1>1, <1>3 DEF JInv, ResyncOK, Keys, Wanted
  <1> QED
    BY <1>1, <1>2, <1>4, RevisionsStay DEF JInv

(* Every step is one of the abstract copy, or one it does not see. *)
LEMMA CopyNext ==
  ASSUME IInv, IInv', JInv, [Next]_vars
  PROVE  JInv' /\ [Copy!Next]_(Copy!vars)
  <1> USE DEF Copy!Next, Copy!vars
  <1>1. CASE UNCHANGED vars
    <2>1. UNCHANGED <<history, store, pc, batch, listed>>
      BY <1>1 DEF vars, feedVars, informerVars, cacheVars
    <2> QED
      BY <2>1, StoreStays
  <1>2. CASE Elsewhere(Writes)
    BY <1>2, WritesFollow DEF Elsewhere
  <1>6. CASE \E h \in Handler, k \in Key : EditPhase(h, k)
    BY <1>6, EditFollows
  <1>3. CASE InWatch(Watching \/ Lose)
    <2>1. UNCHANGED <<history, store, pc, batch, listed>>
      BY <1>3, WatchKeepsFeed DEF InWatch, Elsewhere, informerVars, cacheVars
    <2> QED
      BY <2>1, StoreStays
  <1>4. CASE Informing(Run \/ Handlers)
    BY <1>4, RunFollows DEF Informing, IInv
  <1>5. CASE Reflecting(R!Run)
    BY <1>5, ReflectorFollows DEF Reflecting, IInv
  <1> QED
    BY <1>1, <1>2, <1>3, <1>4, <1>5, <1>6 DEF Next

(* The store holds only what etcd held at its keys, but for a phase that a   *)
(* handler wrote, which lasts until the key comes anew (copyObject), and     *)
(* drops what is wanted only when etcd has removed it since: no list, event  *)
(* or resync, however old it is when it is worked off, takes away what is    *)
(* there.                                                                    *)
THEOREM StoreIsReplica == Spec => ImplementsReplica
  <1>1. Init => JInv /\ Copy!Init
    BY DEF Init, FeedInit, InformerInit, JInv, RevisionsOK, ResyncOK, Copy!Init, EmptyStore, Holding,
           Nothing
  <1>2. IInv /\ IInv' /\ JInv /\ [Next]_vars => JInv' /\ [Copy!Next]_(Copy!vars)
    BY CopyNext
  <1> QED
    BY <1>1, <1>2, InvHolds, PTL DEF Spec, ImplementsReplica, Copy!Spec

----------------------------------------------------------------------------
(* Nothing is missing. What etcd holds at a wanted key is still to be sent   *)
(* by the connection, as part of its list or after it, or it is the last of  *)
(* its key in the channel, or it is in the store and nothing older of its    *)
(* key is in the channel. A resync works off a list that may be old, but not *)
(* older than what etcd holds if that is in the store already.               *)

(* An event that would put something else at k than what etcd holds.        *)
Outdated(e, k) == e.object # None /\ e.object.key = k /\ e.object # Current(k)

InChannel(k) ==
    \E j \in 1 .. Len(resultChan) :
        /\ resultChan[j].object = Current(k)
        /\ \A i \in j + 1 .. Len(resultChan) : ~Outdated(resultChan[i], k)

InStore(k) ==
    /\ store.items[k] = Current(k)
    /\ \A i \in 1 .. Len(resultChan) : ~Outdated(resultChan[i], k)

Coming(k) ==
    \/ Current(k) \in announce
    \/ Current(k).rev >= next
    \/ InChannel(k)
    \/ InStore(k)

AllComing ==
    faults = 0 /\ connected => \A k \in Wanted : Current(k) # None => Coming(k)

FaultsOK == faults \in Nat

(* The watch of a client that has not begun it has no connection; only the   *)
(* informer works off its lists key by key.                                  *)
PhaseOK ==
    /\ pc \in {"list", "adding"} => ~connected
    /\ driver = "reflector" => pc # "resync"

(* What was written after the list of a connection, the connection sends    *)
(* after the list.                                                          *)
AnnounceOK ==
    \A o \in announce : \A r \in 1 .. Len(history) :
        history[r].key = o.key /\ r > o.rev => r >= next

(* What a resync has listed of a key that the store has right. *)
BatchOK ==
    pc = "resync" =>
        /\ \A o, p \in batch : o.key = p.key => o = p
        /\ \A k \in Wanted : Current(k) # None /\ store.items[k] = Current(k) =>
               k \in listed /\ \A o \in batch : o.key = k => o = Current(k)

KInv == FaultsOK /\ PhaseOK /\ AnnounceOK /\ BatchOK /\ AllComing

(* What was put is found at its revision. *)
LEMMA PutAtRevision ==
  ASSUME JInv, NEW o \in Objects
  PROVE  o.rev \in 1 .. Len(history) /\ history[o.rev] = o /\ o.put
  BY DEF JInv, RevisionsOK, Objects, Revisions

(* What etcd holds is the last write of its key. *)
LEMMA CurrentIsLast ==
  ASSUME IInv, JInv, NEW k \in Key, Current(k) # None
  PROVE  /\ Current(k) \in Objects /\ Current(k).key = k
         /\ Current(k).rev \in 1 .. Len(history) /\ history[Current(k).rev] = Current(k)
         /\ Current(k).put
         /\ \A q \in 1 .. Len(history) : history[q].key = k => q <= Current(k).rev
  <1>1. PICK r \in Last(k) : history[r].put
    BY DEF Current
  <1>2. \A q \in Last(k) : q = r
    BY DEF Last, Revisions
  <1>3. Current(k) = history[r]
    BY <1>1, <1>2 DEF Current
  <1>4. r \in 1 .. Len(history) /\ history[r].key = k
        /\ \A q \in 1 .. Len(history) : history[q].key = k => q <= r
    BY DEF Last, Revisions
  <1>5. history[r].rev = r
    BY <1>4 DEF JInv, RevisionsOK
  <1> QED
    BY <1>1, <1>3, <1>4, <1>5 DEF Objects, Revisions

(* It is the same until somebody writes. *)
LEMMA CurrentStays ==
  ASSUME history' = history
  PROVE  /\ \A k : Current(k)' = Current(k)
         /\ \A e, k : Outdated(e, k)' <=> Outdated(e, k)
  BY DEF Current, Last, Revisions, Outdated

(* And the list API shows it when it is of the kind asked for. *)
LEMMA WantedIsListed ==
  ASSUME IInv, NEW k \in Wanted, Current(k) # None
  PROVE  Current(k) \in Listing /\ k \in Keys(Listing)
  <1>1. k \in Key /\ KeyKind[k] = WantedKind
    BY DEF Wanted
  <1>2. Current(k) \in Object /\ Current(k).key = k
    BY <1>1, CurrentWasPut, ObjectsAre DEF IInv
  <1>3. Current(k) \in Listing
    BY <1>1, <1>2, ObjectFits DEF Listing, Existing
  <1> QED
    BY <1>2, <1>3 DEF Keys

(* No key is listed twice. *)
LEMMA ListedOnce ==
  ASSUME IInv, NEW o \in Existing
  PROVE  o.key \in Key /\ o = Current(o.key)
  <1>1. PICK k \in Key : o = Current(k) /\ Current(k) # None
    BY DEF Existing
  <1>2. Current(k).key = k
    BY <1>1, CurrentWasPut DEF IInv
  <1> QED
    BY <1>1, <1>2

(* There is nothing to miss at the start. *)
LEMMA KInit == Init => KInv
  <1> SUFFICES ASSUME Init PROVE KInv
    OBVIOUS
  <1>1. /\ faults = 0 /\ connected = FALSE /\ announce = {} /\ pc = "list"
    BY DEF Init, FeedInit, InformerInit
  <1> QED
    BY <1>1 DEF KInv, FaultsOK, PhaseOK, AnnounceOK, BatchOK, AllComing

(* Somebody writes: the connection has yet to send it. *)
LEMMA WritesComing ==
  ASSUME IInv, JInv, KInv, Writes, UNCHANGED <<informerVars, driver>>
  PROVE  KInv'
  <1> DEFINE n == Len(history)
  <1>1. \E l \in Key : \E w \in Object \cup Removal :
           history' = Append(history, w) /\ w.key = l /\ w.rev = n + 1 /\ w.put \in BOOLEAN
    <2>1. CASE \E k \in Key : Remove(k)
      <3>1. PICK k \in Key : Remove(k)
        BY <2>1
      <3> DEFINE w == [key |-> k, put |-> FALSE, rev |-> Len(history) + 1]
      <3>2. Len(history) + 1 \in Nat
        BY DEF IInv, HistoryOK
      <3>3. w \in Removal /\ w.key = k /\ w.rev = n + 1 /\ w.put \in BOOLEAN
        BY <3>2 DEF Removal
      <3>4. history' = Append(history, w)
        BY <3>1 DEF Remove
      <3> QED
        BY <3>3, <3>4
    <2>2. CASE \E k \in Key, t \in 0 .. MaxTime : Put(k, t)
      <3>1. PICK k \in Key, t \in 0 .. MaxTime : Put(k, t)
        BY <2>2
      <3> DEFINE w == [key |-> k, put |-> TRUE, rev |-> Len(history) + 1,
                       namespace |-> KeyNamespace[k], kind |-> KeyKind[k], updatedAt |-> t]
      <3>2. t \in Nat /\ Len(history) + 1 \in Nat
        BY FeedAssumption DEF IInv, HistoryOK
      <3>3. w \in Object /\ w.key = k /\ w.rev = n + 1 /\ w.put \in BOOLEAN
        BY <3>2, FeedAssumption DEF Object
      <3>4. history' = Append(history, w)
        BY <3>1 DEF Put
      <3> QED
        BY <3>3, <3>4
    <2> QED
      BY <2>1, <2>2 DEF Writes
  <1>2. PICK l \in Key, w \in Object \cup Removal :
           history' = Append(history, w) /\ w.key = l /\ w.rev = n + 1 /\ w.put \in BOOLEAN
    BY <1>1
  <1>3. /\ n \in Nat /\ Len(history') = n + 1 /\ history'[n + 1] = w
        /\ \A r \in 1 .. n : history'[r] = history[r]
    BY <1>2, HistoryAppended DEF IInv
  <1>4. UNCHANGED <<connected, announce, next, resultChan, faults>>
        /\ UNCHANGED <<store, pc, batch, listed, driver>>
    BY DEF Writes, Put, Remove, informerVars, cacheVars
  <1>5. ASSUME NEW k \in Key, k # l
        PROVE  Current(k)' = Current(k)
    <2>1. Last(k)' = Last(k)
      BY <1>2, <1>3, <1>5 DEF Last, Revisions
    <2>2. \A r \in Last(k) : history'[r] = history[r]
      BY <1>3 DEF Last, Revisions
    <2> QED
      BY <2>1, <2>2 DEF Current
  <1>6. Current(l)' = IF w.put THEN w ELSE None
    <2>1. Last(l)' = {n + 1}
      BY <1>2, <1>3 DEF Last, Revisions
    <2> QED
      BY <1>3, <2>1 DEF Current
  <1>7. AnnounceOK'
    <2> SUFFICES ASSUME NEW o \in announce, NEW r \in 1 .. n + 1,
                        history'[r].key = o.key, r > o.rev
                 PROVE  r >= next
      BY <1>3, <1>4 DEF AnnounceOK
    <2>1. next \in 0 .. n + 1
      BY DEF IInv, FeedOK
    <2>2. CASE r = n + 1
      BY <1>3, <2>1, <2>2
    <2>3. CASE r \in 1 .. n
      BY <1>3, <2>3 DEF KInv, AnnounceOK
    <2> QED
      BY <1>3, <2>2, <2>3
  <1>8. Wanted' = Wanted /\ Wanted \subseteq Key
    BY DEF Wanted
  <1>9. w.put => w # store.items[l]
    <2>1. SUFFICES ASSUME w.put, w = store.items[l] PROVE FALSE
      OBVIOUS
    <2>2. w # None
      BY <1>2, <2>1, FeedAssumption, ObjectFits DEF Removal
    <2>3. w \in Objects
      BY <2>1, <2>2 DEF IInv, ItemsOK
    <2>4. w.rev \in 1 .. n
      BY <2>3, PutAtRevision
    <2> QED
      BY <1>2, <1>3, <2>4
  <1>10. BatchOK'
    <2> SUFFICES ASSUME pc = "resync"
                 PROVE  /\ \A o, p \in batch : o.key = p.key => o = p
                        /\ \A k \in Wanted : Current(k)' # None /\ store.items[k] = Current(k)' =>
                               k \in listed /\ \A o \in batch : o.key = k => o = Current(k)'
      BY <1>4, <1>8 DEF BatchOK
    <2>1. /\ \A o, p \in batch : o.key = p.key => o = p
          /\ \A k \in Wanted : Current(k) # None /\ store.items[k] = Current(k) =>
                  k \in listed /\ \A o \in batch : o.key = k => o = Current(k)
      BY DEF KInv, BatchOK
    <2>2. ASSUME NEW k \in Wanted, Current(k)' # None, store.items[k] = Current(k)'
          PROVE  k # l
      BY <1>6, <1>9, <2>2
    <2> QED
      BY <1>5, <1>8, <2>1, <2>2
  <1>11. AllComing'
    <2> SUFFICES ASSUME faults = 0, connected, NEW k \in Wanted, Current(k)' # None
                 PROVE  Coming(k)'
      BY <1>4, <1>8 DEF AllComing
    <2>1. CASE k = l
      <3>1. Current(k)'.rev = n + 1 /\ next \in 0 .. n + 1
        BY <1>2, <1>6, <2>1 DEF IInv, FeedOK
      <3> QED
        BY <1>3, <1>4, <3>1 DEF Coming
    <2>2. CASE k # l
      <3>1. Current(k)' = Current(k)
        BY <1>5, <1>8, <2>2
      <3>2. Coming(k)
        BY <3>1 DEF KInv, AllComing
      <3> QED
        BY <1>4, <3>1, <3>2 DEF Coming, InChannel, InStore, Outdated
    <2> QED
      BY <2>1, <2>2
  <1>12. FaultsOK' /\ PhaseOK'
    BY <1>4 DEF KInv, FaultsOK, PhaseOK
  <1> QED
    BY <1>7, <1>10, <1>11, <1>12 DEF KInv

(* Only the watch moves. *)
LEMMA OnlyFeed ==
  ASSUME KInv, history' = history, UNCHANGED <<informerVars, driver>>
  PROVE  /\ UNCHANGED <<store, pc, batch, listed, driver, Wanted>>
         /\ (\A k : Current(k)' = Current(k)) /\ (\A e, k : Outdated(e, k)' <=> Outdated(e, k))
         /\ BatchOK'
  <1>1. UNCHANGED <<store, pc, batch, listed, driver, Wanted>>
    BY DEF informerVars, cacheVars, Wanted
  <1> QED
    BY <1>1, CurrentStays DEF KInv, BatchOK

(* A connection is made, and its list has all that etcd holds. *)
LEMMA ConnectComing ==
  ASSUME IInv, JInv, KInv, Connect, UNCHANGED <<informerVars, driver>>,
         pc \in {"watch", "resync"}
  PROVE  KInv'
  <1>1. /\ announce' = Existing /\ next' \in {Len(history), Len(history) + 1} \ {0}
        /\ UNCHANGED <<history, resultChan, faults>>
    BY DEF Connect
  <1>2. /\ UNCHANGED <<store, pc, batch, listed, driver, Wanted>>
        /\ (\A k : Current(k)' = Current(k)) /\ BatchOK'
    BY <1>1, OnlyFeed
  <1>3. AnnounceOK'
    <2> SUFFICES ASSUME NEW o \in Existing, NEW r \in 1 .. Len(history),
                        history[r].key = o.key, r > o.rev
                 PROVE  FALSE
      BY <1>1 DEF AnnounceOK
    <2>1. o.key \in Key /\ o = Current(o.key) /\ o # None
      BY ListedOnce DEF Existing
    <2>2. r <= o.rev /\ o.rev \in 1 .. Len(history)
      BY <2>1, CurrentIsLast
    <2> QED
      BY <2>2
  <1>4. AllComing'
    <2> SUFFICES ASSUME NEW k \in Wanted, Current(k) # None PROVE Current(k) \in Existing
      BY <1>1, <1>2 DEF AllComing, Coming
    <2> QED
      BY DEF Existing, Wanted
  <1> QED
    BY <1>1, <1>2, <1>3, <1>4 DEF KInv, FaultsOK, PhaseOK

(* A line comes: it is of no importance, or it is what was to come. *)
LEMMA DeliverComing ==
  ASSUME IInv, JInv, KInv, Deliver, UNCHANGED <<informerVars, driver>>
  PROVE  KInv'
  <1> DEFINE n == Len(resultChan)
  <1>1. PICK e \in Events : NextLine(e) /\ resultChan' = Append(resultChan, e)
    BY DEF Deliver
  <1>2. UNCHANGED <<history, connected, faults>> /\ connected
    BY DEF Deliver
  <1>3. /\ UNCHANGED <<store, pc, batch, listed, driver, Wanted>>
        /\ (\A k : Current(k)' = Current(k)) /\ (\A f, k : Outdated(f, k)' <=> Outdated(f, k))
        /\ BatchOK'
    BY <1>2, OnlyFeed
  <1>4. /\ n \in Nat /\ Len(resultChan') = n + 1 /\ resultChan'[n + 1] = e
        /\ \A i \in 1 .. n : resultChan'[i] = resultChan[i]
    BY <1>1 DEF IInv, FeedOK
  <1>5. next \in 0 .. Len(history) + 1 /\ Len(history) \in Nat /\ announce \subseteq Objects
    BY DEF IInv, FeedOK, HistoryOK
  <1>6. \/ \E o \in announce : e = EventOf(o.rev) /\ announce' = announce \ {o} /\ next' = next
        \/ announce = {} /\ announce' = {} /\ next <= Len(history)
           /\ e = EventOf(next) /\ next' = next + 1
    BY <1>1 DEF NextLine
  <1>7. AnnounceOK'
    BY <1>2, <1>6 DEF KInv, AnnounceOK
  <1>8. ASSUME faults = 0, NEW k \in Wanted, Current(k) # None
        PROVE  Coming(k)'
    <2> DEFINE c == Current(k)
    <2>1. k \in Key /\ Coming(k)
      BY <1>2, <1>8 DEF KInv, AllComing, Wanted
    <2>2. /\ c \in Objects /\ c.key = k /\ c.rev \in 1 .. Len(history)
          /\ history[c.rev] = c /\ c.put
          /\ \A q \in 1 .. Len(history) : history[q].key = k => q <= c.rev
      BY <1>8, <2>1, CurrentIsLast
    <2>3. EventOf(c.rev).object = c
      BY <2>2 DEF EventOf
    <2>4. ASSUME e.object = c PROVE Coming(k)'
      <3>1. resultChan'[n + 1].object = c
        BY <1>4, <2>4
      <3>2. InChannel(k)'
        BY <1>3, <1>4, <3>1 DEF InChannel
      <3> QED
        BY <3>2 DEF Coming
    <2>5. CASE c \in announce
      <3>1. PICK o \in announce : e = EventOf(o.rev) /\ announce' = announce \ {o}
        BY <1>6, <2>5
      <3>2. CASE o = c
        BY <2>3, <2>4, <3>1, <3>2
      <3>3. CASE o # c
        BY <1>3, <2>5, <3>1, <3>3 DEF Coming
      <3> QED
        BY <3>2, <3>3
    <2>6. CASE c.rev >= next
      <3>1. CASE next' = next
        BY <1>3, <2>6, <3>1 DEF Coming
      <3>2. CASE e = EventOf(next) /\ next' = next + 1
        <4>1. CASE c.rev = next
          BY <2>3, <2>4, <3>2, <4>1
        <4>2. CASE c.rev > next
          <5>1. c.rev >= next'
            BY <1>5, <2>2, <3>2, <4>2
          <5> QED
            BY <1>3, <5>1 DEF Coming
        <4> QED
          BY <1>5, <2>2, <2>6, <4>1, <4>2
      <3> QED
        BY <1>6, <3>1, <3>2
    <2>7. CASE ~(c.rev >= next) /\ (InChannel(k) \/ InStore(k))
      <3>1. ~Outdated(e, k)
        <4>1. CASE \E o \in announce : e = EventOf(o.rev)
          <5>1. PICK o \in announce : e = EventOf(o.rev)
            BY <4>1
          <5>2. o.rev \in 1 .. Len(history) /\ history[o.rev] = o /\ o.put
            BY <1>5, PutAtRevision
          <5>3. e.object = o
            BY <5>1, <5>2 DEF EventOf
          <5>4. o.key = k => o.rev <= c.rev /\ ~(c.rev > o.rev)
            BY <2>2, <2>7, <5>2 DEF KInv, AnnounceOK
          <5>5. o.key = k => o = c
            BY <2>2, <5>2, <5>4
          <5> QED
            BY <5>3, <5>5 DEF Outdated
        <4>2. CASE e = EventOf(next) /\ next <= Len(history) /\ announce = {}
          <5>1. next \in 1 .. Len(history) => history[next].key # k
            BY <2>2, <2>7
          <5>2. next \in 1 .. Len(history)
            BY <1>5, <2>2, <2>7, <4>2
          <5> QED
            BY <4>2, <5>1, <5>2 DEF Outdated, EventOf
        <4> QED
          BY <1>6, <4>1, <4>2
      <3>2. CASE InChannel(k)
        <4>1. PICK j \in 1 .. n : /\ resultChan[j].object = c
                                  /\ \A i \in j + 1 .. n : ~Outdated(resultChan[i], k)
          BY <3>2 DEF InChannel
        <4>2. j \in 1 .. n + 1 /\ resultChan'[j].object = c
          BY <1>4, <4>1
        <4>3. \A i \in j + 1 .. n + 1 : ~Outdated(resultChan'[i], k)
          <5> TAKE i \in j + 1 .. n + 1
          <5>1. CASE i = n + 1
            BY <1>4, <3>1, <5>1
          <5>2. CASE i # n + 1
            BY <1>4, <4>1, <5>2
          <5> QED
            BY <5>1, <5>2
        <4>4. InChannel(k)'
          BY <1>3, <1>4, <4>2, <4>3 DEF InChannel
        <4> QED
          BY <4>4 DEF Coming
      <3>3. CASE InStore(k)
        <4>1. \A i \in 1 .. n + 1 : ~Outdated(resultChan'[i], k)
          <5> TAKE i \in 1 .. n + 1
          <5>1. CASE i = n + 1
            BY <1>4, <3>1, <5>1
          <5>2. CASE i # n + 1
            BY <1>4, <3>3, <5>2 DEF InStore
          <5> QED
            BY <5>1, <5>2
        <4>2. InStore(k)'
          BY <1>3, <1>4, <3>3, <4>1 DEF InStore
        <4> QED
          BY <4>2 DEF Coming
      <3> QED
        BY <2>7, <3>2, <3>3
    <2> QED
      BY <2>1, <2>5, <2>6, <2>7 DEF Coming
  <1>9. AllComing'
    BY <1>2, <1>3, <1>8 DEF AllComing
  <1> QED
    BY <1>2, <1>3, <1>7, <1>9 DEF KInv, FaultsOK, PhaseOK

(* The connection goes, and a line that is lost counts as a fault. *)
LEMMA WatchComing ==
  ASSUME IInv, JInv, KInv, InWatch(Watching \/ Lose)
  PROVE  KInv'
  <1>1. pc \in {"watch", "resync"} /\ UNCHANGED <<informerVars, driver>>
    BY DEF InWatch, Elsewhere
  <1>2. faults \in Nat
    BY DEF KInv, FaultsOK
  <1>3. CASE Disconnect
    <2>1. connected' = FALSE /\ announce' = {} /\ history' = history /\ faults' \in Nat
      BY <1>2, <1>3 DEF Disconnect, Fault
    <2> QED
      BY <1>1, <2>1, OnlyFeed DEF KInv, FaultsOK, PhaseOK, AnnounceOK, AllComing
  <1>4. CASE Lose
    <2>1. faults' = faults + 1 /\ UNCHANGED <<history, connected>>
      BY <1>4 DEF Lose, Fault
    <2>2. AnnounceOK'
      <3>1. PICK e : NextLine(e)
        BY <1>4 DEF Lose
      <3>2. announce' \subseteq announce /\ (announce' # {} => next' = next)
        BY <3>1 DEF NextLine
      <3> QED
        BY <2>1, <3>2 DEF KInv, AnnounceOK
    <2>3. BatchOK' /\ PhaseOK'
      BY <1>1, <2>1, OnlyFeed DEF KInv, PhaseOK
    <2> QED
      BY <1>2, <2>1, <2>2, <2>3 DEF KInv, FaultsOK, AllComing
  <1> QED
    BY <1>1, <1>3, <1>4, ConnectComing, DeliverComing DEF InWatch, Elsewhere, Watching

(* The feed and the list being worked off stay; what etcd holds and the      *)
(* store has already, the store keeps.                                       *)
LEMMA StoreKeepsComing ==
  ASSUME KInv, UNCHANGED <<history, connected, announce, next, resultChan>>,
         faults' \in Nat, faults' = 0 => faults = 0,
         \A k \in Wanted : Current(k) # None /\ store.items[k] = Current(k)
                               => store'.items[k] = Current(k)
  PROVE  FaultsOK' /\ AnnounceOK' /\ AllComing'
  <1>1. Wanted' = Wanted /\ \A k : Current(k)' = Current(k)
    BY CurrentStays DEF Wanted
  <1>2. \A e, k : Outdated(e, k)' <=> Outdated(e, k)
    BY CurrentStays
  <1>3. \A k \in Wanted : Current(k) # None /\ Coming(k) => Coming(k)'
    BY <1>1, <1>2 DEF Coming, InChannel, InStore
  <1> QED
    BY <1>1, <1>3 DEF KInv, FaultsOK, AnnounceOK, AllComing

(* The first event is taken from the channel and goes into the store.       *)
LEMMA TakeComing ==
  ASSUME IInv, KInv, resultChan # <<>>, resultChan' = Tail(resultChan),
         UNCHANGED <<history, connected, announce, next, faults>>,
         \A k \in Wanted :
             store'.items[k] = IF Head(resultChan).object # None /\ Head(resultChan).object.key = k
                               THEN Head(resultChan).object ELSE store.items[k]
  PROVE  FaultsOK' /\ AnnounceOK' /\ AllComing'
  <1> DEFINE n == Len(resultChan)
             e == Head(resultChan)
  <1>1. Wanted' = Wanted /\ (\A k : Current(k)' = Current(k))
        /\ \A f, k : Outdated(f, k)' <=> Outdated(f, k)
    BY CurrentStays DEF Wanted
  <1>2. /\ n \in Nat \ {0} /\ e = resultChan[1] /\ Len(resultChan') = n - 1
        /\ \A i \in 1 .. n - 1 : resultChan'[i] = resultChan[i + 1]
    BY DEF IInv, FeedOK
  <1>3. ASSUME NEW k \in Wanted, Current(k) # None, Coming(k)
        PROVE  Coming(k)'
    <2>1. CASE Current(k) \in announce \/ Current(k).rev >= next
      BY <1>1, <2>1 DEF Coming
    <2>2. CASE InStore(k)
      <3>1. ~Outdated(e, k)
        BY <1>2, <2>2 DEF InStore
      <3>2. store'.items[k] = Current(k)
        BY <2>2, <3>1 DEF InStore, Outdated
      <3>3. \A i \in 1 .. n - 1 : ~Outdated(resultChan'[i], k)
        BY <1>2, <2>2 DEF InStore
      <3>4. InStore(k)'
        BY <1>1, <1>2, <3>2, <3>3 DEF InStore
      <3> QED
        BY <3>4 DEF Coming
    <2>3. CASE InChannel(k)
      <3>1. PICK j \in 1 .. n : /\ resultChan[j].object = Current(k)
                                /\ \A i \in j + 1 .. n : ~Outdated(resultChan[i], k)
        BY <2>3 DEF InChannel
      <3>2. CASE j = 1
        <4>1. e.object = Current(k) /\ Current(k).key = k
          BY <1>2, <1>3, <3>1, <3>2, CurrentWasPut DEF IInv, Wanted
        <4>2. store'.items[k] = Current(k)
          BY <1>3, <4>1
        <4>3. \A i \in 1 .. n - 1 : ~Outdated(resultChan'[i], k)
          BY <1>2, <3>1, <3>2
        <4>4. InStore(k)'
          BY <1>1, <1>2, <4>2, <4>3 DEF InStore
        <4> QED
          BY <4>4 DEF Coming
      <3>3. CASE j # 1
        <4>1. j - 1 \in 1 .. n - 1 /\ resultChan'[j - 1].object = Current(k)
          BY <1>2, <3>1, <3>3
        <4>2. \A i \in (j - 1) + 1 .. n - 1 : ~Outdated(resultChan'[i], k)
          <5> TAKE i \in (j - 1) + 1 .. n - 1
          <5>1. i \in 1 .. n - 1 /\ i + 1 \in j + 1 .. n
            BY <1>2, <3>1
          <5> QED
            BY <1>2, <3>1, <5>1
        <4>3. InChannel(k)'
          BY <1>1, <1>2, <4>1, <4>2 DEF InChannel
        <4> QED
          BY <4>3 DEF Coming
      <3> QED
        BY <3>2, <3>3
    <2> QED
      BY <1>3, <2>1, <2>2, <2>3 DEF Coming
  <1> QED
    BY <1>1, <1>3 DEF KInv, FaultsOK, AnnounceOK, AllComing

(* Neither the store nor the feed is touched, nor a resync begun. *)
LEMMA QuietComing ==
  ASSUME KInv, UNCHANGED <<history, connected, announce, next, resultChan, store, driver>>,
         faults' \in Nat, faults' = 0 => faults = 0, PhaseOK',
         pc' = "resync" => UNCHANGED <<pc, batch, listed>>
  PROVE  KInv'
  <1>1. FaultsOK' /\ AnnounceOK' /\ AllComing'
    BY StoreKeepsComing
  <1>2. BatchOK'
    BY CurrentStays DEF KInv, BatchOK, Wanted
  <1> QED
    BY <1>1, <1>2 DEF KInv

(* The steps of the informer. *)
LEMMA RunComing ==
  ASSUME IInv, JInv, KInv, driver = "informer", driver' = driver, Run \/ Handlers
  PROVE  KInv'
  <1> USE DEF Steady, feedVars, cacheVars
  <1>0. faults \in Nat /\ Wanted' = Wanted /\ Wanted \subseteq Key
    BY DEF KInv, FaultsOK, Wanted
  <1>1. CASE Handlers \/ InitialList \/ ListFails \/ Stop \/ ResyncEnd \/ Notify
    <2>1. /\ UNCHANGED <<history, connected, announce, next, resultChan>>
          /\ UNCHANGED store
      BY <1>1 DEF Handlers, AddEventHandler, ReadStore, Replay, InitialList, ListFails, Stop, ResyncEnd,
             Notify
    <2>2. faults' \in Nat /\ (faults' = 0 => faults = 0)
      BY <1>0, <1>1 DEF Handlers, AddEventHandler, ReadStore, Replay, InitialList, ListFails, Stop,
             ResyncEnd, Notify, Fault
    <2>3. PhaseOK' /\ (pc' = "resync" => UNCHANGED <<pc, batch, listed>>)
      BY <1>1 DEF Handlers, AddEventHandler, ReadStore, Replay, InitialList, ListFails, Stop, ResyncEnd,
             Notify, KInv, PhaseOK
    <2> QED
      BY <2>1, <2>2, <2>3, QuietComing
  <1>2. CASE AddListed
    <2>1. ~connected /\ UNCHANGED <<history, connected, announce, next, faults, pc>> /\ pc = "adding"
      BY <1>2 DEF AddListed, KInv, PhaseOK
    <2> QED
      BY <2>1 DEF KInv, FaultsOK, PhaseOK, AnnounceOK, BatchOK, AllComing
  <1>3. CASE StartWatch
    <2>1. ~connected' /\ announce' = {} /\ UNCHANGED <<history, faults>> /\ pc' = "watch"
      BY <1>3 DEF StartWatch, NewWatch
    <2> QED
      BY <2>1 DEF KInv, FaultsOK, PhaseOK, AnnounceOK, BatchOK, AllComing
  <1>4. CASE Receive
    <2> DEFINE e == Head(resultChan)
    <2>1. e \in AnyEvent /\ pc = "watch" /\ pc' = pc
      BY <1>4, TakeKeepsFeed DEF Receive
    <2>2. \/ e.object = None /\ UNCHANGED store
          \/ e.object # None /\ (AddAndNotify(e.object) \/ UpdateAndNotify(e.object))
      BY <1>4 DEF Receive, HandleWatchEvent
    <2>3. e.object # None => e.object \in Objects
      BY <2>1 DEF AnyEvent
    <2> HIDE DEF e
    <2>4. \A k \in Key : store'.items[k] = IF e.object # None /\ e.object.key = k
                                           THEN e.object ELSE store.items[k]
      BY <2>2, <2>3, ArrivesAtKey
    <2>5. FaultsOK' /\ AnnounceOK' /\ AllComing'
      BY <1>0, <1>4, <2>4, TakeComing DEF Receive, e
    <2> QED
      BY <2>1, <2>5 DEF KInv, PhaseOK, BatchOK
  <1>5. CASE Resync
    <2>1. /\ UNCHANGED <<feedVars, store>> /\ pc' = "resync"
          /\ batch' = Listing /\ listed' = Keys(Listing)
      BY <1>5 DEF Resync
    <2>2. FaultsOK' /\ AnnounceOK' /\ AllComing'
      BY <1>0, <2>1, StoreKeepsComing
    <2>3. \A o, p \in Listing : o.key = p.key => o = p
      BY ListedOnce DEF Listing
    <2>4. \A k \in Wanted : Current(k) # None =>
              k \in Keys(Listing) /\ \A o \in Listing : o.key = k => o = Current(k)
      BY WantedIsListed, <2>3, CurrentWasPut, <1>0 DEF IInv
    <2>5. BatchOK'
      BY <1>0, <2>1, <2>3, <2>4, CurrentStays DEF BatchOK
    <2> QED
      BY <2>1, <2>2, <2>5 DEF PhaseOK, KInv
  <1>6. CASE ResyncItem
    <2>1. PICK o \in batch : /\ UNCHANGED store \/ AddAndNotify(o) \/ UpdateAndNotify(o)
                             /\ batch' = batch \ {o}
      BY <1>6 DEF ResyncItem
    <2>2. o \in Objects /\ pc = "resync" /\ UNCHANGED <<feedVars, pc, listed>>
      BY <1>6 DEF ResyncItem, IInv, RunOK
    <2>3. UNCHANGED store \/ /\ store'.items[o.key] = o
                             /\ \A k \in Key \ {o.key} : store'.items[k] = store.items[k]
      BY <2>1, <2>2, ArrivesAtKey
    <2>4. /\ o.key \in listed /\ \A p \in batch : p.key = o.key => p = o
          /\ \A k \in Wanted : Current(k) # None /\ store.items[k] = Current(k) =>
                  k \in listed /\ \A p \in batch : p.key = k => p = Current(k)
      BY <2>2 DEF JInv, ResyncOK, Keys, KInv, BatchOK
    <2>5. FaultsOK' /\ AnnounceOK' /\ AllComing'
      <3>1. \A k \in Wanted : Current(k) # None /\ store.items[k] = Current(k)
                                  => store'.items[k] = Current(k)
        BY <1>0, <2>3, <2>4
      <3> QED
        BY <1>0, <2>2, <3>1, StoreKeepsComing
    <2>6. BatchOK'
      <3>1. \A p, q \in batch' : p.key = q.key => p = q
        BY <2>1, <2>2 DEF KInv, BatchOK
      <3>2. ASSUME NEW k \in Wanted, Current(k) # None, store'.items[k] = Current(k)
            PROVE  k \in listed /\ \A p \in batch' : p.key = k => p = Current(k)
        <4>1. CASE store.items[k] = Current(k)
          BY <2>1, <2>4, <3>2, <4>1
        <4>2. CASE store.items[k] # Current(k)
          <5>1. k = o.key
            BY <1>0, <2>3, <3>2, <4>2
          <5> QED
            BY <2>1, <2>4, <5>1
        <4> QED
          BY <4>1, <4>2
      <3> QED
        BY <1>0, <2>2, <3>1, <3>2, CurrentStays DEF BatchOK
    <2> QED
      BY <2>2, <2>5, <2>6 DEF PhaseOK, KInv
  <1>7. CASE ResyncDelete
    <2>1. PICK l \in ListKeys(store) \ listed : DeleteAndNotify(l)
      BY <1>7 DEF ResyncDelete
    <2>2. l \in Key /\ pc = "resync" /\ UNCHANGED <<feedVars, pc, batch, listed>>
      BY <1>7 DEF ResyncDelete, ListKeys
    <2> DEFINE i == [store.items EXCEPT ![l] = None]
    <2>3. store' = Indexed(i, store.edited \ {l})
      BY <2>1, <2>2, StoreChangesNow DEF DeleteAndNotify, IInv
    <2>4. i[l] = None /\ \A k \in Key \ {l} : i[k] = store.items[k]
      BY <2>2 DEF IInv, ItemsOK
    <2> HIDE DEF i
    <2>5. store'.items = i
      BY <2>3, IndexedIs
    <2>6. \A k \in Wanted : Current(k) # None /\ store.items[k] = Current(k) => k \in listed
      BY <2>2 DEF KInv, BatchOK
    <2>7. FaultsOK' /\ AnnounceOK' /\ AllComing'
      <3>1. \A k \in Wanted : Current(k) # None /\ store.items[k] = Current(k)
                                  => store'.items[k] = Current(k)
        BY <1>0, <2>1, <2>4, <2>5, <2>6
      <3> QED
        BY <1>0, <2>2, <3>1, StoreKeepsComing
    <2>8. BatchOK'
      <3>1. \A k \in Wanted : Current(k) # None /\ store'.items[k] = Current(k)
                                  => store.items[k] = Current(k)
        BY <1>0, <2>4, <2>5
      <3> QED
        BY <1>0, <2>2, <3>1, CurrentStays DEF KInv, BatchOK
    <2> QED
      BY <2>2, <2>7, <2>8 DEF PhaseOK, KInv
  <1> QED
    BY <1>1, <1>2, <1>3, <1>4, <1>5, <1>6, <1>7 DEF Run, Working

(* The steps of the reflector. *)
LEMMA ReflectorComing ==
  ASSUME IInv, JInv, KInv, driver = "reflector", driver' = driver, R!Run
  PROVE  KInv'
  <1>0. faults \in Nat /\ Wanted' = Wanted /\ Wanted \subseteq Key /\ pc # "resync"
    BY DEF KInv, FaultsOK, Wanted, PhaseOK
  <1>1. /\ history' = history /\ pc' # "resync"
        /\ pc' \in {"list", "adding"} => UNCHANGED <<pc, connected>>
    BY <1>0 DEF R!Run, R!Working, R!RunLists, R!StartWatch, R!Relist, R!Receive, R!Resync, R!Stop,
             R!HandleWatchEvent, R!NewWatch, R!feedVars
  <1>2. PhaseOK' /\ BatchOK'
    BY <1>1 DEF KInv, PhaseOK, BatchOK
  <1>3. SUFFICES FaultsOK' /\ AnnounceOK' /\ AllComing'
    BY <1>2 DEF KInv
  <1>4. CASE R!StartWatch
    <2>1. ~connected' /\ announce' = {} /\ faults' = faults
      BY <1>4 DEF R!StartWatch, R!NewWatch
    <2> QED
      BY <1>0, <2>1 DEF FaultsOK, AnnounceOK, AllComing
  <1>5. CASE R!Stop
    BY <1>0, <1>5, StoreKeepsComing DEF R!Stop, R!feedVars
  <1>6. CASE R!Receive
    <2> DEFINE e == Head(resultChan)
    <2>1. e \in AnyEvent
      BY <1>6, TakeKeepsFeed DEF R!Receive
    <2>2. \/ e.type \in {"ERROR", "DELETED"} /\ store' = store
          \/ /\ e.type \in {"ADDED", "MODIFIED"}
             /\ store' = Add(store, e.object.key, e.object) \/ store' = Update(store, e.object.key, e.object)
      BY <1>6, SameForReflector DEF R!Receive, R!HandleWatchEvent
    <2>3. (e.object # None <=> e.type \in {"ADDED", "MODIFIED"}) /\ (e.object # None => e.object \in Objects)
      BY <2>1 DEF AnyEvent
    <2> HIDE DEF e
    <2>4. \A k \in Key : store'.items[k] = IF e.object # None /\ e.object.key = k
                                           THEN e.object ELSE store.items[k]
      <3>1. CASE e.object = None
        BY <2>2, <2>3, <3>1
      <3>2. CASE e.object # None
        <4> DEFINE o == e.object
                   i == [store.items EXCEPT ![o.key] = o]
        <4>1. o \in Object /\ o.key \in Key
          BY <2>3, <3>2, ObjectsAre, ObjectFits DEF IInv
        <4>2. store' = Indexed(i, store.edited \ {o.key})
          BY <2>2, <2>3, <3>2, <4>1, StoreChangesNow DEF IInv
        <4>3. i[o.key] = o /\ \A k \in Key \ {o.key} : i[k] = store.items[k]
          BY <4>1 DEF IInv, ItemsOK
        <4> HIDE DEF i
        <4>4. store'.items = i
          BY <4>2, IndexedIs
        <4> QED
          BY <3>2, <4>3, <4>4
      <3> QED
        BY <3>1, <3>2
    <2> QED
      BY <1>0, <1>6, <2>4, TakeComing DEF R!Receive, e
  <1>7. CASE R!RunLists \/ R!Resync \/ R!Relist
    <2>1. UNCHANGED <<history, connected, announce, next, resultChan>>
      BY <1>7 DEF R!RunLists, R!Resync, R!Relist
    <2>2. faults' \in Nat /\ (faults' = 0 => faults = 0)
      BY <1>0, <1>7 DEF R!RunLists, R!Resync, R!Relist, R!Fault
    <2>3. CASE store' = store
      BY <2>1, <2>2, <2>3, StoreKeepsComing
    <2>4. CASE R!ListAndSync
      <3> DEFINE i == [k \in Key |-> IF \E o \in Listing : o.key = k THEN Current(k) ELSE None]
      <3>1. store' = Replace(i)
        <4>1. i = [k \in Key |-> IF \E o \in R!Listing : o.key = k THEN R!Current(k) ELSE None]
          BY SameForReflector
        <4> HIDE DEF i
        <4> QED
          BY <2>4, <4>1, SameForReflector DEF R!ListAndSync
      <3>2. \A k \in Wanted : Current(k) # None => i[k] = Current(k)
        BY <1>0, WantedIsListed DEF Keys
      <3> HIDE DEF i
      <3>3. store'.items = i
        BY <3>1, IndexedIs
      <3> QED
        BY <2>1, <2>2, <3>2, <3>3, StoreKeepsComing
    <2> QED
      BY <1>7, <2>3, <2>4 DEF R!RunLists, R!Resync, R!Relist
  <1> QED
    BY <1>4, <1>5, <1>6, <1>7 DEF R!Run, R!Working

(* Every step. *)
LEMMA KNext ==
  ASSUME IInv, JInv, KInv, [Next]_vars
  PROVE  KInv'
  <1>1. CASE UNCHANGED vars
    <2>1. /\ UNCHANGED <<history, connected, announce, next, resultChan, faults>>
          /\ UNCHANGED <<store, driver, pc, batch, listed>>
      BY <1>1 DEF vars, feedVars, informerVars, cacheVars
    <2> QED
      BY <2>1, QuietComing DEF KInv, FaultsOK, PhaseOK
  <1>2. CASE Elsewhere(Writes)
    BY <1>2, WritesComing DEF Elsewhere
  <1>3. CASE InWatch(Watching \/ Lose)
    BY <1>3, WatchComing
  <1>4. CASE Informing(Run \/ Handlers)
    BY <1>4, RunComing DEF Informing
  <1>5. CASE Reflecting(R!Run)
    BY <1>5, ReflectorComing DEF Reflecting
  <1>6. CASE \E h \in Handler, k \in Key : EditPhase(h, k)
    <2>1. PICK h \in Handler, k \in Key : EditPhase(h, k)
      BY <1>6
    <2>2. store'.items = store.items /\ UNCHANGED <<feedVars, pc, batch, listed, driver>>
      BY <2>1, EditIs DEF EditPhase
    <2>3. FaultsOK' /\ AnnounceOK' /\ AllComing'
      BY <2>2, StoreKeepsComing DEF feedVars, KInv, FaultsOK
    <2>4. PhaseOK' /\ BatchOK'
      BY <2>2, CurrentStays DEF feedVars, KInv, PhaseOK, BatchOK, Wanted
    <2> QED
      BY <2>3, <2>4 DEF KInv
  <1> QED
    BY <1>1, <1>2, <1>3, <1>4, <1>5, <1>6 DEF Next

(* While no call failed and no line was lost, a client that has caught up    *)
(* with its watch holds all that etcd holds of its kind, through any number  *)
(* of connections, resyncs and removals (typed/nodeexec.go, informer.go,     *)
(* reflector.go).                                                            *)
THEOREM MissesNothing == Spec => []NothingMissing
  <1>1. Init => JInv
    BY DEF Init, FeedInit, InformerInit, JInv, RevisionsOK, ResyncOK
  <1>2. IInv /\ IInv' /\ JInv /\ [Next]_vars => JInv'
    BY CopyNext
  <1>3. IInv /\ JInv /\ KInv /\ [Next]_vars => KInv'
    BY KNext
  <1>4. ASSUME IInv, JInv, KInv
        PROVE  NothingMissing
    <2> SUFFICES ASSUME faults = 0, CaughtUp, NEW k \in Wanted, Current(k) # None
                 PROVE  store.items[k] = Current(k)
      BY DEF NothingMissing
    <2>1. connected /\ announce = {} /\ next > Len(history) /\ resultChan = <<>>
      BY DEF CaughtUp
    <2>2. Coming(k)
      BY <1>4, <2>1 DEF KInv, AllComing
    <2>3. Current(k).rev \in 1 .. Len(history) /\ next \in Nat /\ Len(history) \in Nat
      BY <1>4, CurrentIsLast DEF Wanted, IInv, FeedOK, HistoryOK
    <2>4. ~InChannel(k)
      BY <2>1 DEF InChannel
    <2> QED
      BY <2>1, <2>2, <2>3, <2>4 DEF Coming, InStore
  <1> QED
    BY <1>1, <1>2, <1>3, <1>4, KInit, InvHolds, PTL DEF Spec
=============================================================================

-------------------------------- MODULE Store --------------------------------
(***************************************************************************)
(* The local store of the client (client_pipe/cache/store.go): objects by  *)
(* key, and two indices from an attribute of the objects to the objects by *)
(* key. Each operation runs under the lock of the store; here it is a      *)
(* function from store to store. A missing entry is None.                  *)
(*                                                                         *)
(* copyObject copies an object but for its Phase, which the store, the     *)
(* handlers and the readers of the store go on to share: who writes to it  *)
(* writes to the store. edited has the keys where somebody has.            *)
(***************************************************************************)
CONSTANTS
    Key, Namespace, Kind,
    Blank,        \* the empty string: an object without the attribute, or no condition
    None

Nothing == [k \in Key |-> None]

Holding(items, namespaceIndex, kindIndex, edited) ==
    [items |-> items, namespaceIndex |-> namespaceIndex, kindIndex |-> kindIndex, edited |-> edited]

EmptyStore ==
    Holding(Nothing, [n \in Namespace |-> Nothing], [d \in Kind |-> Nothing], {})

ListKeys(s) == {k \in Key : s.items[k] # None}
List(s) == {s.items[k] : k \in ListKeys(s)}
Get(s, k) == s.items[k]

SetEntry(index, attribute, k, o) ==
    IF attribute = Blank THEN index ELSE [index EXCEPT ![attribute][k] = o]

AddToIndex(s, k, o) ==
    Holding(s.items, SetEntry(s.namespaceIndex, o.namespace, k, o),
            SetEntry(s.kindIndex, o.kind, k, o), s.edited)

(* A defect the code could have: removed from one index only. *)
RemoveFromOneIndex(s, k, o) ==
    Holding(s.items, s.namespaceIndex, SetEntry(s.kindIndex, o.kind, k, None), s.edited)

RemoveFromIndex(s, k, o) ==
    Holding(s.items, SetEntry(s.namespaceIndex, o.namespace, k, None),
            SetEntry(s.kindIndex, o.kind, k, None), s.edited)

Unindexed(s, k) == IF Get(s, k) = None THEN s ELSE RemoveFromIndex(s, k, Get(s, k))

(* The new object comes with a Phase of its own. *)
SetItem(s, k, o) ==
    Holding([s.items EXCEPT ![k] = o], s.namespaceIndex, s.kindIndex, s.edited \ {k})

(* What the object at k was indexed under before stays. *)
Add(s, k, o) == AddToIndex(SetItem(s, k, o), k, o)

Update(s, k, o) == Add(Unindexed(s, k), k, o)

Delete(s, k) == SetItem(Unindexed(s, k), k, None)

Having(items, attribute, value) ==
    [k \in Key |-> IF items[k] # None /\ items[k][attribute] = value THEN items[k] ELSE None]

Replace(items) ==
    Holding(items, [n \in Namespace |-> Having(items, "namespace", n)],
            [d \in Kind |-> Having(items, "kind", d)], {})

(* Somebody writes to the Phase of the object at k (copyObject). *)
Edit(s, k) == [s EXCEPT !.edited = @ \cup {k}]

GetByNamespaceAndKind(s, n, d) ==
    IF n # Blank /\ d # Blank
    THEN {s.namespaceIndex[n][k] : k \in {k \in Key : s.namespaceIndex[n][k] # None
                                                      /\ s.kindIndex[d][k] # None}}
    ELSE LET found == IF n # Blank THEN s.namespaceIndex[n]
                      ELSE IF d # Blank THEN s.kindIndex[d] ELSE s.items
         IN  {found[k] : k \in Key} \ {None}

(* What a lister should answer. *)
Matching(s, n, d) ==
    {o \in List(s) : (n = Blank \/ o.namespace = n) /\ (d = Blank \/ o.kind = d)}
=============================================================================

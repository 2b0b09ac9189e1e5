------------------------------- MODULE Reflector -------------------------------
(***************************************************************************)
(* The reflector (client_pipe/cache/reflector.go), a second way to fill a  *)
(* store: each list replaces the store, and any trouble with the watch     *)
(* leads to a new list and a new watch. It tells nobody. The watch asks    *)
(* for the resource version of the list, which the server does not read.   *)
(***************************************************************************)
EXTENDS NodeFeed

VARIABLES store, pc

reflectorVars == <<store, pc>>

NewReflector == store = EmptyStore /\ pc = "list"

(* listAndSync: nobody else writes the store, so answer and Replace are one *)
(* step.                                                                    *)
ListAndSync ==
    store' = Replace([k \in Key |-> IF \E o \in Listing : o.key = k THEN Current(k) ELSE None])

(* The first list: a failure ends Run. *)
RunLists ==
    /\ pc = "list"
    /\ \/ pc' = "start" /\ ListAndSync /\ UNCHANGED faults
       \/ pc' = "failed" /\ Fault /\ UNCHANGED store
    /\ UNCHANGED <<history, connected, announce, next, resultChan>>

StartWatch ==
    /\ pc = "start" /\ pc' = "watch" /\ NewWatch
    /\ UNCHANGED <<history, faults, store>>

(* handleWatchEvent: an error ends the watch; without an object nothing      *)
(* happens, which is what a removal looks like.                              *)
HandleWatchEvent(event) ==
    \/ event.type = "ERROR" /\ pc' = "ended" /\ UNCHANGED store
    \/ event.type = "DELETED" /\ UNCHANGED <<pc, store>>
    \/ event.type = "ADDED" /\ store' = Add(store, event.object.key, event.object) /\ UNCHANGED pc
    \/ event.type = "MODIFIED" /\ store' = Update(store, event.object.key, event.object) /\ UNCHANGED pc

Receive ==
    /\ pc = "watch" /\ resultChan # <<>>
    /\ HandleWatchEvent(Head(resultChan)) /\ resultChan' = Tail(resultChan)
    /\ UNCHANGED <<history, connected, announce, next, faults>>

(* The ticker: a list that fails ends the watch, too. *)
Resync ==
    /\ pc = "watch"
    /\ \/ ListAndSync /\ UNCHANGED <<pc, faults>>
       \/ pc' = "ended" /\ Fault /\ UNCHANGED store
    /\ UNCHANGED <<history, connected, announce, next, resultChan>>

(* A second after the end of a watch; a failure is only logged. *)
Relist ==
    /\ pc = "ended" /\ pc' = "start"
    /\ \/ ListAndSync /\ UNCHANGED faults
       \/ Fault /\ UNCHANGED store
    /\ UNCHANGED <<history, connected, announce, next, resultChan>>

Stop ==
    /\ pc \in {"start", "watch", "ended"} /\ pc' = "stopped"
    /\ UNCHANGED <<feedVars, store>>

Working == RunLists \/ StartWatch \/ Relist

Run == Working \/ Receive \/ Resync \/ Stop
=============================================================================

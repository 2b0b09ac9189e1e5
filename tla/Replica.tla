------------------------------- MODULE Replica -------------------------------
(***************************************************************************)
(* What a local copy of the nodes promises: it holds what etcd held at     *)
(* some time and forgets an object only because etcd removed its key after *)
(* that. (A key that is not wanted may be dropped at any time.) Its        *)
(* readers may write to the phase of what it holds; that differs from etcd *)
(* at the edited keys, until the copy gets the key anew.                   *)
(***************************************************************************)
EXTENDS Naturals, Sequences

CONSTANTS Key, Wanted, None

VARIABLES history, copy, edited

vars == <<history, copy, edited>>

Init == history = <<>> /\ copy = [k \in Key |-> None] /\ edited = {}

(* Somebody writes. *)
Write ==
    /\ Len(history') = Len(history) + 1
    /\ SubSeq(history', 1, Len(history)) = history
    /\ UNCHANGED <<copy, edited>>

Held(k, o) == \E r \in 1 .. Len(history) : history[r] = o /\ o.key = k /\ o.put

RemovedAfter(k, o) ==
    \E r \in 1 .. Len(history) : history[r].key = k /\ ~history[r].put /\ r > o.rev

Follows(k) ==
    \/ copy'[k] = copy[k]
    \/ copy'[k] # None /\ Held(k, copy'[k])
    \/ copy'[k] = None /\ (k \in Wanted => RemovedAfter(k, copy[k]))

(* What is new is as etcd held it, and the copy edits nothing itself. *)
Follow ==
    /\ UNCHANGED history /\ \A k \in Key : Follows(k)
    /\ edited' \subseteq {k \in edited : copy'[k] = copy[k]}

Edit ==
    /\ \E k \in Key : copy[k] # None /\ edited' = edited \cup {k}
    /\ UNCHANGED <<history, copy>>

Next == Write \/ Follow \/ Edit

Spec == Init /\ [][Next]_vars
=============================================================================

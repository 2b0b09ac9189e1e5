----------------------------- MODULE SharedPool -----------------------------
(***************************************************************************)
(* What a work queue promises its consumers: an item is pending or not,    *)
(* however often it was added; it is in the hands of at most one consumer; *)
(* and an item added while it is in someone's hands is pending again.      *)
(***************************************************************************)
CONSTANTS Item, Consumer, None

VARIABLES
    pending,  \* items with work to do
    taken,    \* the item each consumer works on, or None
    open      \* FALSE once the pool refuses items

vars == <<pending, taken, open>>

Init == pending = {} /\ taken = [c \in Consumer |-> None] /\ open = TRUE

Put(i) == open /\ pending' = pending \cup {i} /\ UNCHANGED <<taken, open>>

Take(c, i) ==
    /\ taken[c] = None
    /\ i \in pending /\ \A d \in Consumer : taken[d] # i
    /\ pending' = pending \ {i}
    /\ taken' = [taken EXCEPT ![c] = i]
    /\ UNCHANGED open

Release(c) == taken' = [taken EXCEPT ![c] = None] /\ UNCHANGED <<pending, open>>

Close == open' = FALSE /\ UNCHANGED <<pending, taken>>

Next ==
    \/ \E i \in Item : Put(i)
    \/ \E c \in Consumer : Release(c) \/ \E i \in Item : Take(c, i)
    \/ Close

Spec == Init /\ [][Next]_vars
=============================================================================

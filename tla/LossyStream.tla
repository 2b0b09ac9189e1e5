----------------------------- MODULE LossyStream -----------------------------
(***************************************************************************)
(* What a watch promises to whoever reads its result channel: a bounded    *)
(* buffer that holds lines of the server in the order it wrote them, some  *)
(* of them missing, with notes of errors (0) between them, and that takes  *)
(* nothing more once it is closed.                                         *)
(***************************************************************************)
EXTENDS Naturals, Sequences

CONSTANTS
    Line,       \* numbers of lines
    Cap         \* capacity of the buffer

VARIABLES
    buffer,     \* what waits for the reader
    last,       \* the last line that was taken in
    open

vars == <<buffer, last, open>>

Init == buffer = <<>> /\ last = 0 /\ open = TRUE

TakeIn(e) ==
    /\ open /\ Len(buffer) < Cap
    /\ e = 0 \/ e > last
    /\ buffer' = Append(buffer, e)
    /\ last' = IF e = 0 THEN last ELSE e
    /\ UNCHANGED open

HandOut ==
    /\ buffer # <<>> /\ buffer' = Tail(buffer)
    /\ UNCHANGED <<last, open>>

Close == open /\ open' = FALSE /\ UNCHANGED <<buffer, last>>

Next == (\E e \in Line \cup {0} : TakeIn(e)) \/ HandOut \/ Close

Spec == Init /\ [][Next]_vars
=============================================================================

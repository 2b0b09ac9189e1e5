--------------------------- MODULE WorkQueueProofs ---------------------------
(***************************************************************************)
(* Proofs about WorkQueue for any items, any finite set of consumers and   *)
(* any number of timers: the invariants of the queue and that it           *)
(* implements SharedPool.                                                  *)
(***************************************************************************)
EXTENDS WorkQueue, FiniteSetTheorems, TLAPS

(* processing is what the working consumers hold. *)
HeldIsProcessing ==
    /\ processing = {held[c] : c \in In("working")}
    /\ \A c \in Consumer : held[c] = None <=> pc[c] # "working"

(* ShutDown wakes everyone, nobody waits after it, and consumers leave only *)
(* after it, the last one with the queue empty.                             *)
ShutdownInv ==
    /\ shutdown => In("waiting") = {}
    /\ In("exited") # {} => shutdown
    /\ Consumer # {} /\ In("exited") = Consumer => queue = <<>>

IInv ==
    /\ TypeOK /\ QueueIsDirtyAndFree /\ ExclusiveWork /\ NoLostWakeup
    /\ HeldIsProcessing /\ ShutdownInv

At(control, place) == {c \in Consumer : control[c] = place}

----------------------------------------------------------------------------
(* Signal changes nothing but one waiting consumer, and counts: while some  *)
(* consumer still waits, one more is woken.                                 *)
LEMMA SignalChanges ==
    ASSUME NEW control \in [Consumer -> Pcs], NEW q \in Signalled(control)
    PROVE  /\ q \in [Consumer -> Pcs]
           /\ \A c \in Consumer : q[c] = control[c] \/ (control[c] = "waiting" /\ q[c] = "woken")
<1> DEFINE Waiting == {c \in Consumer : control[c] = "waiting"}
<1>1. CASE Waiting = {}
  BY <1>1 DEF Signalled
<1>2. CASE Waiting # {}
  <2>1. PICK w \in Waiting : q = [control EXCEPT ![w] = "woken"]
    BY <1>2 DEF Signalled
  <2> QED
    BY <2>1 DEF Pcs
<1> QED
  BY <1>1, <1>2

(* The woken consumers can be counted. *)
LEMMA WokenFinite ==
    ASSUME NEW control
    PROVE  IsFiniteSet(At(control, "woken")) /\ Cardinality(At(control, "woken")) \in Nat
<1>1. At(control, "woken") \subseteq Consumer
  BY DEF At
<1> QED
  BY <1>1, FS_Subset, FS_CardinalityType, ConsumerAssumption

(* A Signal that leaves someone waiting has woken one more. *)
LEMMA SignalCounts ==
    ASSUME NEW control \in [Consumer -> Pcs], NEW q \in Signalled(control),
           At(q, "waiting") # {}
    PROVE  /\ At(control, "waiting") # {}
           /\ Cardinality(At(q, "woken")) = Cardinality(At(control, "woken")) + 1
<1> DEFINE Waiting == {c \in Consumer : control[c] = "waiting"}
<1>1. Waiting # {}
  BY SignalChanges DEF At
<1>2. PICK w \in Waiting : q = [control EXCEPT ![w] = "woken"]
  BY <1>1 DEF Signalled
<1>3. At(q, "woken") = At(control, "woken") \cup {w} /\ w \notin At(control, "woken")
  BY <1>2 DEF At
<1> QED
  BY <1>1, <1>3, WokenFinite, FS_AddElement DEF At

----------------------------------------------------------------------------
(* Facts about the queue as a set of items. *)
LEMMA AppendQueued ==
    ASSUME NEW s \in Seq(Item), NEW i \in Item
    PROVE  /\ Append(s, i) \in Seq(Item) /\ Len(Append(s, i)) = Len(s) + 1
           /\ \A k \in 1 .. Len(s) : Append(s, i)[k] = s[k]
           /\ Append(s, i)[Len(s) + 1] = i
  OBVIOUS

(* What Head and Tail return. *)
LEMMA TailQueued ==
    ASSUME NEW s \in Seq(Item), s # <<>>
    PROVE  /\ Head(s) \in Item /\ Head(s) = s[1] /\ Len(s) \in Nat /\ Len(s) > 0
           /\ Tail(s) \in Seq(Item) /\ Len(Tail(s)) = Len(s) - 1
           /\ \A k \in 1 .. Len(s) - 1 : Tail(s)[k] = s[k + 1]
  OBVIOUS

(* An item not in the queue may be appended, the head may be taken. *)
LEMMA AppendKeeps ==
    ASSUME queue \in Seq(Item), NEW i \in Item, i \notin Queued, queue' = Append(queue, i),
           \A j, k \in 1 .. Len(queue) : queue[j] = queue[k] => j = k
    PROVE  /\ queue' \in Seq(Item) /\ Len(queue') = Len(queue) + 1
           /\ Queued' = Queued \cup {i}
           /\ \A j, k \in 1 .. Len(queue') : queue'[j] = queue'[k] => j = k
<1>1. /\ queue' \in Seq(Item) /\ Len(queue) \in Nat /\ Len(queue') = Len(queue) + 1
      /\ \A k \in 1 .. Len(queue) : queue'[k] = queue[k]
      /\ queue'[Len(queue) + 1] = i
  BY AppendQueued
<1>2. 1 .. Len(queue') = (1 .. Len(queue)) \cup {Len(queue) + 1}
  BY <1>1
<1>3. Queued' = Queued \cup {i}
  BY <1>1, <1>2 DEF Queued
<1>4. \A j, k \in 1 .. Len(queue') : queue'[j] = queue'[k] => j = k
  <2> SUFFICES ASSUME NEW j \in 1 .. Len(queue'), NEW k \in 1 .. Len(queue'),
                      queue'[j] = queue'[k]
               PROVE  j = k
    OBVIOUS
  <2>1. CASE j \in 1 .. Len(queue) /\ k \in 1 .. Len(queue)
    BY <2>1, <1>1
  <2>2. CASE j \in 1 .. Len(queue) /\ k = Len(queue) + 1
    BY <2>2, <1>1 DEF Queued
  <2>3. CASE j = Len(queue) + 1 /\ k \in 1 .. Len(queue)
    BY <2>3, <1>1 DEF Queued
  <2> QED
    BY <2>1, <2>2, <2>3, <1>2
<1> QED
  BY <1>1, <1>3, <1>4

(* Taking the head removes one item and repeats none. *)
LEMMA TailKeeps ==
    ASSUME queue \in Seq(Item), queue # <<>>, queue' = Tail(queue),
           \A j, k \in 1 .. Len(queue) : queue[j] = queue[k] => j = k
    PROVE  /\ Head(queue) \in Queued /\ Head(queue) \in Item
           /\ queue' \in Seq(Item) /\ Len(queue) \in Nat /\ Len(queue') = Len(queue) - 1
           /\ Queued' = Queued \ {Head(queue)}
           /\ \A j, k \in 1 .. Len(queue') : queue'[j] = queue'[k] => j = k
<1>1. /\ Head(queue) \in Item /\ Head(queue) = queue[1] /\ Len(queue) \in Nat /\ Len(queue) > 0
      /\ queue' \in Seq(Item) /\ Len(queue') = Len(queue) - 1
      /\ \A k \in 1 .. Len(queue) - 1 : queue'[k] = queue[k + 1]
  BY TailQueued
<1>2. \A k \in 1 .. Len(queue) : k = 1 \/ (k - 1 \in 1 .. Len(queue') /\ queue'[k - 1] = queue[k])
  BY <1>1
<1>3. \A k \in 1 .. Len(queue') : k + 1 \in 1 .. Len(queue) /\ queue'[k] = queue[k + 1] /\ k + 1 # 1
  BY <1>1
<1>4. Queued' \subseteq Queued \ {Head(queue)}
  <2> SUFFICES ASSUME NEW k \in 1 .. Len(queue')
               PROVE  queue'[k] \in Queued \ {Head(queue)}
    BY DEF Queued
  <2> QED
    BY <1>1, <1>3 DEF Queued
<1>5. Queued \ {Head(queue)} \subseteq Queued'
  <2> SUFFICES ASSUME NEW k \in 1 .. Len(queue), queue[k] # Head(queue)
               PROVE  queue[k] \in Queued'
    BY DEF Queued
  <2> QED
    BY <1>1, <1>2 DEF Queued
<1>6. \A j, k \in 1 .. Len(queue') : queue'[j] = queue'[k] => j = k
  <2> SUFFICES ASSUME NEW j \in 1 .. Len(queue'), NEW k \in 1 .. Len(queue'),
                      queue'[j] = queue'[k]
               PROVE  j = k
    OBVIOUS
  <2>1. j + 1 = k + 1
    BY <1>3
  <2> QED
    BY <2>1, <1>1
<1> QED
  BY <1>1, <1>4, <1>5, <1>6 DEF Queued

----------------------------------------------------------------------------
(* Only the timers change. *)
LEMMA QuietStep ==
    ASSUME IInv, UNCHANGED <<queue, dirty, processing, shutdown, pc, held>>,
           timers' \in [Item -> Nat], stopped' \in BOOLEAN
    PROVE  IInv'
<1> USE DEF IInv
<1>1. TypeOK'
  BY DEF TypeOK
<1>2. QueueIsDirtyAndFree'
  BY DEF QueueIsDirtyAndFree, Queued
<1>3. ExclusiveWork'
  BY DEF ExclusiveWork
<1>4. In("waiting")' = In("waiting") /\ In("woken")' = In("woken")
      /\ In("working")' = In("working") /\ In("exited")' = In("exited")
  BY DEF In
<1>5. NoLostWakeup' /\ ShutdownInv'
  BY <1>4 DEF NoLostWakeup, ShutdownInv
<1>6. HeldIsProcessing'
  BY <1>4 DEF HeldIsProcessing
<1> QED
  BY <1>1, <1>2, <1>3, <1>5, <1>6

(* AddLocked keeps the invariant: Add and the firing of a timer. *)
LEMMA AddStep ==
    ASSUME IInv, NEW i \in Item, AddLocked(i), UNCHANGED <<processing, shutdown, held, stopped>>,
           timers' \in [Item -> Nat]
    PROVE  IInv'
<1> USE DEF IInv
<1>1. CASE shutdown \/ i \in dirty
  <2>1. UNCHANGED <<queue, dirty, pc>>
    BY <1>1 DEF AddLocked
  <2> QED
    BY <2>1, QuietStep DEF TypeOK
<1>2. CASE ~shutdown /\ i \notin dirty
  <2>1. dirty' = dirty \cup {i} /\ queue' = QueueAfterAdd(i) /\ pc' \in Signalled(pc)
    BY <1>2 DEF AddLocked
  <2>2. /\ pc' \in [Consumer -> Pcs]
        /\ \A c \in Consumer : pc'[c] = pc[c] \/ (pc[c] = "waiting" /\ pc'[c] = "woken")
    BY <2>1, SignalChanges DEF TypeOK
  <2>3. /\ queue' \in Seq(Item) /\ Len(queue) \in Nat /\ Len(queue') \in Nat
        /\ Len(queue') <= Len(queue) + 1
        /\ Queued' = (dirty \cup {i}) \ processing
        /\ \A j, k \in 1 .. Len(queue') : queue'[j] = queue'[k] => j = k
    <3>1. CASE i \in processing
      <4>1. queue' = queue
        BY <2>1, <3>1 DEF QueueAfterAdd
      <4> QED
        BY <4>1, <3>1 DEF TypeOK, QueueIsDirtyAndFree, Queued
    <3>2. CASE i \notin processing
      <4>1. queue' = Append(queue, i)
        BY <2>1, <3>2 DEF QueueAfterAdd
      <4>2. i \notin Queued
        BY <1>2 DEF QueueIsDirtyAndFree
      <4>3. /\ queue' \in Seq(Item) /\ Len(queue') = Len(queue) + 1
            /\ Queued' = Queued \cup {i}
            /\ \A j, k \in 1 .. Len(queue') : queue'[j] = queue'[k] => j = k
        BY <4>1, <4>2, AppendKeeps DEF TypeOK, QueueIsDirtyAndFree
      <4> QED
        BY <4>3, <3>2 DEF QueueIsDirtyAndFree, TypeOK
    <3> QED
      BY <3>1, <3>2
  <2>4. TypeOK'
    BY <2>1, <2>2, <2>3 DEF TypeOK
  <2>5. QueueIsDirtyAndFree'
    BY <2>1, <2>3 DEF QueueIsDirtyAndFree
  <2>6. ExclusiveWork'
    BY DEF ExclusiveWork
  <2>7. NoLostWakeup'
    <3> SUFFICES ASSUME At(pc', "waiting") # {}
                 PROVE  Len(queue') <= Cardinality(At(pc', "woken"))
      BY DEF NoLostWakeup, In, At
    <3>1. /\ At(pc, "waiting") # {}
          /\ Cardinality(At(pc', "woken")) = Cardinality(At(pc, "woken")) + 1
      BY <2>1, SignalCounts DEF TypeOK
    <3>2. Len(queue) <= Cardinality(At(pc, "woken"))
      BY <3>1 DEF NoLostWakeup, In, At
    <3> QED
      BY <3>1, <3>2, <2>3, WokenFinite
  <2>8. In("working")' = In("working") /\ In("exited")' = In("exited")
    BY <2>2 DEF In, Pcs
  <2>9. HeldIsProcessing'
    BY <2>2, <2>8 DEF HeldIsProcessing
  <2>10. ShutdownInv'
    BY <2>8, <1>2 DEF ShutdownInv
  <2> QED
    BY <2>4, <2>5, <2>6, <2>7, <2>9, <2>10
<1> QED
  BY <1>1, <1>2

(* Get that returns an item keeps the invariant. *)
LEMMA TakeStep == ASSUME IInv, NEW c \in Consumer, Take(c) PROVE IInv'
<1> USE DEF IInv
<1> DEFINE i == Head(queue)
<1>1. /\ i \in Queued /\ i \in Item
      /\ queue' \in Seq(Item) /\ Len(queue) \in Nat /\ Len(queue') = Len(queue) - 1
      /\ Queued' = Queued \ {i}
      /\ \A j, k \in 1 .. Len(queue') : queue'[j] = queue'[k] => j = k
  BY TailKeeps DEF Take, TypeOK, QueueIsDirtyAndFree
<1>2. i \in dirty /\ i \notin processing
  BY <1>1 DEF QueueIsDirtyAndFree
<1>3. /\ pc[c] \in {"ready", "woken"} /\ pc' = [pc EXCEPT ![c] = "working"]
      /\ held' = [held EXCEPT ![c] = i]
      /\ processing' = processing \cup {i} /\ dirty' = dirty \ {i}
      /\ UNCHANGED <<shutdown, timers, stopped>> /\ queue # <<>>
  BY DEF Take, Getting
<1>4. TypeOK'
  BY <1>1, <1>3 DEF TypeOK, Pcs
<1>5. QueueIsDirtyAndFree'
  BY <1>1, <1>3 DEF QueueIsDirtyAndFree
<1>6. \A d \in Consumer : held[d] # i
  BY <1>2, <1>1, ItemAssumption DEF HeldIsProcessing, In, TypeOK
<1>7. ExclusiveWork'
  BY <1>3, <1>6 DEF ExclusiveWork, TypeOK
<1>8. NoLostWakeup'
  <2> SUFFICES ASSUME At(pc', "waiting") # {}
               PROVE  Len(queue') <= Cardinality(At(pc', "woken"))
    BY DEF NoLostWakeup, In, At
  <2>1. At(pc, "waiting") = At(pc', "waiting")
    BY <1>3 DEF At, TypeOK
  <2>2. Len(queue) <= Cardinality(At(pc, "woken"))
    BY <2>1 DEF NoLostWakeup, In, At
  <2>3. CASE pc[c] = "woken"
    <3>1. c \in At(pc, "woken") /\ At(pc', "woken") = At(pc, "woken") \ {c}
      BY <2>3, <1>3 DEF At, TypeOK
    <3>2. Cardinality(At(pc', "woken")) = Cardinality(At(pc, "woken")) - 1
      BY <3>1, WokenFinite, FS_RemoveElement
    <3> QED
      BY <3>2, <2>2, <1>1, WokenFinite
  <2>4. CASE pc[c] # "woken"
    <3>1. At(pc', "woken") = At(pc, "woken")
      BY <2>4, <1>3 DEF At, TypeOK
    <3> QED
      BY <3>1, <2>2, <1>1, WokenFinite
  <2> QED
    BY <2>3, <2>4
<1>9. In("working")' = In("working") \cup {c}
  BY <1>3 DEF In, TypeOK
<1>10. HeldIsProcessing'
  <2>1. {held'[d] : d \in In("working")'} = {held[d] : d \in In("working")} \cup {i}
    BY <1>3, <1>9 DEF In, TypeOK
  <2>2. \A d \in Consumer : held'[d] = None <=> pc'[d] # "working"
    BY <1>1, <1>3, ItemAssumption DEF HeldIsProcessing, TypeOK
  <2> QED
    BY <2>1, <2>2, <1>3 DEF HeldIsProcessing
<1>11. ShutdownInv'
  <2>1. In("waiting")' = In("waiting") /\ In("exited")' = In("exited") /\ c \notin In("exited")
    BY <1>3 DEF In, TypeOK
  <2> QED
    BY <2>1, <1>3 DEF ShutdownInv
<1> QED
  BY <1>4, <1>5, <1>7, <1>8, <1>10, <1>11

(* Get that waits, or that ends the loop, keeps it. *)
LEMMA WaitStep == ASSUME IInv, NEW c \in Consumer, Wait(c) \/ Exit(c) PROVE IInv'
<1> USE DEF IInv
<1>1. /\ pc[c] \in {"ready", "woken"} /\ queue = <<>>
      /\ \/ ~shutdown /\ pc' = [pc EXCEPT ![c] = "waiting"]
         \/ shutdown /\ pc' = [pc EXCEPT ![c] = "exited"]
      /\ UNCHANGED <<queue, dirty, processing, shutdown, held, timers, stopped>>
  BY DEF Wait, Exit, Getting, Drained
<1>2. TypeOK'
  BY <1>1 DEF TypeOK, Pcs
<1>3. QueueIsDirtyAndFree' /\ ExclusiveWork'
  BY <1>1 DEF QueueIsDirtyAndFree, Queued, ExclusiveWork
<1>4. NoLostWakeup'
  <2>1. Len(queue') = 0
    BY <1>1
  <2>2. Cardinality(At(pc', "woken")) \in Nat
    BY WokenFinite
  <2> QED
    BY <2>1, <2>2 DEF NoLostWakeup, In, At
<1>5. In("working")' = In("working")
  BY <1>1 DEF In, TypeOK
<1>6. HeldIsProcessing'
  BY <1>1, <1>5 DEF HeldIsProcessing, TypeOK
<1>7. ShutdownInv'
  BY <1>1 DEF ShutdownInv, In, TypeOK
<1> QED
  BY <1>2, <1>3, <1>4, <1>6, <1>7

(* Done keeps it. *)
LEMMA DoneStep == ASSUME IInv, NEW c \in Consumer, Done(c) PROVE IInv'
<1> USE DEF IInv
<1> DEFINE i == held[c]
           Free == [pc EXCEPT ![c] = "ready"]
<1>1. /\ pc[c] = "working" /\ processing' = processing \ {i}
      /\ held' = [held EXCEPT ![c] = None]
      /\ UNCHANGED <<dirty, shutdown, timers, stopped>>
      /\ \/ i \in dirty /\ queue' = Append(queue, i) /\ pc' \in Signalled(Free)
         \/ i \notin dirty /\ pc' = Free /\ queue' = queue
  BY DEF Done
<1>2. i # None /\ i \in Item /\ i \in processing
  BY <1>1 DEF HeldIsProcessing, In, TypeOK
<1>3. /\ Free \in [Consumer -> Pcs] /\ Free[c] = "ready"
      /\ \A d \in Consumer \ {c} : Free[d] = pc[d]
  BY DEF TypeOK, Pcs
<1>4. /\ pc' \in [Consumer -> Pcs]
      /\ \A d \in Consumer : pc'[d] = Free[d] \/ (Free[d] = "waiting" /\ pc'[d] = "woken")
  BY <1>1, <1>3, SignalChanges
<1>5. i \notin Queued
  BY <1>2 DEF QueueIsDirtyAndFree
<1>6. /\ queue' \in Seq(Item) /\ Len(queue) \in Nat
      /\ Queued' = dirty \ (processing \ {i})
      /\ \A j, k \in 1 .. Len(queue') : queue'[j] = queue'[k] => j = k
  <2>1. CASE i \in dirty
    <3>1. /\ queue' \in Seq(Item)
          /\ Queued' = Queued \cup {i}
          /\ \A j, k \in 1 .. Len(queue') : queue'[j] = queue'[k] => j = k
      BY <1>1, <1>2, <1>5, <2>1, AppendKeeps DEF TypeOK, QueueIsDirtyAndFree
    <3> QED
      BY <3>1, <2>1 DEF QueueIsDirtyAndFree, TypeOK
  <2>2. CASE i \notin dirty
    BY <1>1, <2>2 DEF TypeOK, QueueIsDirtyAndFree, Queued
  <2> QED
    BY <2>1, <2>2
<1>7. TypeOK'
  BY <1>1, <1>4, <1>6 DEF TypeOK
<1>8. QueueIsDirtyAndFree'
  BY <1>1, <1>6 DEF QueueIsDirtyAndFree
<1>9. ExclusiveWork'
  BY <1>1 DEF ExclusiveWork, TypeOK
<1>10. NoLostWakeup'
  <2> SUFFICES ASSUME At(pc', "waiting") # {}
               PROVE  Len(queue') <= Cardinality(At(pc', "woken"))
    BY DEF NoLostWakeup, In, At
  <2>1. At(Free, "waiting") = At(pc, "waiting") /\ At(Free, "woken") = At(pc, "woken")
    BY <1>1, <1>3 DEF At
  <2>2. CASE i \in dirty
    <3>1. /\ At(Free, "waiting") # {}
          /\ Cardinality(At(pc', "woken")) = Cardinality(At(Free, "woken")) + 1
      BY <1>1, <1>3, <2>2, SignalCounts
    <3>2. Len(queue') = Len(queue) + 1
      BY <1>1, <1>2, <2>2, AppendQueued DEF TypeOK
    <3>3. Len(queue) <= Cardinality(At(pc, "woken"))
      BY <2>1, <3>1 DEF NoLostWakeup, In, At
    <3> QED
      BY <2>1, <3>1, <3>2, <3>3, <1>6, WokenFinite
  <2>3. CASE i \notin dirty
    <3>1. pc' = Free /\ queue' = queue
      BY <1>1, <2>3
    <3> QED
      BY <3>1, <2>1 DEF NoLostWakeup, In, At
  <2> QED
    BY <2>2, <2>3
<1>11. In("working")' = In("working") \ {c} /\ In("exited")' = In("exited") /\ c \notin In("exited")
  BY <1>1, <1>3, <1>4 DEF In, Pcs
<1>12. HeldIsProcessing'
  <2>1. \A d \in In("working") \ {c} : held'[d] = held[d] /\ held[d] # i
    BY <1>1, <1>2 DEF In, ExclusiveWork, TypeOK, HeldIsProcessing
  <2>2. {held'[d] : d \in In("working")'} = {held[d] : d \in In("working")} \ {i}
    BY <2>1, <1>11
  <2>3. \A d \in Consumer : held'[d] = None <=> pc'[d] # "working"
    <3> TAKE d \in Consumer
    <3>1. CASE d = c
      BY <3>1, <1>1, <1>3, <1>4 DEF TypeOK
    <3>2. CASE d # c
      BY <3>2, <1>1, <1>3, <1>4 DEF TypeOK, HeldIsProcessing
    <3> QED
      BY <3>1, <3>2
  <2> QED
    BY <2>2, <2>3, <1>1 DEF HeldIsProcessing
<1>13. ShutdownInv'
  <2>1. In("waiting")' \subseteq In("waiting")
    BY <1>1, <1>3, <1>4 DEF In
  <2> QED
    BY <2>1, <1>1, <1>11 DEF ShutdownInv, In
<1> QED
  BY <1>7, <1>8, <1>9, <1>10, <1>12, <1>13

(* ShutDown keeps it. *)
LEMMA ShutDownStep == IInv /\ ShutDown => IInv'
<1> SUFFICES ASSUME IInv, ShutDown PROVE IInv'
  OBVIOUS
<1> USE DEF IInv
<1>1. /\ shutdown' = TRUE
      /\ pc' = [c \in Consumer |-> IF pc[c] = "waiting" THEN "woken" ELSE pc[c]]
      /\ UNCHANGED <<queue, dirty, processing, held, timers, stopped>>
  BY DEF ShutDown, Broadcast
<1>2. TypeOK'
  BY <1>1 DEF TypeOK, Pcs
<1>3. QueueIsDirtyAndFree' /\ ExclusiveWork'
  BY <1>1 DEF QueueIsDirtyAndFree, Queued, ExclusiveWork
<1>4. In("waiting")' = {}
  BY <1>1 DEF In, TypeOK
<1>5. In("working")' = In("working") /\ In("exited")' = In("exited")
  BY <1>1 DEF In, TypeOK
<1>6. HeldIsProcessing'
  BY <1>1, <1>5 DEF HeldIsProcessing, TypeOK
<1> QED
  BY <1>1, <1>2, <1>3, <1>4, <1>5, <1>6 DEF NoLostWakeup, ShutdownInv

(* It holds initially. *)
LEMMA InvInit == Init => IInv
<1> SUFFICES ASSUME Init PROVE IInv
  OBVIOUS
<1>1. TypeOK
  <2>1. queue \in Seq(Item) /\ dirty \subseteq Item /\ processing \subseteq Item
    BY DEF Init, NewDelayingWorkQueue
  <2>2. pc \in [Consumer -> Pcs] /\ held \in [Consumer -> Item \cup {None}]
    BY DEF Init, NewDelayingWorkQueue, Pcs
  <2>3. timers \in [Item -> Nat]
    BY DEF Init, NewDelayingWorkQueue
  <2> QED
    BY <2>1, <2>2, <2>3 DEF Init, NewDelayingWorkQueue, TypeOK
<1>2. QueueIsDirtyAndFree
  BY DEF Init, NewDelayingWorkQueue, QueueIsDirtyAndFree, Queued
<1>3. ExclusiveWork /\ NoLostWakeup /\ HeldIsProcessing /\ ShutdownInv
  BY DEF Init, NewDelayingWorkQueue, ExclusiveWork, NoLostWakeup, HeldIsProcessing, ShutdownInv, In
<1> QED
  BY <1>1, <1>2, <1>3 DEF IInv

(* Every step keeps it. *)
LEMMA InvNext == IInv /\ [Next]_vars => IInv'
<1> SUFFICES ASSUME IInv, [Next]_vars PROVE IInv'
  OBVIOUS
<1>1. ASSUME NEW i \in Item, Add(i) PROVE IInv'
  <2>1. timers' \in [Item -> Nat]
    BY <1>1 DEF Add, IInv, TypeOK
  <2> QED
    BY <1>1, <2>1, AddStep DEF Add
<1>2. ASSUME NEW i \in Item, TimerFires(i) PROVE IInv'
  <2>1. timers' \in [Item -> Nat]
    BY <1>2 DEF TimerFires, Outstanding, IInv, TypeOK
  <2> QED
    BY <1>2, <2>1, AddStep DEF TimerFires
<1>3. ASSUME NEW i \in Item, AddAfter(i) \/ TimerStops(i) PROVE IInv'
  <2>1. /\ timers' \in [Item -> Nat]
        /\ UNCHANGED <<queue, dirty, processing, shutdown, pc, held, stopped>>
    <3>1. CASE AddAfter(i)
      BY <3>1 DEF AddAfter, IInv, TypeOK
    <3>2. CASE TimerStops(i)
      BY <3>2 DEF TimerStops, Outstanding, IInv, TypeOK
    <3> QED
      BY <1>3, <3>1, <3>2
  <2> QED
    BY <2>1, QuietStep DEF IInv, TypeOK
<1>4. ASSUME NEW c \in Consumer, Get(c) PROVE IInv'
  BY <1>4, TakeStep, WaitStep DEF Get
<1>5. ASSUME NEW c \in Consumer, Done(c) PROVE IInv'
  BY <1>5, DoneStep
<1>6. CASE ShutDown
  BY <1>6, ShutDownStep
<1>7. CASE CloseStopCh \/ UNCHANGED vars
  <2>1. /\ stopped' \in BOOLEAN
        /\ UNCHANGED <<queue, dirty, processing, shutdown, pc, held, timers>>
    BY <1>7 DEF CloseStopCh, vars, IInv, TypeOK
  <2> QED
    BY <2>1, QuietStep DEF IInv, TypeOK
<1> QED
  BY <1>1, <1>2, <1>3, <1>4, <1>5, <1>6, <1>7 DEF Next

(* The inductive invariant holds in every reachable state. *)
LEMMA Invariance == Spec => []IInv
  BY InvInit, InvNext, PTL DEF Spec

(* Every variable has its type. *)
THEOREM TypeCorrect == Spec => []TypeOK
  BY Invariance, PTL DEF IInv

(* The queue always holds exactly the dirty items nobody works on, once:    *)
(* Add, Get and Done keep the three collections consistent.                 *)
THEOREM QueueConsistent == Spec => []QueueIsDirtyAndFree
  BY Invariance, PTL DEF IInv

(* Two consumers never work on one item, whatever is added meanwhile. *)
THEOREM WorkIsExclusive == Spec => []ExclusiveWork
  BY Invariance, PTL DEF IInv

(* One Signal for each append is enough: no consumer sleeps beside an item  *)
(* that nobody has been woken for.                                          *)
THEOREM WakeupsSuffice == Spec => []NoLostWakeup
  BY Invariance, PTL DEF IInv

(* ShutDown strands neither a consumer nor an item. *)
THEOREM NothingStranded == Spec => []ShutdownDrains
<1>1. IInv => ShutdownDrains
  <2> SUFFICES ASSUME IInv, shutdown PROVE ShutdownDrains
    BY DEF ShutdownDrains
  <2>1. In("waiting") = {}
    BY DEF IInv, ShutdownInv
  <2>2. ASSUME Consumer # {}, In("exited") = Consumer PROVE queue = <<>> /\ dirty = {}
    <3>1. queue = <<>>
      BY <2>2 DEF IInv, ShutdownInv
    <3>2. In("working") = {}
      BY <2>2 DEF In
    <3>3. processing = {}
      BY <3>2 DEF IInv, HeldIsProcessing
    <3>4. Queued = {}
      BY <3>1 DEF Queued
    <3> QED
      BY <3>1, <3>3, <3>4 DEF IInv, QueueIsDirtyAndFree
  <2> QED
    BY <2>1, <2>2 DEF ShutdownDrains
<1> QED
  BY <1>1, Invariance, PTL

----------------------------------------------------------------------------
(* Every step of the queue is a step of the pool, or none. *)
LEMMA PoolStep == IInv /\ [Next]_vars => [Pool!Next]_(Pool!vars)
<1> SUFFICES ASSUME IInv, [Next]_vars PROVE [Pool!Next]_(Pool!vars)
  OBVIOUS
<1>1. ASSUME NEW i \in Item, AddLocked(i), UNCHANGED <<held, shutdown>> PROVE [Pool!Next]_(Pool!vars)
  BY <1>1 DEF AddLocked, Pool!Next, Pool!Put, Pool!vars
<1>2. ASSUME NEW c \in Consumer, Take(c) PROVE Pool!Next
  <2> DEFINE i == Head(queue)
  <2>1. /\ i \in Item /\ i \in dirty /\ i \notin processing
    BY <1>2, TailKeeps DEF Take, IInv, TypeOK, QueueIsDirtyAndFree
  <2>2. \A d \in Consumer : held[d] # i
    BY <2>1, ItemAssumption DEF IInv, HeldIsProcessing, In, TypeOK
  <2>3. held[c] = None
    BY <1>2 DEF Take, Getting, IInv, HeldIsProcessing
  <2>4. Pool!Take(c, i)
    BY <1>2, <2>1, <2>2, <2>3 DEF Take, Pool!Take
  <2> QED
    BY <2>1, <2>4 DEF Pool!Next
<1>3. ASSUME NEW c \in Consumer, Done(c) PROVE Pool!Next
  BY <1>3 DEF Done, Pool!Next, Pool!Release
<1>4. CASE ShutDown
  BY <1>4 DEF ShutDown, Pool!Next, Pool!Close
<1>5. ASSUME UNCHANGED <<dirty, held, shutdown>> PROVE [Pool!Next]_(Pool!vars)
  BY <1>5 DEF Pool!vars
<1> QED
  BY <1>1, <1>2, <1>3, <1>4, <1>5
  DEF Next, Add, AddAfter, TimerFires, TimerStops, Get, Wait, Exit, CloseStopCh, vars

(* The queue with its sets, condition variable and timers implements a pool *)
(* of pending items, each in the hands of at most one consumer.             *)
THEOREM PoolImplemented == Spec => ImplementsPool
<1>1. Init => Pool!Init
  BY DEF Init, Pool!Init
<1> QED
  BY <1>1, PoolStep, Invariance, PTL DEF Spec, ImplementsPool, Pool!Spec
=============================================================================

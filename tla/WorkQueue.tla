------------------------------ MODULE WorkQueue ------------------------------
(***************************************************************************)
(* The work queue of client_pipe/util/workqueue.go: Add, Get, Done and     *)
(* ShutDown under one mutex, Get waiting on its condition variable, and    *)
(* the delaying queue whose AddAfter starts a goroutine that adds the item *)
(* when its timer fires unless the queue stops first.                      *)
(*                                                                         *)
(* Each critical section is one step. A consumer is a goroutine that loops *)
(* over Get, its work, and Done.                                           *)
(***************************************************************************)
EXTENDS Integers, Sequences, FiniteSets

CONSTANTS
    Item, Consumer,
    None,       \* no item
    MaxTimers   \* bound: goroutines of AddAfter outstanding for one item

ASSUME ConsumerAssumption == IsFiniteSet(Consumer)
ASSUME ItemAssumption == None \notin Item
ASSUME TimerAssumption == MaxTimers \in Nat

VARIABLES
    queue, dirty, processing, shutdown,
    pc,       \* control of each consumer
    held,     \* the item each consumer works on, or None
    timers,   \* goroutines of AddAfter waiting, for each item
    stopped   \* stopCh is closed

vars == <<queue, dirty, processing, shutdown, pc, held, timers, stopped>>

Pcs == {"ready", "waiting", "woken", "working", "exited"}

In(place) == {c \in Consumer : pc[c] = place}
Queued == {queue[k] : k \in 1 .. Len(queue)}

(* The delaying queue beside the queue it wraps: its clock is what the timers *)
(* wait for, its channel what they watch.                                    *)
NewDelayingWorkQueue == timers = [i \in Item |-> 0] /\ stopped = FALSE

Init ==
    /\ queue = <<>> /\ dirty = {} /\ processing = {} /\ shutdown = FALSE
    /\ pc = [c \in Consumer |-> "ready"]
    /\ held = [c \in Consumer |-> None]
    /\ NewDelayingWorkQueue

(* SignalNobody, AppendAlways, KeepsFiring, NeverMind and WakeOne are        *)
(* defects: what the definition after each might have been by mistake.      *)
(* PROJECT.json names the property each one breaks.                         *)
SignalNobody(control) == {control}

(* cond.Signal wakes one waiting consumer, if there is one: it runs on when *)
(* it has the mutex again, and another may be faster.                       *)
Signalled(control) ==
    LET Waiting == {c \in Consumer : control[c] = "waiting"} IN
    IF Waiting = {} THEN {control} ELSE {[control EXCEPT ![c] = "woken"] : c \in Waiting}

----------------------------------------------------------------------------
AppendAlways(i) == Append(queue, i)

(* An item in someone's hands is queued by Done. *)
QueueAfterAdd(i) == IF i \in processing THEN queue ELSE Append(queue, i)

AddLocked(i) ==
    IF shutdown \/ i \in dirty
    THEN UNCHANGED <<queue, dirty, pc>>
    ELSE /\ dirty' = dirty \cup {i}
         /\ queue' = QueueAfterAdd(i)
         /\ pc' \in Signalled(pc)

Add(i) == AddLocked(i) /\ UNCHANGED <<processing, shutdown, held, timers, stopped>>

(* With a duration above 0; without one AddAfter is Add. *)
AddAfter(i) ==
    /\ timers[i] < MaxTimers
    /\ timers' = [timers EXCEPT ![i] = @ + 1]
    /\ UNCHANGED <<queue, dirty, processing, shutdown, pc, held, stopped>>

KeepsFiring(i) == TRUE

Outstanding(i) == timers[i] > 0

TimerFires(i) ==
    /\ Outstanding(i)
    /\ timers' = [timers EXCEPT ![i] = @ - 1]
    /\ AddLocked(i)
    /\ UNCHANGED <<processing, shutdown, held, stopped>>

NeverMind(i) == TRUE

Cancelled(i) == stopped

TimerStops(i) ==
    /\ Outstanding(i) /\ Cancelled(i)
    /\ timers' = [timers EXCEPT ![i] = @ - 1]
    /\ UNCHANGED <<queue, dirty, processing, shutdown, pc, held, stopped>>

----------------------------------------------------------------------------
(* Get, from its call or from the wake-up to its return or to cond.Wait.    *)

Getting(c) == pc[c] \in {"ready", "woken"}

Take(c) ==
    /\ Getting(c) /\ queue # <<>>
    /\ LET i == Head(queue) IN
       /\ processing' = processing \cup {i}
       /\ dirty' = dirty \ {i}
       /\ held' = [held EXCEPT ![c] = i]
    /\ queue' = Tail(queue)
    /\ pc' = [pc EXCEPT ![c] = "working"]
    /\ UNCHANGED <<shutdown, timers, stopped>>

Wait(c) ==
    /\ Getting(c) /\ queue = <<>> /\ ~shutdown
    /\ pc' = [pc EXCEPT ![c] = "waiting"]
    /\ UNCHANGED <<queue, dirty, processing, shutdown, held, timers, stopped>>

Drained == shutdown /\ queue = <<>>

Exit(c) ==
    /\ Getting(c) /\ Drained
    /\ pc' = [pc EXCEPT ![c] = "exited"]
    /\ UNCHANGED <<queue, dirty, processing, shutdown, held, timers, stopped>>

Done(c) ==
    /\ pc[c] = "working"
    /\ LET i == held[c]  Free == [pc EXCEPT ![c] = "ready"] IN
       /\ processing' = processing \ {i}
       /\ IF i \in dirty
          THEN queue' = Append(queue, i) /\ pc' \in Signalled(Free)
          ELSE pc' = Free /\ UNCHANGED queue
    /\ held' = [held EXCEPT ![c] = None]
    /\ UNCHANGED <<dirty, shutdown, timers, stopped>>

----------------------------------------------------------------------------
(* ShutDown of the delaying queue: of the queue first, then of the timers. *)

WakeOne(control) == Signalled(control)

Broadcast(control) ==
    {[c \in Consumer |-> IF control[c] = "waiting" THEN "woken" ELSE control[c]]}

ShutDown ==
    /\ shutdown' = TRUE
    /\ pc' \in Broadcast(pc)
    /\ UNCHANGED <<queue, dirty, processing, held, timers, stopped>>

CloseStopCh ==
    /\ shutdown /\ stopped' = TRUE
    /\ UNCHANGED <<queue, dirty, processing, shutdown, pc, held, timers>>

Get(c) == Take(c) \/ Wait(c) \/ Exit(c)

Next ==
    \/ \E i \in Item : Add(i) \/ AddAfter(i) \/ TimerFires(i) \/ TimerStops(i)
    \/ \E c \in Consumer : Get(c) \/ Done(c)
    \/ ShutDown \/ CloseStopCh

Spec == Init /\ [][Next]_vars

(* A mutex of Go starves nobody, consumers finish their work, timers fire.  *)
Fairness ==
    /\ \A c \in Consumer : WF_vars(Get(c)) /\ WF_vars(Done(c))
    /\ \A i \in Item : WF_vars(TimerFires(i) \/ TimerStops(i))

FairSpec == Spec /\ Fairness

----------------------------------------------------------------------------
(* Properties. *)

TypeOK ==
    /\ queue \in Seq(Item) /\ dirty \subseteq Item /\ processing \subseteq Item
    /\ shutdown \in BOOLEAN /\ stopped \in BOOLEAN
    /\ pc \in [Consumer -> Pcs]
    /\ held \in [Consumer -> Item \cup {None}]
    /\ timers \in [Item -> Nat]

(* The three collections stay consistent: the queue holds each dirty item   *)
(* nobody works on, once (Add, Get and Done each update two of them).       *)
QueueIsDirtyAndFree ==
    /\ Queued = dirty \ processing
    /\ \A j, k \in 1 .. Len(queue) : queue[j] = queue[k] => j = k

(* No two consumers work on one item, though it may be added at any time    *)
(* (the processing set of Add, Get and Done).                               *)
ExclusiveWork ==
    \A c, d \in Consumer : held[c] # None /\ held[c] = held[d] => c = d

(* No consumer sleeps while there is an item that no other consumer has     *)
(* been woken for: Signal is called once for each item appended.            *)
NoLostWakeup == In("waiting") # {} => Len(queue) <= Cardinality(In("woken"))

(* After ShutDown nobody waits, and no item is left behind by the last      *)
(* consumer that exits, even one added again while it was worked on.        *)
ShutdownDrains ==
    shutdown => /\ In("waiting") = {}
                /\ Consumer # {} /\ In("exited") = Consumer => queue = <<>> /\ dirty = {}

(* An item added is given to a consumer again, also when it was being       *)
(* worked on when it was added.                                             *)
AddedIsTaken == \A i \in Item : i \in dirty ~> i \notin dirty

(* An item added with a delay is in the queue or in work later, or the      *)
(* queue was shut down before.                                              *)
DelayedIsAdded == \A i \in Item : timers[i] > 0 ~> shutdown \/ i \in dirty \cup processing

(* After ShutDown every consumer's loop ends. *)
ConsumersExit == shutdown ~> In("exited") = Consumer

Pool == INSTANCE SharedPool WITH pending <- dirty, taken <- held, open <- ~shutdown

(* The queue, the two sets and the condition variable implement SharedPool. *)
ImplementsPool == Pool!Spec
=============================================================================

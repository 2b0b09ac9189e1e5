---------------------------- MODULE WatcherProofs ----------------------------
(***************************************************************************)
(* Proofs about Watcher for any number of callers of Stop, any capacity    *)
(* and any number of lines: the channel is closed once at most and never   *)
(* while the goroutine sends to it, and what comes out of it is what       *)
(* LossyStream promises.                                                   *)
(***************************************************************************)
EXTENDS Watcher, TLAPS

(* What the goroutine is about to send is the line it has just read, and    *)
(* nothing that far has been sent before.                                   *)
EventOK ==
    /\ last <= line
    /\ pc \in {"enter", "check", "send"} /\ event > 0 => event = line /\ last < line

IInv == TypeOK /\ NoSendToClosed /\ EventOK

----------------------------------------------------------------------------
(* The bounds are numbers. *)
LEMMA Bounds == Cap \in Nat /\ Cap > 0 /\ MaxLines \in Nat /\ Lines \subseteq Nat
  BY BoundAssumption DEF Lines

(* At the start nothing is open and nothing was sent. *)
LEMMA InvInit == Init => IInv
<1> SUFFICES ASSUME Init PROVE IInv
  OBVIOUS
<1>1. 0 \in Lines
  BY Bounds DEF Lines
<1>2. resultChan \in Seq(Lines) /\ Len(resultChan) <= Cap
  BY Bounds DEF Init
<1>3. stop \in [Stopper -> Stops]
  BY DEF Init, Stops
<1>4. registered \in BOOLEAN /\ cancelled \in BOOLEAN
  BY DEF Init
<1>5. /\ pc \in Controls /\ event \in Lines /\ after \in {"scan", "sleep"}
      /\ line \in Lines /\ last \in Lines /\ closes \in 0 .. 1
  BY <1>1 DEF Init, Controls
<1>6. NoSendToClosed /\ EventOK
  BY DEF Init, NoSendToClosed, EventOK
<1> QED
  BY <1>2, <1>3, <1>4, <1>5, <1>6 DEF IInv, TypeOK

----------------------------------------------------------------------------
(* The steps of the goroutine that only go from place to place. *)
LEMMA MoveStep ==
    ASSUME IInv, Loop \/ Connected \/ StreamEnds \/ Wake \/ Enter \/ Check \/ Drop \/ Exit
    PROVE  IInv'
<1>1. UNCHANGED <<event, after, line, resultChan, last, closes, stop, cancelled>>
  BY DEF Loop, Connected, StreamEnds, Wake, Enter, Check, Drop, Exit, GoTo
<1>2. pc' \in Controls /\ registered' \in BOOLEAN
  BY DEF Loop, Connected, StreamEnds, Wake, Enter, Check, Drop, Exit, GoTo, IInv, TypeOK, Controls
<1>3. TypeOK'
  BY <1>1, <1>2 DEF IInv, TypeOK
<1>4. pc' = "send" => ~stopped
  BY DEF Loop, Connected, StreamEnds, Wake, Enter, Check, Drop, Exit, GoTo, IInv, TypeOK
<1>5. pc' \in {"enter", "check", "send"} => pc \in {"enter", "check", "send"}
  BY DEF Loop, Connected, StreamEnds, Wake, Enter, Check, Drop, Exit, GoTo, IInv, TypeOK
<1>6. NoSendToClosed' /\ EventOK'
  BY <1>1, <1>4, <1>5 DEF IInv, NoSendToClosed, EventOK, stopped
<1> QED
  BY <1>3, <1>6 DEF IInv

(* An error or a line of the server is to be sent, or is passed over. *)
LEMMA EventStep ==
    ASSUME IInv, Fails \/ ReadLine \/ SkipLine
    PROVE  IInv'
<1>1. UNCHANGED <<registered, resultChan, last, closes, stop, cancelled>>
  BY DEF Fails, ReadLine, SkipLine
<1>2. CASE Fails
  <2>1. pc' = "enter" /\ event' = 0 /\ after' = "sleep" /\ line' = line
    BY <1>2 DEF Fails, SendEvent
  <2> QED
    BY <1>1, <2>1, Bounds DEF IInv, TypeOK, NoSendToClosed, EventOK, Controls, Lines
<1>3. CASE ReadLine
  <2>1. /\ pc' = "enter" /\ event' = line + 1 /\ after' = "scan"
        /\ line' = line + 1 /\ line < MaxLines
    BY <1>3 DEF ReadLine, SendEvent
  <2> QED
    BY <1>1, <2>1, Bounds DEF IInv, TypeOK, NoSendToClosed, EventOK, Controls, Lines
<1>4. CASE SkipLine
  <2>1. /\ pc = "scan" /\ UNCHANGED <<pc, event, after>>
        /\ line' = line + 1 /\ line < MaxLines
    BY <1>4 DEF SkipLine
  <2> QED
    BY <1>1, <2>1, Bounds DEF IInv, TypeOK, NoSendToClosed, EventOK, Lines
<1> QED
  BY <1>2, <1>3, <1>4

(* The send takes an event that is no older than what the channel had. *)
LEMMA SendStep ==
    ASSUME IInv, Send
    PROVE  /\ IInv'
           /\ ~stopped /\ event \in Lines /\ (event = 0 \/ event > last)
<1>1. /\ pc = "send" /\ Len(resultChan) < Cap /\ resultChan' = Append(resultChan, event)
      /\ last' = (IF event = 0 THEN last ELSE event) /\ pc' = after
      /\ UNCHANGED <<event, after, line, registered, closes, stop, cancelled>>
  BY DEF Send
<1>2. event \in Lines /\ event \in Nat /\ (event > 0 => event = line /\ last < line)
  BY <1>1, Bounds DEF IInv, TypeOK, EventOK, Lines
<1>3. resultChan' \in Seq(Lines) /\ Len(resultChan') <= Cap
  BY <1>1, <1>2, Bounds DEF IInv, TypeOK
<1>4. last' \in Lines /\ last' <= line
  BY <1>1, <1>2, Bounds DEF IInv, TypeOK, EventOK, Lines
<1>5. pc' \in {"scan", "sleep"}
  BY <1>1 DEF IInv, TypeOK
<1>6. TypeOK'
  BY <1>1, <1>3, <1>4, <1>5 DEF IInv, TypeOK, Controls
<1>7. NoSendToClosed' /\ EventOK'
  BY <1>1, <1>4, <1>5 DEF NoSendToClosed, EventOK
<1>8. ~stopped
  BY <1>1 DEF IInv, NoSendToClosed
<1> QED
  BY <1>2, <1>6, <1>7, <1>8 DEF IInv

(* Callers of Stop close the channel once, and not while it is sent to. *)
LEMMA StopStep ==
    ASSUME IInv, NEW s \in Stopper, CallStop(s) \/ Announce(s) \/ Stop(s)
    PROVE  IInv'
<1>1. UNCHANGED goVars /\ UNCHANGED <<resultChan, last, cancelled>>
  BY DEF CallStop, Announce, Stop
<1>2. stop' \in [Stopper -> Stops]
  BY DEF CallStop, Announce, Stop, IInv, TypeOK, Stops
<1>3. closes' \in 0 .. 1
  BY DEF CallStop, Announce, Stop, IInv, TypeOK, stopped
<1>4. pc = "send" => closes' = closes
  BY DEF CallStop, Announce, Stop, Reading
<1>5. TypeOK'
  BY <1>1, <1>2, <1>3 DEF IInv, TypeOK, goVars
<1>6. NoSendToClosed' /\ EventOK'
  BY <1>1, <1>4 DEF IInv, NoSendToClosed, EventOK, stopped, goVars
<1> QED
  BY <1>5, <1>6 DEF IInv

(* The consumer and the context. *)
LEMMA OutsideStep ==
    ASSUME IInv, Receive \/ Cancel
    PROVE  IInv'
<1>1. UNCHANGED goVars /\ UNCHANGED <<last, closes, stop>>
  BY DEF Receive, Cancel
<1>2. resultChan' \in Seq(Lines) /\ Len(resultChan') <= Cap
  BY Bounds DEF Receive, Cancel, IInv, TypeOK
<1>3. cancelled' \in BOOLEAN
  BY DEF Receive, Cancel, IInv, TypeOK
<1> QED
  BY <1>1, <1>2, <1>3 DEF IInv, TypeOK, NoSendToClosed, EventOK, stopped, goVars

(* Each step keeps the invariant. *)
LEMMA InvNext == IInv /\ [Next]_vars => IInv'
<1> SUFFICES ASSUME IInv, [Next]_vars PROVE IInv'
  OBVIOUS
<1>1. CASE Goroutine
  BY <1>1, MoveStep, EventStep, SendStep DEF Goroutine
<1>2. CASE Receive \/ Cancel
  BY <1>2, OutsideStep
<1>3. ASSUME NEW s \in Stopper, CallStop(s) \/ Announce(s) \/ Stop(s) PROVE IInv'
  BY <1>3, StopStep
<1>4. CASE UNCHANGED vars
  BY <1>4 DEF vars, goVars, IInv, TypeOK, NoSendToClosed, EventOK, stopped
<1> QED
  BY <1>1, <1>2, <1>3, <1>4 DEF Next, Ended

----------------------------------------------------------------------------
(* The invariant holds in every run. *)
THEOREM InvHolds == Spec => []IInv
  BY InvInit, InvNext, PTL DEF Spec

(* Every variable keeps its type, and no channel is closed a second time,   *)
(* however many goroutines call Stop (TypeOK).                              *)
THEOREM TypeCorrect == Spec => []TypeOK
<1>1. IInv => TypeOK
  BY DEF IInv
<1> QED
  BY <1>1, InvHolds, PTL

(* The goroutine never sends to a closed channel (NoSendToClosed): sendEvent *)
(* keeps the read lock from its test of stopped to the send.                 *)
THEOREM NeverSendsToClosed == Spec => []NoSendToClosed
<1>1. IInv => NoSendToClosed
  BY DEF IInv
<1> QED
  BY <1>1, InvHolds, PTL

----------------------------------------------------------------------------
(* A step of the watch is a step of the stream, or none. *)
LEMMA StreamStep == IInv /\ [Next]_vars => [Stream!Next]_(Stream!vars)
<1> SUFFICES ASSUME IInv, [Next]_vars PROVE Stream!Next \/ UNCHANGED <<resultChan, last, ~stopped>>
  BY DEF Stream!vars
<1>1. CASE Send
  <2>1. /\ Len(resultChan) < Cap /\ resultChan' = Append(resultChan, event)
        /\ last' = (IF event = 0 THEN last ELSE event) /\ closes' = closes
    BY <1>1 DEF Send
  <2>2. ~stopped /\ event \in Lines /\ (event = 0 \/ event > last)
    BY <1>1, SendStep
  <2>3. event \in (1 .. MaxLines) \cup {0}
    BY <2>2, Bounds DEF Lines
  <2>4. (~stopped)' = ~stopped
    BY <2>1 DEF stopped
  <2>5. Stream!TakeIn(event)
    BY <2>1, <2>2, <2>4 DEF Stream!TakeIn
  <2> QED
    BY <2>3, <2>5 DEF Stream!Next
<1>2. CASE Receive
  <2>1. Stream!HandOut
    BY <1>2 DEF Receive, Stream!HandOut, stopped
  <2> QED
    BY <2>1 DEF Stream!Next
<1>3. ASSUME NEW s \in Stopper, Stop(s) PROVE Stream!Close \/ UNCHANGED <<resultChan, last, ~stopped>>
  <2>1. UNCHANGED <<resultChan, last>> /\ closes' = IF stopped THEN closes ELSE closes + 1
    BY <1>3 DEF Stop
  <2>2. CASE stopped
    BY <2>1, <2>2 DEF stopped
  <2>3. CASE ~stopped
    <3>1. closes' = 1
      BY <2>1, <2>3 DEF stopped, IInv, TypeOK
    <3>2. stopped'
      BY <3>1 DEF stopped
    <3> QED
      BY <2>1, <2>3, <3>2 DEF Stream!Close
  <2> QED
    BY <2>2, <2>3
<1>4. ASSUME NEW s \in Stopper, CallStop(s) \/ Announce(s) PROVE UNCHANGED <<resultChan, last, ~stopped>>
  BY <1>4 DEF CallStop, Announce, stopped
<1>5. CASE Loop \/ Connected \/ StreamEnds \/ Wake \/ Enter \/ Check \/ Drop \/ Exit
  BY <1>5 DEF Loop, Connected, StreamEnds, Wake, Enter, Check, Drop, Exit, GoTo, stopped
<1>6. CASE Fails \/ ReadLine \/ SkipLine \/ Cancel
  BY <1>6 DEF Fails, ReadLine, SkipLine, Cancel, goVars, stopped
<1>7. CASE UNCHANGED vars
  BY <1>7 DEF vars, stopped
<1> QED
  BY <1>1, <1>2, <1>3, <1>4, <1>5, <1>6, <1>7 DEF Next, Goroutine, Ended, Stream!Next

(* The watch implements the stream (ImplementsStream): the lines that come   *)
(* out of the result channel are lines of the server, in its order, none of  *)
(* them twice, and none goes in after Stop.                                  *)
THEOREM Implements == Spec => ImplementsStream
<1>1. Init => Stream!Init
  BY DEF Init, Stream!Init, stopped
<1> QED
  BY <1>1, InvHolds, StreamStep, PTL DEF Spec, ImplementsStream, Stream!Spec
=============================================================================

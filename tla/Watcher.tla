------------------------------- MODULE Watcher -------------------------------
(***************************************************************************)
(* A watch of the typed client (client_pipe/typed/nodeexec.go): a          *)
(* goroutine that connects to the watch server, reads lines, sends each to *)
(* a bounded result channel and connects again; a consumer of the channel; *)
(* and callers of Stop.  sendEvent holds the read lock of the watch while  *)
(* it waits for room, Stop takes the write lock and closes the channel.    *)
(*                                                                         *)
(* A line of the server is its number, an event with an error is 0.        *)
(***************************************************************************)
EXTENDS Naturals, Sequences

CONSTANTS
    Stopper,    \* goroutines that call Stop
    Cap,        \* capacity of resultChan (100 in the code)
    MaxLines    \* bound: lines the server writes

ASSUME BoundAssumption == Cap \in Nat \ {0} /\ MaxLines \in Nat

VARIABLES
    pc,         \* control of the goroutine started by Watch
    event,      \* what it is about to send
    after,      \* where it goes on after sendEvent
    line,       \* lines it has read
    resultChan,
    last,       \* history: the last line sent to resultChan
    closes,     \* how often resultChan was closed: a second time would panic
    stop,       \* control of each call of Stop
    cancelled,  \* the context of the watch is done
    registered  \* the watch is in the map of its client

goVars == <<pc, event, after, line, registered>>
vars == <<goVars, resultChan, last, closes, stop, cancelled>>

Lines == 0 .. MaxLines
Controls == {"loop", "connect", "scan", "enter", "check", "send", "sleep", "exit", "done"}
Stops == {"idle", "waiting", "announced", "returned"}

stopped == closes > 0

(* The RWMutex: a writer that has announced itself keeps new readers out *)
(* and waits for the one that is inside.                                 *)
Reading == pc \in {"check", "send"}
Announced == {s \in Stopper : stop[s] = "announced"}

Init ==
    /\ pc = "loop" /\ event = 0 /\ after = "scan" /\ line = 0 /\ registered = TRUE
    /\ resultChan = <<>> /\ last = 0 /\ closes = 0
    /\ stop = [s \in Stopper |-> "idle"] /\ cancelled = FALSE

(* LoopAnyway, SendAgain, WaitsForRoom, CloseAgain and CloseUnlocked are     *)
(* defects the code could have; they serve to see that properties notice.   *)

GoTo(from, to) ==
    /\ pc = from /\ pc' = to
    /\ UNCHANGED <<event, after, line, registered, resultChan, last, closes, stop, cancelled>>

SendEvent(e, next) == pc' = "enter" /\ event' = e /\ after' = next

----------------------------------------------------------------------------
(* watchServer and connectAndWatch *)

LoopAnyway == GoTo("loop", "connect")

Loop ==
    \/ (stopped \/ cancelled) /\ GoTo("loop", "exit")
    \/ ~stopped /\ ~cancelled /\ GoTo("loop", "connect")

Connected == ~cancelled /\ GoTo("connect", "scan")

(* The request fails, the body ends with an error (the timeout of the HTTP  *)
(* client ends each watch), or the context is found done: connectAndWatch   *)
(* returns an error, which watchServer sends before it sleeps.              *)
Fails ==
    /\ pc \in {"connect", "scan"}
    /\ SendEvent(0, "sleep")
    /\ UNCHANGED <<line, registered, resultChan, last, closes, stop, cancelled>>

(* The server closes the stream, or a line is read after Stop: back to the *)
(* loop without a pause.                                                   *)
StreamEnds == GoTo("scan", "loop")

ReadLine ==
    /\ pc = "scan" /\ line < MaxLines /\ line' = line + 1
    /\ ~stopped /\ ~cancelled
    /\ SendEvent(line + 1, "scan")
    /\ UNCHANGED <<registered, resultChan, last, closes, stop, cancelled>>

(* An empty line, or one that is no event. *)
SkipLine ==
    /\ pc = "scan" /\ line < MaxLines /\ line' = line + 1
    /\ ~stopped /\ ~cancelled
    /\ UNCHANGED <<pc, event, after, registered, resultChan, last, closes, stop, cancelled>>

Wake == GoTo("sleep", "loop")

----------------------------------------------------------------------------
(* sendEvent *)

Enter == Announced = {} /\ GoTo("enter", "check")

Check ==
    \/ stopped /\ GoTo("check", after)
    \/ ~stopped /\ GoTo("check", "send")

SendAgain ==
    /\ pc = "send" /\ Len(resultChan) < Cap
    /\ resultChan' = Append(resultChan, event)
    /\ last' = IF event = 0 THEN last ELSE event
    /\ UNCHANGED <<goVars, closes, stop, cancelled>>

Send ==
    /\ pc = "send" /\ Len(resultChan) < Cap
    /\ resultChan' = Append(resultChan, event)
    /\ last' = IF event = 0 THEN last ELSE event
    /\ pc' = after
    /\ UNCHANGED <<event, after, line, registered, closes, stop, cancelled>>

WaitsForRoom == FALSE /\ UNCHANGED vars

(* Five seconds without room. *)
Drop == Len(resultChan) = Cap /\ GoTo("send", after)

----------------------------------------------------------------------------
(* The end of the goroutine: the deferred function of start. *)
Exit ==
    /\ pc = "exit" /\ pc' = "done" /\ registered' = FALSE
    /\ UNCHANGED <<event, after, line, resultChan, last, closes, stop, cancelled>>

----------------------------------------------------------------------------
(* Stop, the consumer and the context *)

CallStop(s) ==
    /\ stop[s] = "idle" /\ stop' = [stop EXCEPT ![s] = "waiting"]
    /\ UNCHANGED <<goVars, resultChan, last, closes, cancelled>>

Announce(s) ==
    /\ stop[s] = "waiting" /\ Announced = {}
    /\ stop' = [stop EXCEPT ![s] = "announced"]
    /\ UNCHANGED <<goVars, resultChan, last, closes, cancelled>>

CloseAgain(s) ==
    /\ stop[s] = "announced" /\ ~Reading
    /\ closes' = closes + 1
    /\ stop' = [stop EXCEPT ![s] = "returned"]
    /\ UNCHANGED <<goVars, resultChan, last, cancelled>>

CloseUnlocked(s) ==
    /\ stop[s] = "announced"
    /\ closes' = 1
    /\ stop' = [stop EXCEPT ![s] = "returned"]
    /\ UNCHANGED <<goVars, resultChan, last, cancelled>>

(* The write lock is free: close the channels, unless somebody has. *)
Stop(s) ==
    /\ stop[s] = "announced" /\ ~Reading
    /\ closes' = IF stopped THEN closes ELSE closes + 1
    /\ stop' = [stop EXCEPT ![s] = "returned"]
    /\ UNCHANGED <<goVars, resultChan, last, cancelled>>

Receive ==
    /\ resultChan # <<>> /\ resultChan' = Tail(resultChan)
    /\ UNCHANGED <<goVars, last, closes, stop, cancelled>>

Cancel ==
    /\ ~cancelled /\ cancelled' = TRUE
    /\ UNCHANGED <<goVars, resultChan, last, closes, stop>>

----------------------------------------------------------------------------
Goroutine ==
    \/ Loop \/ Connected \/ Fails \/ StreamEnds \/ ReadLine \/ SkipLine
    \/ Wake \/ Enter \/ Check \/ Send \/ Drop \/ Exit

Ended ==
    /\ pc = "done" /\ \A s \in Stopper : stop[s] = "returned"
    /\ UNCHANGED vars

Next ==
    \/ Goroutine \/ Receive \/ Cancel
    \/ \E s \in Stopper : CallStop(s) \/ Announce(s) \/ Stop(s)
    \/ Ended

Spec == Init /\ [][Next]_vars

(* The goroutine runs on: a request is answered or fails, the timeout of   *)
(* the HTTP client ends a silent stream, a full channel is waited for at   *)
(* most five seconds. A call of Stop goes on when the lock lets it. Nobody *)
(* has to receive, to cancel or to call Stop.                              *)
Fairness ==
    /\ WF_vars(Goroutine)
    /\ \A s \in Stopper : WF_vars(Announce(s)) /\ WF_vars(Stop(s))

FairSpec == Spec /\ Fairness

----------------------------------------------------------------------------
(* Properties. *)

(* Every variable has its type, and no channel is closed twice. *)
TypeOK ==
    /\ pc \in Controls /\ event \in Lines /\ after \in {"scan", "sleep"}
    /\ line \in Lines /\ resultChan \in Seq(Lines) /\ Len(resultChan) <= Cap
    /\ last \in Lines /\ closes \in 0 .. 1
    /\ stop \in [Stopper -> Stops] /\ cancelled \in BOOLEAN /\ registered \in BOOLEAN

(* While the goroutine waits for room, nobody closes the channel it sends   *)
(* to: that would panic. The flag it has read stays true to the channel     *)
(* (sendEvent and Stop).                                                    *)
NoSendToClosed == pc = "send" => ~stopped

(* Stop returns, although a sender may hold the lock and the consumer may   *)
(* have ceased to receive (the five seconds of sendEvent).                  *)
StopReturns == \A s \in Stopper : stop[s] = "waiting" ~> stop[s] = "returned"

(* The goroutine of a watch that is stopped or whose context is done ends,  *)
(* and the client forgets the watch (watchServer, start).                   *)
WatcherEnds == stopped \/ cancelled ~> pc = "done" /\ ~registered

(* The result channel is a stream that loses lines but does not reorder,    *)
(* repeat or invent them, and takes none after Stop.                        *)
Stream == INSTANCE LossyStream WITH Line <- 1 .. MaxLines, buffer <- resultChan, open <- ~stopped
ImplementsStream == Stream!Spec
=============================================================================

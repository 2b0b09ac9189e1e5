------------------------------- MODULE NodeApi --------------------------------
(***************************************************************************)
(* The execution API as a client sees it (client_pipe/typed,               *)
(* http/api/pipe_exec, service/pipe_exec): List, Get, Update and Delete of *)
(* one node. A client sends one call at a time; when its HTTP client gives *)
(* up, the server works on, and the client may send the next call.         *)
(*                                                                         *)
(* A call is its own value: what an Update writes is its name. PipeExec    *)
(* says what else the server does after an Update.                         *)
(***************************************************************************)
EXTENDS Naturals, Sequences, FiniteSets

CONSTANTS
    Client, Call,
    Created,    \* what Run stored and put
    None,
    MaxFaults   \* bound: calls of the server to database or etcd that fail

ASSUME NodeApiAssumption ==
    MaxFaults \in Nat /\ Created \notin Call /\ None \notin Call \cup Client \cup {Created}

VARIABLES
    row,        \* the row of the node, None when it is deleted
    puts,       \* history: the values its key has had, the last one is the value
    by, what,   \* of each call
    server,     \* control of the request on the server
    outcome,    \* what the server answers
    client,     \* what the client has heard
    answer,     \* of a List or Get: the number of the value it read, 0 for none
    earlier,    \* history: the calls its client sent before
    faults

vars == <<row, puts, by, what, server, outcome, client, answer, earlier, faults>>

Servers == {"none", "received", "found", "stored", "answered"}

Init ==
    /\ row = Created /\ puts = <<Created>>
    /\ by = [c \in Call |-> None] /\ what = [c \in Call |-> "none"]
    /\ server = [c \in Call |-> "none"] /\ outcome = [c \in Call |-> "none"]
    /\ client = [c \in Call |-> "none"] /\ answer = [c \in Call |-> 0]
    /\ earlier = [c \in Call |-> {}] /\ faults = 0

----------------------------------------------------------------------------
(* The typed client: it sends, and hears an answer, or gives up after its    *)
(* timeout (or a broken connection) with an error.                           *)

Send(u, c, method) ==
    /\ by[c] = None /\ \A d \in Call : by[d] = u => client[d] # "waiting"
    /\ by' = [by EXCEPT ![c] = u] /\ what' = [what EXCEPT ![c] = method]
    /\ client' = [client EXCEPT ![c] = "waiting"]
    /\ server' = [server EXCEPT ![c] = "received"]
    /\ earlier' = [earlier EXCEPT ![c] = {d \in Call : by[d] = u}]
    /\ UNCHANGED <<row, puts, outcome, answer, faults>>

CallUpdate(u, c) == Send(u, c, "update")
CallDelete(u, c) == Send(u, c, "delete")
CallList(u, c) == Send(u, c, "list")
CallGet(u, c) == Send(u, c, "get")

(* Status 200 whatever happens; the code in the body tells. *)
Hear(c) ==
    /\ client[c] = "waiting" /\ server[c] = "answered"
    /\ client' = [client EXCEPT ![c] = outcome[c]]
    /\ UNCHANGED <<row, puts, by, what, server, outcome, answer, earlier, faults>>

GivesUp(c) ==
    /\ client[c] = "waiting" /\ client' = [client EXCEPT ![c] = "error"]
    /\ UNCHANGED <<row, puts, by, what, server, outcome, answer, earlier, faults>>

----------------------------------------------------------------------------
(* The handlers and the service *)

Works(c, method, from) ==
    /\ what[c] = method /\ server[c] = from
    /\ UNCHANGED <<by, what, client, earlier>>

Fault == faults < MaxFaults /\ faults' = faults + 1
NoFault == UNCHANGED faults

Goes(c, to) == server' = [server EXCEPT ![c] = to] /\ UNCHANGED outcome

Answers(c, result) ==
    /\ server' = [server EXCEPT ![c] = "answered"]
    /\ outcome' = [outcome EXCEPT ![c] = result]

(* Asked without a limit, under a prefix that the key of the node has: a     *)
(* limit cuts the answer off, and a kind without a namespace makes a prefix  *)
(* with a * in it that no key has (buildKeyPrefix).                          *)
List(c) ==
    /\ Works(c, "list", "received") /\ UNCHANGED <<row, puts>>
    /\ \/ Answers(c, "ok") /\ NoFault /\ answer' = [answer EXCEPT ![c] = Len(puts)]
       \/ Answers(c, "error") /\ Fault /\ UNCHANGED answer

(* buildObjectKey writes a * for the version: no key is like that, so the    *)
(* node is never found.                                                      *)
Get(c) ==
    /\ Works(c, "get", "received")
    /\ Answers(c, "error") /\ UNCHANGED <<row, puts, answer, faults>>

UpdateFinds(c) ==
    /\ Works(c, "update", "received") /\ UNCHANGED <<row, puts, answer>>
    /\ \/ row # None /\ Goes(c, "found") /\ NoFault
       \/ row = None /\ Answers(c, "error") /\ NoFault
       \/ Answers(c, "error") /\ Fault

(* A row that is gone by now is no error. *)
UpdateRow(c) ==
    /\ Works(c, "update", "found") /\ UNCHANGED <<puts, answer>>
    /\ \/ row' = (IF row = None THEN None ELSE c) /\ Goes(c, "stored") /\ NoFault
       \/ UNCHANGED row /\ Answers(c, "error") /\ Fault

(* A defect the code could have: the answer goes out before the put. *)
AnswersFirst(c) ==
    /\ what[c] = "update" /\ server[c] \in {"stored", "answered"}
    /\ \A i \in 1 .. Len(puts) : puts[i] # c
    /\ UNCHANGED <<by, what, client, earlier, row, answer>>
    /\ \/ server[c] = "stored" /\ Answers(c, "ok") /\ NoFault /\ UNCHANGED puts
       \/ /\ server[c] = "answered" /\ UNCHANGED <<server, outcome>> /\ NoFault
          /\ puts' = Append(puts, c)

(* A put that fails may have been applied. *)
UpdatePut(c) ==
    /\ Works(c, "update", "stored") /\ UNCHANGED <<row, answer>>
    /\ \/ puts' = Append(puts, c) /\ Answers(c, "ok") /\ NoFault
       \/ puts' \in {puts, Append(puts, c)} /\ Answers(c, "error") /\ Fault

DeleteRow(c) ==
    /\ Works(c, "delete", "received") /\ UNCHANGED <<puts, answer>>
    /\ \/ row' = None /\ Goes(c, "stored") /\ NoFault
       \/ UNCHANGED row /\ Answers(c, "error") /\ Fault

(* Nor is it deleted, which etcd does not mind. *)
DeleteKey(c) ==
    /\ Works(c, "delete", "stored") /\ UNCHANGED <<row, puts, answer>>
    /\ \/ Answers(c, "ok") /\ NoFault
       \/ Answers(c, "error") /\ Fault

----------------------------------------------------------------------------
Handled == \A c \in Call : client[c] # "waiting" /\ server[c] \in {"none", "answered"}

Next ==
    \/ \E c \in Call :
          \/ \E u \in Client :
                CallUpdate(u, c) \/ CallDelete(u, c) \/ CallList(u, c) \/ CallGet(u, c)
          \/ Hear(c) \/ GivesUp(c)
          \/ List(c) \/ Get(c)
          \/ UpdateFinds(c) \/ UpdateRow(c) \/ UpdatePut(c)
          \/ DeleteRow(c) \/ DeleteKey(c)
    \/ Handled /\ (\A c \in Call : by[c] # None) /\ UNCHANGED vars

Spec == Init /\ [][Next]_vars

----------------------------------------------------------------------------
(* Properties. *)

Position(c) == CHOOSE i \in 1 .. Len(puts) : puts[i] = c
Put(c) == \E i \in 1 .. Len(puts) : puts[i] = c

(* What a client was told is done is done, for all it does later: its lists  *)
(* show the Update or a later one, and its later Updates come later in etcd, *)
(* so that no watcher sees them the other way round, however the calls of    *)
(* several clients and the leftovers of calls they gave up interleave        *)
(* (Service.Update puts before it answers).                                  *)
AcknowledgedIsSeen ==
    \A c \in Call : \A d \in earlier[c] : what[d] = "update" /\ client[d] = "ok" =>
        /\ Put(d)
        /\ what[c] = "list" /\ client[c] = "ok" => answer[c] >= Position(d)
        /\ what[c] = "update" /\ Put(c) => Position(c) > Position(d)

----------------------------------------------------------------------------
(* What the API seems to promise and the model refutes.                     *)

(* Get finds a node that exists (service.go:110).                           *)
GetFinds == \A c \in Call : what[c] = "get" /\ server[c] = "answered" => outcome[c] = "ok"

(* Row and key agree when no call is being handled and none failed: two     *)
(* Updates may write the row in one order and the key in the other.         *)
RowIsKey == Handled /\ faults = 0 /\ row # None => row = puts[Len(puts)]

(* An Update that its client gave up never comes after the next one.        *)
RetryPrevails ==
    \A c \in Call : \A d \in earlier[c] :
        what[c] = "update" /\ what[d] = "update" /\ Put(c) /\ Put(d) => Position(c) > Position(d)
=============================================================================

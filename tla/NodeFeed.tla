------------------------------ MODULE NodeFeed -------------------------------
(***************************************************************************)
(* The nodes as a client of one namespace and kind is told of them: the    *)
(* writes to etcd, the list API (service/pipe_exec), and a watch of the    *)
(* typed client, which connects to the watch server again and again. A     *)
(* connection begins with a list of all keys and goes on with the writes.  *)
(* The channel between is what LossyStream says: it loses events but keeps *)
(* their order.                                                            *)
(*                                                                         *)
(* An object is what one write put: its revision, its attributes and its   *)
(* UpdatedAt, which has the precision of a second.                         *)
(***************************************************************************)
EXTENDS Naturals, Sequences, FiniteSets, Store

CONSTANTS
    KeyNamespace, KeyKind,  \* namespace and kind are part of the key
    WantedKind, \* the kind of the client; the prefix of the watch has no closing
                \* slash, so kinds whose names begin with it come along
    Cap,        \* capacity of the result channel (100 in the code)
    MaxRev,     \* bound: writes to etcd
    MaxTime,    \* bound: the last second in which somebody writes
    MaxFaults   \* bound: lines that are lost, calls that fail

VARIABLES
    history,    \* the writes under the prefix of the watch; a removal is [key, put |-> FALSE]
    connected,  \* the watch has a connection to the server
    announce,   \* listed by the server for this connection, not sent yet
    next,       \* the revision it sends next
    resultChan,
    faults

(* What a write puts. *)
Object == {o \in [key : Key, put : {TRUE}, rev : Nat, namespace : Namespace \cup {Blank},
                  kind : Kind \cup {Blank}, updatedAt : Nat] :
             o.namespace = KeyNamespace[o.key] /\ o.kind = KeyKind[o.key]}

ASSUME FeedAssumption ==
    /\ KeyNamespace \in [Key -> Namespace \cup {Blank}]
    /\ KeyKind \in [Key -> Kind \cup {Blank}]
    /\ Blank \notin Namespace \cup Kind /\ None \notin Object
    /\ Cap \in Nat /\ MaxTime \in Nat

feedVars == <<history, connected, announce, next, resultChan, faults>>

Revisions == 1 .. Len(history)
Last(k) == {r \in Revisions : history[r].key = k /\ \A q \in Revisions : history[q].key = k => q <= r}

(* What etcd holds at k. *)
Current(k) ==
    IF \E r \in Last(k) : history[r].put
    THEN history[CHOOSE r \in Last(k) : TRUE] ELSE None

Existing == {Current(k) : k \in Key} \ {None}

(* A write of a key that was not there: CreateRevision = ModRevision. *)
Creates(r) ==
    \A q \in 1 .. r - 1 : history[q].key = history[r].key /\ history[q].put =>
        \E d \in q .. r : history[d].key = history[r].key /\ ~history[d].put

(* convertToClientEvent: an event of a removal has no value to send. *)
EventOf(r) ==
    IF history[r].put
    THEN [type |-> IF Creates(r) THEN "ADDED" ELSE "MODIFIED", object |-> history[r]]
    ELSE [type |-> "DELETED", object |-> None]

ErrorEvent == [type |-> "ERROR", object |-> None]

FeedInit ==
    /\ history = <<>> /\ connected = FALSE /\ announce = {} /\ next = 0
    /\ resultChan = <<>> /\ faults = 0

----------------------------------------------------------------------------
(* etcd: the writes of the server and of the operators *)

(* UpdatedAt is the second of the write; the first write is at second 0. *)
Second(t) ==
    IF \E r \in Revisions : history[r].put
    THEN \A r \in Revisions : history[r].put => t >= history[r].updatedAt
    ELSE t = 0

Put(k, t) ==
    /\ Len(history) < MaxRev /\ Second(t)
    /\ history' = Append(history, [key |-> k, put |-> TRUE, rev |-> Len(history) + 1,
                                   namespace |-> KeyNamespace[k], kind |-> KeyKind[k],
                                   updatedAt |-> t])
    /\ UNCHANGED <<connected, announce, next, resultChan, faults>>

Remove(k) ==
    /\ Len(history) < MaxRev /\ Current(k) # None
    /\ history' = Append(history, [key |-> k, put |-> FALSE, rev |-> Len(history) + 1])
    /\ UNCHANGED <<connected, announce, next, resultChan, faults>>

----------------------------------------------------------------------------
(* The list API: it compares the kinds, so it answers with the wanted one. *)
Listing == {o \in Existing : o.kind = WantedKind}

Fault == faults < MaxFaults /\ faults' = faults + 1

----------------------------------------------------------------------------
(* The watch *)

(* ConnectWithoutList and DeliverAnyway are defects the code could have. *)
ConnectWithoutList ==
    /\ ~connected /\ connected' = TRUE
    /\ announce' = {} /\ next' = Len(history) + 1
    /\ UNCHANGED <<history, resultChan, faults>>

(* The server lists and then watches from the revision of the list, which  *)
(* repeats the last write, or has its watch already running.               *)
Connect ==
    /\ ~connected /\ connected' = TRUE
    /\ announce' = Existing
    /\ next' \in {Len(history), Len(history) + 1} \ {0}
    /\ UNCHANGED <<history, resultChan, faults>>

(* What the server sends next, after which. *)
NextLine(event) ==
    \/ \E o \in announce :
          event = EventOf(o.rev) /\ announce' = announce \ {o} /\ UNCHANGED next
    \/ /\ announce = {} /\ next <= Len(history)
       /\ event = EventOf(next) /\ next' = next + 1 /\ UNCHANGED announce

Events == {EventOf(r) : r \in Revisions}

DeliverAnyway ==
    /\ connected
    /\ \E e \in Events : NextLine(e) /\ resultChan' = Append(resultChan, e)
    /\ UNCHANGED <<history, connected, faults>>

Deliver ==
    /\ connected /\ Len(resultChan) < Cap
    /\ \E e \in Events : NextLine(e) /\ resultChan' = Append(resultChan, e)
    /\ UNCHANGED <<history, connected, faults>>

(* A full buffer, here or on the server, or a list before a write and a    *)
(* registration after it (PipeWatch).                                      *)
Lose ==
    /\ connected /\ Fault
    /\ \E e \in Events : NextLine(e)
    /\ UNCHANGED <<history, connected, resultChan>>

(* The server ends the stream, or the timeout of the HTTP client does, with *)
(* an error that the channel takes when it has room. Before the list of the *)
(* connection is through, that is a fault.                                  *)
Disconnect ==
    /\ connected /\ connected' = FALSE
    /\ announce' = {} /\ next' = 0
    /\ \/ UNCHANGED resultChan
       \/ Len(resultChan) < Cap /\ resultChan' = Append(resultChan, ErrorEvent)
    /\ \/ announce = {} /\ UNCHANGED faults
       \/ announce # {} /\ Fault
    /\ UNCHANGED history

(* client.Watch: a new watch with a channel of its own; it always succeeds. *)
NewWatch ==
    /\ connected' = FALSE /\ announce' = {} /\ next' = 0 /\ resultChan' = <<>>

Writes == \E k \in Key : Remove(k) \/ \E t \in 0 .. MaxTime : Put(k, t)
Watching == Connect \/ Deliver \/ Disconnect
=============================================================================

------------------------------ MODULE PipeWatch ------------------------------
(***************************************************************************)
(* The watch server of service/pipe_watch and its handler in               *)
(* http/api/pipe_watch, for the keys of one prefix.  A connection has a    *)
(* handler, which reads its event channel, and a goroutine that joins it   *)
(* to the stream of the prefix: it lists the keys into the channel, adds   *)
(* the channel to the stream, and starts the etcd watch of the stream if   *)
(* nobody has.  The watch sends each event to all channels of its stream.  *)
(*                                                                         *)
(* Revision r of the store is one write under the prefix; an event is its  *)
(* revision, and a list answers with the latest.  A stream is named by the *)
(* connection that made it, a watch by the one that started it.            *)
(***************************************************************************)
EXTENDS Integers, Sequences, FiniteSets

CONSTANTS
    Conn,       \* connections; each has its own uuid
    None,
    Cap,        \* capacity of an event channel (100 in the code)
    MaxRev,     \* bound: writes to the store
    MaxFaults   \* bound: calls and watches that etcd fails

ASSUME ConnAssumption == None \notin Conn
ASSUME BoundAssumption == Cap \in Nat \ {0} /\ MaxRev \in Nat \ {0} /\ MaxFaults \in Nat

VARIABLES
    rev,        \* revision of etcd
    current,    \* streamAgg[prefix]
    cancelled, watchStarted, revSince, channels,   \* of each EventStream
    join,       \* control of each connection's joining goroutine
    stream,     \* the stream it got
    listed,     \* the revision it listed
    handler,    \* control of each HTTP handler
    sent, read, \* what went into an event channel, and how much of it was read
    dropped,    \* what its full buffer refused
    closed,     \* the event channels that are closed
    watch,      \* control of each watch
    next,       \* the revision it delivers next
    todo,       \* the channels it still has to visit with an event
    faults,
    crashed     \* the runtime stopped the server: a map written while ranged over

streamVars == <<cancelled, watchStarted, revSince, channels>>
joinVars == <<join, stream, listed>>
channelVars == <<sent, read, dropped, closed>>
watchVars == <<watch, next, todo>>
vars == <<rev, current, streamVars, joinVars, handler, channelVars, watchVars, faults, crashed>>

Joins == {"idle", "get", "list", "add", "check", "start", "done"}
Handlers == {"idle", "serving", "left"}
Watches == {"none", "spawned", "running", "sending", "ended", "blocked"}

Elements(s) == {s[k] : k \in 1 .. Len(s)}

Init ==
    /\ rev = 1 /\ current = None
    /\ cancelled = {} /\ watchStarted = {}
    /\ revSince = [s \in Conn |-> 0] /\ channels = [s \in Conn |-> {}]
    /\ join = [c \in Conn |-> "idle"] /\ stream = [c \in Conn |-> None]
    /\ listed = [c \in Conn |-> 0]
    /\ handler = [c \in Conn |-> "idle"]
    /\ sent = [c \in Conn |-> <<>>] /\ read = [c \in Conn |-> 0]
    /\ dropped = [c \in Conn |-> {}] /\ closed = {}
    /\ watch = [c \in Conn |-> "none"] /\ next = [c \in Conn |-> 0]
    /\ todo = [c \in Conn |-> {}]
    /\ faults = 0 /\ crashed = FALSE

Put ==
    /\ rev < MaxRev /\ rev' = rev + 1
    /\ UNCHANGED <<current, streamVars, joinVars, handler, channelVars, watchVars, faults, crashed>>

(* OfferAnyway, KeepsStream, AddsBeforeList and WatchFromNow are defects:    *)
(* what the definition after each might have been by mistake.               *)
(* PROJECT.json names the property each one breaks.                         *)
OfferAnyway(c, r) == sent' = [sent EXCEPT ![c] = Append(@, r)] /\ UNCHANGED <<dropped, read, closed>>

(* Into the buffer, or nowhere when it is full. *)
Offer(c, r) ==
    /\ IF Len(sent[c]) - read[c] < Cap
       THEN sent' = [sent EXCEPT ![c] = Append(@, r)] /\ UNCHANGED dropped
       ELSE dropped' = [dropped EXCEPT ![c] = @ \cup {r}] /\ UNCHANGED sent
    /\ UNCHANGED <<read, closed>>

GoTo(c, to) == join' = [join EXCEPT ![c] = to]

(* The watches that range over the map of a stream.  One that is writing it *)
(* at the same time may stop the program.                                   *)
Ranging(s) == {w \in Conn : watch[w] = "sending" /\ stream[w] = s}
MayCrash(s) == crashed' \in IF Ranging(s) = {} THEN {FALSE} ELSE BOOLEAN

----------------------------------------------------------------------------
(* The handler: Watch, the loop that reads events, UnWatch.                 *)

(* Service.Watch: a goroutine joins; the handler has the channel at once. *)
StartJoin(c) == GoTo(c, "get")

Connect(c) ==
    /\ handler[c] = "idle"
    /\ handler' = [handler EXCEPT ![c] = "serving"]
    /\ StartJoin(c)
    /\ UNCHANGED <<rev, current, streamVars, stream, listed, channelVars, watchVars, faults, crashed>>

Read(c) ==
    /\ handler[c] = "serving" /\ read[c] < Len(sent[c])
    /\ read' = [read EXCEPT ![c] = @ + 1]
    /\ UNCHANGED <<rev, current, streamVars, joinVars, handler, sent, dropped, closed,
                   watchVars, faults, crashed>>

KeepsStream(s) == cancelled' = cancelled \cup {s} /\ UNCHANGED current

StopStream(s) == cancelled' = cancelled \cup {s} /\ current' = None

(* RemoveOperator works on the stream that the prefix has now. *)
RemoveOperator(c) ==
    IF current = None THEN UNCHANGED <<current, cancelled, channels, todo, crashed>>
    ELSE /\ channels' = [channels EXCEPT ![current] = @ \ {c}]
         /\ todo' = [w \in Conn |-> IF w \in Ranging(current) THEN todo[w] \ {c} ELSE todo[w]]
         /\ IF c \in channels[current] THEN MayCrash(current) ELSE UNCHANGED crashed
         /\ IF channels[current] \subseteq {c} THEN StopStream(current)
            ELSE UNCHANGED <<current, cancelled>>

(* The client is gone, the write failed, or the channel says so. *)
Leave(c) ==
    /\ handler[c] = "serving"
    /\ handler' = [handler EXCEPT ![c] = "left"]
    /\ RemoveOperator(c)
    /\ UNCHANGED <<rev, watchStarted, revSince, joinVars, channelVars, watch, next, faults>>

----------------------------------------------------------------------------
(* The goroutine that joins the connection: WatchServer.ListAndWatch.       *)

AddsBeforeList(c) ==
    /\ join[c] = "get"
    /\ current' = IF current = None THEN c ELSE current
    /\ stream' = [stream EXCEPT ![c] = current']
    /\ channels' = [channels EXCEPT ![current'] = @ \cup {c}]
    /\ GoTo(c, "list")
    /\ UNCHANGED <<rev, cancelled, watchStarted, revSince, listed, handler, channelVars, watchVars,
                   faults, crashed>>

GetEventStream(c) ==
    /\ join[c] = "get"
    /\ current' = IF current = None THEN c ELSE current
    /\ stream' = [stream EXCEPT ![c] = current']
    /\ GoTo(c, "list")
    /\ UNCHANGED <<rev, streamVars, listed, handler, channelVars, watchVars, faults, crashed>>

List(c) ==
    /\ join[c] = "list" /\ stream[c] \notin cancelled
    /\ listed' = [listed EXCEPT ![c] = rev]
    /\ Offer(c, rev)
    /\ GoTo(c, "add")
    /\ UNCHANGED <<rev, current, streamVars, stream, handler, watchVars, faults, crashed>>

(* The error goes into a channel of its own, which has room for it. *)
CloseChannel(c) == closed' = closed \cup {c}

ListFails(c) ==
    /\ join[c] = "list"
    /\ IF stream[c] \in cancelled THEN UNCHANGED faults
       ELSE faults < MaxFaults /\ faults' = faults + 1
    /\ CloseChannel(c)
    /\ GoTo(c, "done")
    /\ UNCHANGED <<rev, current, streamVars, stream, listed, handler, sent, read, dropped,
                   watchVars, crashed>>

(* A watch that ranges over the map may or may not see the new channel. *)
AddChannel(c) ==
    /\ join[c] = "add"
    /\ LET s == stream[c] IN
       /\ channels' = [channels EXCEPT ![s] = @ \cup {c}]
       /\ \E Seeing \in SUBSET Ranging(s) :
              todo' = [w \in Conn |-> IF w \in Seeing THEN todo[w] \cup {c} ELSE todo[w]]
       /\ MayCrash(s)
    /\ GoTo(c, "check")
    /\ UNCHANGED <<rev, current, cancelled, watchStarted, revSince, stream, listed, handler,
                   channelVars, watch, next, faults>>

(* No lock is held between the test and StartWatch. *)
CheckStarted(c) ==
    /\ join[c] = "check"
    /\ GoTo(c, IF stream[c] \in watchStarted THEN "done" ELSE "start")
    /\ UNCHANGED <<rev, current, streamVars, stream, listed, handler, channelVars, watchVars,
                   faults, crashed>>

StartWatch(c) ==
    /\ join[c] = "start"
    /\ watchStarted' = watchStarted \cup {stream[c]}
    /\ revSince' = [revSince EXCEPT ![stream[c]] = listed[c]]
    /\ watch' = [watch EXCEPT ![c] = "spawned"]
    /\ GoTo(c, "done")
    /\ UNCHANGED <<rev, current, cancelled, channels, stream, listed, handler, channelVars,
                   next, todo, faults, crashed>>

----------------------------------------------------------------------------
(* The watch: etcd.Watch with HandleWatch.                                  *)

WatchFromNow(w) == rev + 1

FirstRevision(w) == revSince[stream[w]]

OpenWatch(w) ==
    /\ watch[w] = "spawned"
    /\ watch' = [watch EXCEPT ![w] = "running"]
    /\ next' = [next EXCEPT ![w] = FirstRevision(w)]
    /\ UNCHANGED <<rev, current, streamVars, joinVars, handler, channelVars, todo, faults, crashed>>

(* An event arrives; HandleWatch ranges over the channels without the lock. *)
Deliver(w) ==
    /\ watch[w] = "running" /\ next[w] <= rev
    /\ watch' = [watch EXCEPT ![w] = "sending"]
    /\ todo' = [todo EXCEPT ![w] = channels[stream[w]]]
    /\ UNCHANGED <<rev, current, streamVars, joinVars, handler, channelVars, next, faults, crashed>>

Send(w, c) ==
    /\ watch[w] = "sending" /\ c \in todo[w]
    /\ Offer(c, next[w])
    /\ todo' = [todo EXCEPT ![w] = @ \ {c}]
    /\ UNCHANGED <<rev, current, streamVars, joinVars, handler, watch, next, faults, crashed>>

SentToAll(w) ==
    /\ watch[w] = "sending" /\ todo[w] = {}
    /\ watch' = [watch EXCEPT ![w] = "running"]
    /\ next' = [next EXCEPT ![w] = @ + 1]
    /\ UNCHANGED <<rev, current, streamVars, joinVars, handler, channelVars, todo, faults, crashed>>

(* Nobody receives from ch.done: with a channel to close, HandleWatch stops *)
(* at the send to it, for ever.                                             *)
AfterWatch(w) == IF channels[stream[w]] = {} THEN "ended" ELSE "blocked"

EndWatch(w) ==
    /\ watch[w] = "running"
    /\ watch' = [watch EXCEPT ![w] = AfterWatch(w)]
    /\ UNCHANGED <<rev, current, streamVars, joinVars, handler, channelVars, next, todo, crashed>>

WatchStops(w) == stream[w] \in cancelled /\ EndWatch(w) /\ UNCHANGED faults

WatchCancelled(w) == faults < MaxFaults /\ faults' = faults + 1 /\ EndWatch(w)

----------------------------------------------------------------------------
Join(c) ==
    \/ GetEventStream(c) \/ List(c) \/ ListFails(c)
    \/ AddChannel(c) \/ CheckStarted(c) \/ StartWatch(c)

Watch(w) == OpenWatch(w) \/ Deliver(w) \/ (\E c \in Conn : Send(w, c)) \/ SentToAll(w) \/ WatchStops(w)

Ended ==
    /\ crashed \/ \A c \in Conn : handler[c] = "left" /\ join[c] = "done"
    /\ UNCHANGED vars

Next ==
    \/ /\ ~crashed
       /\ \/ Put
          \/ \E c \in Conn :
                Connect(c) \/ Read(c) \/ Leave(c) \/ Join(c) \/ Watch(c) \/ WatchCancelled(c)
    \/ Ended

Spec == Init /\ [][Next]_vars

(* Goroutines run on, a watch of etcd delivers, a handler whose channel is  *)
(* closed returns. Nobody has to leave or to read.                          *)
Fairness ==
    \A c \in Conn :
        /\ WF_vars(~crashed /\ Join(c))
        /\ WF_vars(~crashed /\ Watch(c))
        /\ WF_vars(~crashed /\ c \in closed /\ Leave(c))

FairSpec == Spec /\ Fairness

----------------------------------------------------------------------------
(* Properties. *)

Streams == {stream[c] : c \in Conn} \ {None}
Registered(c) == stream[c] # None /\ c \in channels[stream[c]]

(* Every variable has its type, and no buffer holds more than it can. *)
TypeOK ==
    /\ rev \in 1 .. MaxRev /\ current \in Conn \cup {None}
    /\ cancelled \subseteq Conn /\ watchStarted \subseteq Conn
    /\ revSince \in [Conn -> 0 .. MaxRev] /\ channels \in [Conn -> SUBSET Conn]
    /\ join \in [Conn -> Joins] /\ stream \in [Conn -> Conn \cup {None}]
    /\ listed \in [Conn -> 0 .. MaxRev] /\ handler \in [Conn -> Handlers]
    /\ sent \in [Conn -> Seq(1 .. MaxRev)] /\ read \in [Conn -> Nat]
    /\ \A c \in Conn : Len(sent[c]) - read[c] \in 0 .. Cap
    /\ dropped \in [Conn -> SUBSET (1 .. MaxRev)] /\ closed \subseteq Conn
    /\ watch \in [Conn -> Watches] /\ next \in [Conn -> 0 .. MaxRev + 1]
    /\ todo \in [Conn -> SUBSET Conn]
    /\ faults \in 0 .. MaxFaults /\ crashed \in BOOLEAN

(* The stream of the prefix is the only one that is not cancelled, however  *)
(* connections come and go: no watch outlives its stream, and no connection *)
(* is given a stream that was stopped (GetEventStream, RemoveOperator).     *)
OnlyCurrentIsAlive == Streams \ cancelled = {current} \ {None}

(* No stream has a channel that is closed: a send to it would panic         *)
(* (ListAndWatch closes a channel whose list failed).                       *)
ClosedIsUnregistered == \A c \in closed, s \in Conn : c \notin channels[s]

Sole(w) == \A v \in Conn \ {w} : stream[v] = stream[w] => watch[v] = "none"

(* What a watch has delivered, a connection of its stream has got from its  *)
(* list on.                                                                 *)
Covered(c, w) == listed[c] .. next[w] - 1 \subseteq Elements(sent[c]) \cup dropped[c]

(* The connection that started its stream's only watch misses no write      *)
(* after its list, but those its full buffer refused: the watch starts at   *)
(* the revision of the list (ListAndWatchWithRevision), and others that     *)
(* join and leave do not disturb it.                                        *)
StarterMissesNothing ==
    \A w \in Conn : watch[w] = "running" /\ Sole(w) /\ Registered(w) => Covered(w, w)

(* As long as a stream has one watch, each connection of the stream gets a   *)
(* write once at most after its list, and in the order of the store, even    *)
(* the one that is added while the watch ranges over the channels            *)
(* (AddChannel, HandleWatch); the one that started the watch gets none that  *)
(* is older than its list (ListAndWatchWithRevision).                       *)
OnceInOrder ==
    \A w, c \in Conn : watch[w] # "none" /\ Sole(w) /\ stream[c] = stream[w] =>
        /\ \A j, k \in 2 .. Len(sent[c]) : j < k => sent[c][j] < sent[c][k]
        /\ c = w => \A k \in 1 .. Len(sent[c]) : listed[c] <= sent[c][k]

(* A connection that is alone and stays hears of each write or of a later   *)
(* one, unless its buffer was full or etcd failed.                          *)
ServedHears ==
    \A c \in Conn, r \in 1 .. MaxRev :
        handler[c] = "serving" /\ rev >= r ~>
            \/ \E h \in Elements(sent[c]) : h >= r
            \/ r \in dropped[c]
            \/ handler[c] = "left" \/ faults > 0 \/ crashed

----------------------------------------------------------------------------
(* What comments and documents of the code say, and the code does not do.   *)

(* client_pipe/README_NEW.md:78: resource versions avoid the loss of events. *)
JoinerMissesNothing ==
    \A c, w \in Conn :
        watch[w] = "running" /\ stream[c] = stream[w] /\ Registered(c) => Covered(c, w)

(* server.go:44: watchStarted says whether the stream's watch is started.   *)
OneWatchPerStream == \A w \in Conn : watch[w] = "running" => Sole(w)

(* server.go:90: a stream is stopped when it has no more channels. *)
StoppedHasNoChannels == \A s \in cancelled : channels[s] = {}

(* server.go:92: a stream nobody uses is deleted. *)
UnusedIsDeleted ==
    (\A c \in Conn : handler[c] = "left" /\ join[c] = "done") => current = None

(* server.go:250: when the watch is closed, the channels are closed. *)
ClosedWatchClosesChannels ==
    \A c, w \in Conn :
        watch[w] \in {"ended", "blocked"} /\ stream[c] = stream[w] /\ Registered(c) ~>
            c \in closed \/ handler[c] = "left"
=============================================================================

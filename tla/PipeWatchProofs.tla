--------------------------- MODULE PipeWatchProofs ---------------------------
(***************************************************************************)
(* Proofs about PipeWatch, for any number of connections, any capacity of  *)
(* the event channels and any number of writes and failures.               *)
(***************************************************************************)
EXTENDS PipeWatch, TLAPS

ServerType ==
    /\ rev \in 1 .. MaxRev /\ current \in Conn \cup {None}
    /\ cancelled \subseteq Conn /\ watchStarted \subseteq Conn
    /\ revSince \in [Conn -> 0 .. MaxRev] /\ channels \in [Conn -> SUBSET Conn]
    /\ faults \in 0 .. MaxFaults /\ crashed \in BOOLEAN

JoinType ==
    /\ join \in [Conn -> Joins] /\ stream \in [Conn -> Conn \cup {None}]
    /\ listed \in [Conn -> 0 .. MaxRev] /\ handler \in [Conn -> Handlers]

ChannelType ==
    /\ sent \in [Conn -> Seq(1 .. MaxRev)] /\ read \in [Conn -> Nat]
    /\ \A c \in Conn : Len(sent[c]) - read[c] \in 0 .. Cap
    /\ dropped \in [Conn -> SUBSET (1 .. MaxRev)] /\ closed \subseteq Conn

WatchType ==
    /\ watch \in [Conn -> Watches] /\ next \in [Conn -> 0 .. MaxRev + 1]
    /\ todo \in [Conn -> SUBSET Conn]

TypeInv == ServerType /\ JoinType /\ ChannelType /\ WatchType

(* A connection gets its stream once; the maker of a stream gets that one;  *)
(* the streams that are not cancelled are the current one.                  *)
StreamOK ==
    /\ \A c \in Conn : handler[c] = "idle" <=> join[c] = "idle"
    /\ \A c \in Conn : stream[c] = None <=> join[c] \in {"idle", "get"}
    /\ \A c \in Conn : stream[c] # None => stream[stream[c]] = stream[c]
    /\ current # None => stream[current] = current /\ current \notin cancelled
    /\ \A s \in cancelled : stream[s] = s
    /\ \A s \in Conn : stream[s] = s /\ s \notin cancelled => current = s

(* A channel is with its own stream only, and only after the list went well. *)
ChannelOK ==
    /\ \A s, c \in Conn : c \in channels[s] => stream[c] = s /\ join[c] \in {"check", "start", "done"}
    /\ \A c \in closed : join[c] = "done" /\ \A s \in Conn : c \notin channels[s]

(* What a watch is to deliver is a revision of the store, the next at most. *)
WatchOK ==
    /\ \A c \in Conn : join[c] \in {"add", "check", "start"} => listed[c] \in 1 .. rev
    /\ \A w \in Conn : watch[w] # "none" =>
           join[w] = "done" /\ stream[w] # None /\ listed[w] \in 1 .. rev /\ revSince[stream[w]] \in 1 .. rev
    /\ \A w \in Conn : watch[w] \in {"running", "sending"} => next[w] \in 1 .. rev + 1
    /\ \A w \in Conn : watch[w] = "sending" => next[w] <= rev

Got(c, r) == r \in Elements(sent[c]) \cup dropped[c]

(* The sole watch of a stream starts at its starter's list; while it sends, *)
(* its starter is still to be visited or has been.                          *)
StarterAt(w) ==
    /\ watch[w] = "spawned" => revSince[stream[w]] = listed[w]
    /\ watch[w] \in {"running", "sending"} /\ Registered(w) =>
           \A q \in listed[w] .. next[w] - 1 : Got(w, q)
    /\ watch[w] = "sending" /\ Registered(w) => w \in todo[w] \/ Got(w, next[w])

StarterOK == \A w \in Conn : Sole(w) => StarterAt(w)

IInv == StreamOK /\ ChannelOK /\ WatchOK /\ StarterOK

Inv == TypeInv /\ IInv

----------------------------------------------------------------------------

USE ConnAssumption, BoundAssumption

(* An offer keeps the types: a full buffer grows no further. *)
LEMMA OfferType ==
    ASSUME ChannelType, NEW c \in Conn, NEW r \in 1 .. MaxRev, Offer(c, r)
    PROVE  ChannelType'
<1> DEFINE S == Seq(1 .. MaxRev)
<1>1. /\ sent \in [Conn -> S] /\ read \in [Conn -> Nat]
      /\ dropped \in [Conn -> SUBSET (1 .. MaxRev)] /\ closed \subseteq Conn
      /\ \A d \in Conn : Len(sent[d]) - read[d] \in 0 .. Cap
  BY DEF ChannelType
<1>2. read' = read /\ closed' = closed
  BY DEF Offer
<1>3. CASE Len(sent[c]) - read[c] < Cap
  <2>1. sent' = [sent EXCEPT ![c] = Append(sent[c], r)] /\ dropped' = dropped
    BY <1>3 DEF Offer
  <2>2. sent[c] \in S /\ read[c] \in Nat
    BY <1>1
  <2>3. Append(sent[c], r) \in S /\ Len(Append(sent[c], r)) = Len(sent[c]) + 1
        /\ Len(sent[c]) \in Nat
    BY <2>2
  <2>4. sent' \in [Conn -> S]
    BY <1>1, <2>1, <2>3 DEF S
  <2>5. \A d \in Conn : sent'[d] = IF d = c THEN Append(sent[c], r) ELSE sent[d]
    BY <1>1, <2>1
  <2>6. ASSUME NEW d \in Conn PROVE Len(sent'[d]) - read'[d] \in 0 .. Cap
    <3>1. CASE d = c
      <4>1. Len(sent'[d]) = Len(sent[c]) + 1 /\ read'[d] = read[c]
        BY <1>2, <2>3, <2>5, <3>1
      <4>2. Len(sent[c]) - read[c] \in 0 .. Cap
        BY <1>1
      <4> QED
        BY <1>3, <2>2, <2>3, <4>1, <4>2
    <3>2. CASE d # c
      BY <1>1, <1>2, <2>5, <3>2
    <3> QED
      BY <3>1, <3>2
  <2> QED
    BY <1>1, <1>2, <2>1, <2>4, <2>6 DEF ChannelType
<1>4. CASE ~(Len(sent[c]) - read[c] < Cap)
  <2>1. dropped' = [dropped EXCEPT ![c] = dropped[c] \cup {r}] /\ sent' = sent
    BY <1>4 DEF Offer
  <2>2. dropped' \in [Conn -> SUBSET (1 .. MaxRev)]
    BY <1>1, <2>1
  <2> QED
    BY <1>1, <1>2, <2>1, <2>2 DEF ChannelType
<1> QED
  BY <1>3, <1>4

(* A connection keeps what it got, and gets what is offered to it. *)
LEMMA OfferGrows ==
    ASSUME ChannelType, NEW c \in Conn, NEW r \in 1 .. MaxRev, Offer(c, r)
    PROVE  Got(c, r)' /\ \A d \in Conn : \A q : Got(d, q) => Got(d, q)'
<1>1. sent[c] \in Seq(1 .. MaxRev) /\ \A d \in Conn : sent[d] \in Seq(1 .. MaxRev)
  BY DEF ChannelType
<1>2. CASE Len(sent[c]) - read[c] < Cap
  <2>1. sent' = [sent EXCEPT ![c] = Append(sent[c], r)] /\ dropped' = dropped
    BY <1>2 DEF Offer
  <2>2. \A d \in Conn : sent'[d] = IF d = c THEN Append(sent[c], r) ELSE sent[d]
    BY <2>1 DEF ChannelType
  <2>3. /\ Len(Append(sent[c], r)) = Len(sent[c]) + 1 /\ Len(sent[c]) \in Nat
        /\ Append(sent[c], r)[Len(sent[c]) + 1] = r
        /\ \A k \in 1 .. Len(sent[c]) : Append(sent[c], r)[k] = sent[c][k]
    BY <1>1
  <2>4. r \in Elements(sent'[c])
    <3>1. sent'[c] = Append(sent[c], r)
      BY <2>2
    <3>2. Len(sent[c]) + 1 \in 1 .. Len(sent'[c]) /\ sent'[c][Len(sent[c]) + 1] = r
      BY <2>3, <3>1
    <3> QED
      BY <3>2 DEF Elements
  <2>5. Elements(sent[c]) \subseteq Elements(sent'[c])
    <3> SUFFICES ASSUME NEW k \in 1 .. Len(sent[c]) PROVE sent[c][k] \in Elements(sent'[c])
      BY DEF Elements
    <3>1. sent'[c] = Append(sent[c], r)
      BY <2>2
    <3>2. k \in 1 .. Len(sent'[c]) /\ sent'[c][k] = sent[c][k]
      BY <2>3, <3>1
    <3> QED
      BY <3>2 DEF Elements
  <2> QED
    BY <2>1, <2>2, <2>4, <2>5 DEF Got
<1>3. CASE ~(Len(sent[c]) - read[c] < Cap)
  <2>1. dropped' = [dropped EXCEPT ![c] = dropped[c] \cup {r}] /\ sent' = sent
    BY <1>3 DEF Offer
  <2>2. \A d \in Conn : dropped'[d] = IF d = c THEN dropped[c] \cup {r} ELSE dropped[d]
    BY <2>1 DEF ChannelType
  <2> QED
    BY <2>1, <2>2 DEF Got
<1> QED
  BY <1>2, <1>3

(* Without a new stream and a watch that is gone, a sole watch was one.     *)
LEMMA SoleBefore ==
    ASSUME UNCHANGED stream, \A v \in Conn : watch'[v] = "none" => watch[v] = "none",
           NEW w \in Conn, Sole(w)'
    PROVE  Sole(w)
  BY DEF Sole

(* The invariant holds initially. *)
LEMMA InitInv == Init => Inv
<1> SUFFICES ASSUME Init PROVE Inv
  OBVIOUS
<1>1. ServerType
  <2>1. crashed \in BOOLEAN
    BY DEF Init
  <2>2. rev \in 1 .. MaxRev /\ faults \in 0 .. MaxFaults /\ revSince \in [Conn -> 0 .. MaxRev]
    BY DEF Init
  <2> QED
    BY <2>1, <2>2 DEF Init, ServerType
<1>2. JoinType
  BY DEF Init, JoinType, Joins, Handlers
<1>3. ChannelType
  BY DEF Init, ChannelType
<1>4. WatchType
  BY DEF Init, WatchType, Watches
<1>5. StreamOK /\ ChannelOK /\ WatchOK
  BY DEF Init, StreamOK, ChannelOK, WatchOK
<1>6. StarterOK
  BY DEF Init, StarterOK, StarterAt
<1> QED
  BY <1>1, <1>2, <1>3, <1>4, <1>5, <1>6 DEF Inv, IInv, TypeInv

(* What a leaver does to the stream of the prefix, the channels and the     *)
(* watches that range over them.                                            *)
LEMMA LeaveStep ==
    ASSUME TypeInv, NEW c \in Conn, Leave(c)
    PROVE  /\ channels' \in [Conn -> SUBSET Conn] /\ \A s \in Conn : channels'[s] \subseteq channels[s]
           /\ todo' \in [Conn -> SUBSET Conn]
           /\ \A w \in Conn : todo'[w] \subseteq todo[w]
           /\ \A w, d \in Conn : d \in todo[w] \ todo'[w] => d \notin channels'[stream[w]]
           /\ \/ current' = current /\ cancelled' = cancelled
              \/ current \in Conn /\ current' = None /\ cancelled' = cancelled \cup {current}
           /\ crashed' \in BOOLEAN
<1> USE DEF TypeInv, ServerType, JoinType, WatchType
<1>1. CASE current = None
  BY <1>1 DEF Leave, RemoveOperator
<1>2. CASE current # None
  <2>1. current \in Conn
    BY <1>2
  <2>2. channels' = [channels EXCEPT ![current] = @ \ {c}]
    BY <1>2 DEF Leave, RemoveOperator
  <2>3. todo' = [w \in Conn |-> IF w \in Ranging(current) THEN todo[w] \ {c} ELSE todo[w]]
    BY <1>2 DEF Leave, RemoveOperator
  <2>4. crashed' \in BOOLEAN
    BY <1>2 DEF Leave, RemoveOperator, MayCrash
  <2>5. \/ current' = current /\ cancelled' = cancelled
        \/ current' = None /\ cancelled' = cancelled \cup {current}
    BY <1>2 DEF Leave, RemoveOperator, StopStream
  <2>6. channels' \in [Conn -> SUBSET Conn] /\ \A s \in Conn : channels'[s] \subseteq channels[s]
    BY <2>1, <2>2
  <2>7. todo' \in [Conn -> SUBSET Conn] /\ \A w \in Conn : todo'[w] \subseteq todo[w]
    BY <2>3
  <2>8. ASSUME NEW w \in Conn, NEW d \in Conn, d \in todo[w] \ todo'[w] PROVE d \notin channels'[stream[w]]
    BY <2>1, <2>2, <2>3, <2>8 DEF Ranging
  <2> QED
    BY <2>1, <2>4, <2>5, <2>6, <2>7, <2>8
<1> QED
  BY <1>1, <1>2

(* What AddChannel does to the stream and its channel. *)
LEMMA AddChannelStep ==
    ASSUME NEW c \in Conn, AddChannel(c)
    PROVE  /\ closed' = closed /\ stream' = stream /\ join[c] = "add"
           /\ join' = [join EXCEPT ![c] = "check"]
           /\ channels' = [channels EXCEPT ![stream[c]] = channels[stream[c]] \cup {c}]
  BY DEF AddChannel, GoTo, channelVars

(* Each step keeps the types of the streams and of etcd. *)
LEMMA ServerStep == Inv /\ [Next]_vars => ServerType'
<1> SUFFICES ASSUME Inv, [Next]_vars PROVE ServerType'
  OBVIOUS
<1> USE DEF Inv, IInv, TypeInv, ServerType, JoinType
<1>1. CASE Put
  BY <1>1 DEF Put, streamVars, joinVars, channelVars, watchVars
<1>2. ASSUME NEW c \in Conn, Connect(c) PROVE ServerType'
  BY <1>2 DEF Connect, StartJoin, GoTo, streamVars, joinVars, channelVars, watchVars
<1>3. ASSUME NEW c \in Conn, Read(c) PROVE ServerType'
  BY <1>3 DEF Read, streamVars, joinVars, channelVars, watchVars
<1>4. ASSUME NEW c \in Conn, Leave(c) PROVE ServerType'
  <2>1. handler' = [handler EXCEPT ![c] = "left"] /\ handler[c] = "serving"
        /\ UNCHANGED <<rev, watchStarted, revSince, join, stream, listed, sent, read, dropped, closed,
                        watch, next, faults>>
    BY <1>4 DEF Leave, joinVars, channelVars
  <2> QED
    BY <2>1, <1>4, LeaveStep
<1>5. ASSUME NEW c \in Conn, GetEventStream(c) PROVE ServerType'
  BY <1>5 DEF GetEventStream, GoTo, streamVars, joinVars, channelVars, watchVars
<1>6. ASSUME NEW c \in Conn, List(c) PROVE ServerType'
  BY <1>6 DEF List, Offer, GoTo, streamVars, joinVars, channelVars, watchVars
<1>7. ASSUME NEW c \in Conn, ListFails(c) PROVE ServerType'
  BY <1>7 DEF ListFails, CloseChannel, GoTo, streamVars, joinVars, channelVars, watchVars
<1>8. ASSUME NEW c \in Conn, AddChannel(c) PROVE ServerType'
  BY <1>8 DEF AddChannel, GoTo, MayCrash, streamVars, joinVars, channelVars, watchVars
<1>9. ASSUME NEW c \in Conn, CheckStarted(c) PROVE ServerType'
  BY <1>9 DEF CheckStarted, GoTo, streamVars, joinVars, channelVars, watchVars
<1>10. ASSUME NEW c \in Conn, StartWatch(c) PROVE ServerType'
  <2>1. stream[c] \in Conn /\ listed[c] \in 0 .. MaxRev
    BY <1>10 DEF StartWatch, StreamOK
  <2> QED
    BY <2>1, <1>10 DEF StartWatch
<1>11. ASSUME NEW c \in Conn, OpenWatch(c) PROVE ServerType'
  BY <1>11 DEF OpenWatch, FirstRevision, streamVars, joinVars, channelVars, watchVars
<1>12. ASSUME NEW c \in Conn, Deliver(c) PROVE ServerType'
  BY <1>12 DEF Deliver, streamVars, joinVars, channelVars, watchVars
<1>13. ASSUME NEW c \in Conn, NEW d \in Conn, Send(c, d) PROVE ServerType'
  BY <1>13 DEF Send, Offer, streamVars, joinVars, channelVars, watchVars
<1>14. ASSUME NEW c \in Conn, SentToAll(c) PROVE ServerType'
  BY <1>14 DEF SentToAll, streamVars, joinVars, channelVars, watchVars
<1>15. ASSUME NEW c \in Conn, WatchStops(c) PROVE ServerType'
  BY <1>15 DEF WatchStops, EndWatch, AfterWatch, streamVars, joinVars, channelVars, watchVars
<1>16. ASSUME NEW c \in Conn, WatchCancelled(c) PROVE ServerType'
  BY <1>16 DEF WatchCancelled, EndWatch, AfterWatch, streamVars, joinVars, channelVars, watchVars
<1>17. CASE UNCHANGED vars
  BY <1>17 DEF vars, streamVars, joinVars, channelVars, watchVars
<1> QED
  BY <1>1, <1>2, <1>3, <1>4, <1>5, <1>6, <1>7, <1>8, <1>9, <1>10, <1>11, <1>12, <1>13,
     <1>14, <1>15, <1>16, <1>17
  DEF Next, Join, Watch, Ended

(* Each step keeps the types of the joining goroutines and handlers. *)
LEMMA JoinStep == Inv /\ [Next]_vars => JoinType'
<1> SUFFICES ASSUME Inv, [Next]_vars PROVE JoinType'
  OBVIOUS
<1> USE DEF Inv, IInv, TypeInv, JoinType, ServerType, Joins, Handlers
<1>1. CASE Put
  BY <1>1 DEF Put, streamVars, joinVars, channelVars, watchVars
<1>2. ASSUME NEW c \in Conn, Connect(c) PROVE JoinType'
  BY <1>2 DEF Connect, StartJoin, GoTo, streamVars, joinVars, channelVars, watchVars
<1>3. ASSUME NEW c \in Conn, Read(c) PROVE JoinType'
  BY <1>3 DEF Read, streamVars, joinVars, channelVars, watchVars
<1>4. ASSUME NEW c \in Conn, Leave(c) PROVE JoinType'
  BY <1>4 DEF Leave, RemoveOperator, StopStream, MayCrash, streamVars, joinVars, channelVars, watchVars
<1>5. ASSUME NEW c \in Conn, GetEventStream(c) PROVE JoinType'
  BY <1>5 DEF GetEventStream, GoTo, streamVars, joinVars, channelVars, watchVars
<1>6. ASSUME NEW c \in Conn, List(c) PROVE JoinType'
  BY <1>6 DEF List, Offer, GoTo, streamVars, joinVars, channelVars, watchVars
<1>7. ASSUME NEW c \in Conn, ListFails(c) PROVE JoinType'
  BY <1>7 DEF ListFails, CloseChannel, GoTo, streamVars, joinVars, channelVars, watchVars
<1>8. ASSUME NEW c \in Conn, AddChannel(c) PROVE JoinType'
  BY <1>8 DEF AddChannel, GoTo, MayCrash, streamVars, joinVars, channelVars, watchVars
<1>9. ASSUME NEW c \in Conn, CheckStarted(c) PROVE JoinType'
  BY <1>9 DEF CheckStarted, GoTo, streamVars, joinVars, channelVars, watchVars
<1>10. ASSUME NEW c \in Conn, StartWatch(c) PROVE JoinType'
  BY <1>10 DEF StartWatch, GoTo, streamVars, joinVars, channelVars, watchVars
<1>11. ASSUME NEW c \in Conn, OpenWatch(c) PROVE JoinType'
  BY <1>11 DEF OpenWatch, FirstRevision, streamVars, joinVars, channelVars, watchVars
<1>12. ASSUME NEW c \in Conn, Deliver(c) PROVE JoinType'
  BY <1>12 DEF Deliver, streamVars, joinVars, channelVars, watchVars
<1>13. ASSUME NEW c \in Conn, NEW d \in Conn, Send(c, d) PROVE JoinType'
  BY <1>13 DEF Send, Offer, streamVars, joinVars, channelVars, watchVars
<1>14. ASSUME NEW c \in Conn, SentToAll(c) PROVE JoinType'
  BY <1>14 DEF SentToAll, streamVars, joinVars, channelVars, watchVars
<1>15. ASSUME NEW c \in Conn, WatchStops(c) PROVE JoinType'
  BY <1>15 DEF WatchStops, EndWatch, AfterWatch, streamVars, joinVars, channelVars, watchVars
<1>16. ASSUME NEW c \in Conn, WatchCancelled(c) PROVE JoinType'
  BY <1>16 DEF WatchCancelled, EndWatch, AfterWatch, streamVars, joinVars, channelVars, watchVars
<1>17. CASE UNCHANGED vars
  BY <1>17 DEF vars, streamVars, joinVars, channelVars, watchVars
<1> QED
  BY <1>1, <1>2, <1>3, <1>4, <1>5, <1>6, <1>7, <1>8, <1>9, <1>10, <1>11, <1>12, <1>13,
     <1>14, <1>15, <1>16, <1>17
  DEF Next, Join, Watch, Ended

(* Each step keeps the types and the capacity of the event channels. *)
LEMMA ChannelTypeStep == Inv /\ [Next]_vars => ChannelType'
<1> SUFFICES ASSUME Inv, [Next]_vars PROVE ChannelType'
  OBVIOUS
<1> USE DEF Inv, IInv, TypeInv, ChannelType
<1>1. CASE Put
  BY <1>1 DEF Put, streamVars, joinVars, channelVars, watchVars
<1>2. ASSUME NEW c \in Conn, Connect(c) PROVE ChannelType'
  BY <1>2 DEF Connect, StartJoin, GoTo, streamVars, joinVars, channelVars, watchVars
<1>3. ASSUME NEW c \in Conn, Read(c) PROVE ChannelType'
  BY <1>3 DEF Read, streamVars, joinVars, channelVars, watchVars
<1>4. ASSUME NEW c \in Conn, Leave(c) PROVE ChannelType'
  BY <1>4 DEF Leave, RemoveOperator, StopStream, MayCrash, streamVars, joinVars, channelVars, watchVars
<1>5. ASSUME NEW c \in Conn, GetEventStream(c) PROVE ChannelType'
  BY <1>5 DEF GetEventStream, GoTo, streamVars, joinVars, channelVars, watchVars
<1>6. ASSUME NEW c \in Conn, List(c) PROVE ChannelType'
  <2>1. rev \in 1 .. MaxRev /\ Offer(c, rev)
    BY <1>6 DEF List, ServerType
  <2> QED
    BY <2>1, OfferType
<1>7. ASSUME NEW c \in Conn, ListFails(c) PROVE ChannelType'
  BY <1>7 DEF ListFails, CloseChannel, GoTo, streamVars, joinVars, channelVars, watchVars
<1>8. ASSUME NEW c \in Conn, AddChannel(c) PROVE ChannelType'
  BY <1>8 DEF AddChannel, GoTo, MayCrash, streamVars, joinVars, channelVars, watchVars
<1>9. ASSUME NEW c \in Conn, CheckStarted(c) PROVE ChannelType'
  BY <1>9 DEF CheckStarted, GoTo, streamVars, joinVars, channelVars, watchVars
<1>10. ASSUME NEW c \in Conn, StartWatch(c) PROVE ChannelType'
  BY <1>10 DEF StartWatch, GoTo, streamVars, joinVars, channelVars, watchVars
<1>11. ASSUME NEW c \in Conn, OpenWatch(c) PROVE ChannelType'
  BY <1>11 DEF OpenWatch, FirstRevision, streamVars, joinVars, channelVars, watchVars
<1>12. ASSUME NEW c \in Conn, Deliver(c) PROVE ChannelType'
  BY <1>12 DEF Deliver, streamVars, joinVars, channelVars, watchVars
<1>13. ASSUME NEW c \in Conn, NEW d \in Conn, Send(c, d) PROVE ChannelType'
  <2>1. next[c] \in 1 .. MaxRev /\ Offer(d, next[c])
    BY <1>13 DEF Send, ServerType, WatchType, WatchOK
  <2> QED
    BY <2>1, OfferType
<1>14. ASSUME NEW c \in Conn, SentToAll(c) PROVE ChannelType'
  BY <1>14 DEF SentToAll, streamVars, joinVars, channelVars, watchVars
<1>15. ASSUME NEW c \in Conn, WatchStops(c) PROVE ChannelType'
  BY <1>15 DEF WatchStops, EndWatch, AfterWatch, streamVars, joinVars, channelVars, watchVars
<1>16. ASSUME NEW c \in Conn, WatchCancelled(c) PROVE ChannelType'
  BY <1>16 DEF WatchCancelled, EndWatch, AfterWatch, streamVars, joinVars, channelVars, watchVars
<1>17. CASE UNCHANGED vars
  BY <1>17 DEF vars, streamVars, joinVars, channelVars, watchVars
<1> QED
  BY <1>1, <1>2, <1>3, <1>4, <1>5, <1>6, <1>7, <1>8, <1>9, <1>10, <1>11, <1>12, <1>13,
     <1>14, <1>15, <1>16, <1>17
  DEF Next, Join, Watch, Ended

(* Each step keeps the types of the watches. *)
LEMMA WatchTypeStep == Inv /\ [Next]_vars => WatchType'
<1> SUFFICES ASSUME Inv, [Next]_vars PROVE WatchType'
  OBVIOUS
<1> USE DEF Inv, IInv, TypeInv, WatchType, Watches, ServerType, JoinType, WatchOK
<1>1. CASE Put
  BY <1>1 DEF Put, streamVars, joinVars, channelVars, watchVars
<1>2. ASSUME NEW c \in Conn, Connect(c) PROVE WatchType'
  BY <1>2 DEF Connect, StartJoin, GoTo, streamVars, joinVars, channelVars, watchVars
<1>3. ASSUME NEW c \in Conn, Read(c) PROVE WatchType'
  BY <1>3 DEF Read, streamVars, joinVars, channelVars, watchVars
<1>4. ASSUME NEW c \in Conn, Leave(c) PROVE WatchType'
  <2>1. handler' = [handler EXCEPT ![c] = "left"] /\ handler[c] = "serving"
        /\ UNCHANGED <<rev, watchStarted, revSince, join, stream, listed, sent, read, dropped, closed,
                        watch, next, faults>>
    BY <1>4 DEF Leave, joinVars, channelVars
  <2> QED
    BY <2>1, <1>4, LeaveStep
<1>5. ASSUME NEW c \in Conn, GetEventStream(c) PROVE WatchType'
  BY <1>5 DEF GetEventStream, GoTo, streamVars, joinVars, channelVars, watchVars
<1>6. ASSUME NEW c \in Conn, List(c) PROVE WatchType'
  BY <1>6 DEF List, Offer, GoTo, streamVars, joinVars, channelVars, watchVars
<1>7. ASSUME NEW c \in Conn, ListFails(c) PROVE WatchType'
  BY <1>7 DEF ListFails, CloseChannel, GoTo, streamVars, joinVars, channelVars, watchVars
<1>8. ASSUME NEW c \in Conn, AddChannel(c) PROVE WatchType'
  BY <1>8 DEF AddChannel, GoTo, MayCrash, streamVars, joinVars, channelVars, watchVars
<1>9. ASSUME NEW c \in Conn, CheckStarted(c) PROVE WatchType'
  BY <1>9 DEF CheckStarted, GoTo, streamVars, joinVars, channelVars, watchVars
<1>10. ASSUME NEW c \in Conn, StartWatch(c) PROVE WatchType'
  BY <1>10 DEF StartWatch, GoTo, streamVars, joinVars, channelVars, watchVars
<1>11. ASSUME NEW c \in Conn, OpenWatch(c) PROVE WatchType'
  BY <1>11 DEF OpenWatch, FirstRevision, streamVars, joinVars, channelVars, watchVars
<1>12. ASSUME NEW c \in Conn, Deliver(c) PROVE WatchType'
  BY <1>12 DEF Deliver, streamVars, joinVars, channelVars, watchVars
<1>13. ASSUME NEW c \in Conn, NEW d \in Conn, Send(c, d) PROVE WatchType'
  BY <1>13 DEF Send, Offer, streamVars, joinVars, channelVars, watchVars
<1>14. ASSUME NEW c \in Conn, SentToAll(c) PROVE WatchType'
  BY <1>14 DEF SentToAll, streamVars, joinVars, channelVars, watchVars
<1>15. ASSUME NEW c \in Conn, WatchStops(c) PROVE WatchType'
  BY <1>15 DEF WatchStops, EndWatch, AfterWatch, streamVars, joinVars, channelVars, watchVars
<1>16. ASSUME NEW c \in Conn, WatchCancelled(c) PROVE WatchType'
  BY <1>16 DEF WatchCancelled, EndWatch, AfterWatch, streamVars, joinVars, channelVars, watchVars
<1>17. CASE UNCHANGED vars
  BY <1>17 DEF vars, streamVars, joinVars, channelVars, watchVars
<1> QED
  BY <1>1, <1>2, <1>3, <1>4, <1>5, <1>6, <1>7, <1>8, <1>9, <1>10, <1>11, <1>12, <1>13,
     <1>14, <1>15, <1>16, <1>17
  DEF Next, Join, Watch, Ended

(* No step leaves two streams alive, or a connection without its own. *)
LEMMA StreamStep == Inv /\ [Next]_vars => StreamOK'
<1> SUFFICES ASSUME Inv, [Next]_vars PROVE StreamOK'
  OBVIOUS
<1> USE DEF Inv, IInv, TypeInv, StreamOK, ServerType, JoinType, Joins
<1>1. CASE Put
  BY <1>1 DEF Put, streamVars, joinVars, channelVars, watchVars
<1>2. ASSUME NEW c \in Conn, Connect(c) PROVE StreamOK'
  BY <1>2 DEF Connect, StartJoin, GoTo, streamVars, joinVars, channelVars, watchVars
<1>3. ASSUME NEW c \in Conn, Read(c) PROVE StreamOK'
  BY <1>3 DEF Read, streamVars, joinVars, channelVars, watchVars
<1>4. ASSUME NEW c \in Conn, Leave(c) PROVE StreamOK'
  <2>1. handler' = [handler EXCEPT ![c] = "left"] /\ handler[c] = "serving"
        /\ UNCHANGED <<rev, watchStarted, revSince, join, stream, listed, sent, read, dropped, closed,
                        watch, next, faults>>
    BY <1>4 DEF Leave, joinVars, channelVars
  <2> QED
    BY <2>1, <1>4, LeaveStep
<1>5. ASSUME NEW c \in Conn, GetEventStream(c) PROVE StreamOK'
  BY <1>5 DEF GetEventStream, GoTo, streamVars, joinVars, channelVars, watchVars
<1>6. ASSUME NEW c \in Conn, List(c) PROVE StreamOK'
  BY <1>6 DEF List, Offer, GoTo, streamVars, joinVars, channelVars, watchVars
<1>7. ASSUME NEW c \in Conn, ListFails(c) PROVE StreamOK'
  BY <1>7 DEF ListFails, CloseChannel, GoTo, streamVars, joinVars, channelVars, watchVars
<1>8. ASSUME NEW c \in Conn, AddChannel(c) PROVE StreamOK'
  BY <1>8 DEF AddChannel, GoTo, MayCrash, streamVars, joinVars, channelVars, watchVars
<1>9. ASSUME NEW c \in Conn, CheckStarted(c) PROVE StreamOK'
  BY <1>9 DEF CheckStarted, GoTo, streamVars, joinVars, channelVars, watchVars
<1>10. ASSUME NEW c \in Conn, StartWatch(c) PROVE StreamOK'
  BY <1>10 DEF StartWatch, GoTo, streamVars, joinVars, channelVars, watchVars
<1>11. ASSUME NEW c \in Conn, OpenWatch(c) PROVE StreamOK'
  BY <1>11 DEF OpenWatch, FirstRevision, streamVars, joinVars, channelVars, watchVars
<1>12. ASSUME NEW c \in Conn, Deliver(c) PROVE StreamOK'
  BY <1>12 DEF Deliver, streamVars, joinVars, channelVars, watchVars
<1>13. ASSUME NEW c \in Conn, NEW d \in Conn, Send(c, d) PROVE StreamOK'
  BY <1>13 DEF Send, Offer, streamVars, joinVars, channelVars, watchVars
<1>14. ASSUME NEW c \in Conn, SentToAll(c) PROVE StreamOK'
  BY <1>14 DEF SentToAll, streamVars, joinVars, channelVars, watchVars
<1>15. ASSUME NEW c \in Conn, WatchStops(c) PROVE StreamOK'
  BY <1>15 DEF WatchStops, EndWatch, AfterWatch, streamVars, joinVars, channelVars, watchVars
<1>16. ASSUME NEW c \in Conn, WatchCancelled(c) PROVE StreamOK'
  BY <1>16 DEF WatchCancelled, EndWatch, AfterWatch, streamVars, joinVars, channelVars, watchVars
<1>17. CASE UNCHANGED vars
  BY <1>17 DEF vars, streamVars, joinVars, channelVars, watchVars
<1> QED
  BY <1>1, <1>2, <1>3, <1>4, <1>5, <1>6, <1>7, <1>8, <1>9, <1>10, <1>11, <1>12, <1>13,
     <1>14, <1>15, <1>16, <1>17
  DEF Next, Join, Watch, Ended

(* No step registers a channel with a foreign stream, or a closed one. *)
LEMMA ChannelStep == Inv /\ [Next]_vars => ChannelOK'
<1> SUFFICES ASSUME Inv, [Next]_vars PROVE ChannelOK'
  OBVIOUS
<1> USE DEF Inv, IInv, TypeInv, ChannelOK, StreamOK, ServerType, ChannelType, JoinType
<1>1. CASE Put
  BY <1>1 DEF Put, streamVars, joinVars, channelVars, watchVars
<1>2. ASSUME NEW c \in Conn, Connect(c) PROVE ChannelOK'
  BY <1>2 DEF Connect, StartJoin, GoTo, streamVars, joinVars, channelVars, watchVars
<1>3. ASSUME NEW c \in Conn, Read(c) PROVE ChannelOK'
  BY <1>3 DEF Read, streamVars, joinVars, channelVars, watchVars
<1>4. ASSUME NEW c \in Conn, Leave(c) PROVE ChannelOK'
  <2>1. handler' = [handler EXCEPT ![c] = "left"] /\ handler[c] = "serving"
        /\ UNCHANGED <<rev, watchStarted, revSince, join, stream, listed, sent, read, dropped, closed,
                        watch, next, faults>>
    BY <1>4 DEF Leave, joinVars, channelVars
  <2> QED
    BY <2>1, <1>4, LeaveStep
<1>5. ASSUME NEW c \in Conn, GetEventStream(c) PROVE ChannelOK'
  BY <1>5 DEF GetEventStream, GoTo, streamVars, joinVars, channelVars, watchVars
<1>6. ASSUME NEW c \in Conn, List(c) PROVE ChannelOK'
  <2>1. closed' = closed /\ channels' = channels /\ stream' = stream /\ join[c] = "list"
        /\ join' = [join EXCEPT ![c] = "add"]
    BY <1>6 DEF List, Offer, GoTo, streamVars
  <2> QED
    BY <2>1
<1>7. ASSUME NEW c \in Conn, ListFails(c) PROVE ChannelOK'
  <2>1. closed' = closed \cup {c} /\ channels' = channels /\ stream' = stream /\ join[c] = "list"
        /\ join' = [join EXCEPT ![c] = "done"]
    BY <1>7 DEF ListFails, CloseChannel, GoTo, streamVars
  <2>2. \A s \in Conn : c \notin channels[s]
    BY <2>1
  <2> QED
    BY <2>1, <2>2
<1>8. ASSUME NEW c \in Conn, AddChannel(c) PROVE ChannelOK'
  <2>1. closed' = closed /\ stream' = stream /\ join[c] = "add"
        /\ join' = [join EXCEPT ![c] = "check"]
        /\ channels' = [channels EXCEPT ![stream[c]] = channels[stream[c]] \cup {c}]
    BY <1>8, AddChannelStep
  <2>2. stream[c] \in Conn /\ c \notin closed
    <3>1. join[c] \notin {"idle", "get", "done"}
      BY <2>1
    <3>2. stream[c] # None /\ stream[c] \in Conn \cup {None}
      BY <3>1
    <3> QED
      BY <3>1, <3>2
  <2>3. \A s, d \in Conn : d \in channels'[s] => d \in channels[s] \/ (d = c /\ s = stream[c])
    BY <2>1, <2>2
  <2>4. \A d \in Conn : join'[d] = IF d = c THEN "check" ELSE join[d]
    BY <2>1
  <2>5. ASSUME NEW s \in Conn, NEW d \in Conn, d \in channels'[s]
        PROVE  stream'[d] = s /\ join'[d] \in {"check", "start", "done"}
    <3>1. CASE d \in channels[s]
      BY <2>1, <2>4, <3>1
    <3>2. CASE d = c /\ s = stream[c]
      BY <2>1, <2>4, <3>2
    <3> QED
      BY <2>3, <2>5, <3>1, <3>2
  <2>6. ASSUME NEW d \in closed' PROVE join'[d] = "done" /\ \A s \in Conn : d \notin channels'[s]
    <3>1. d \in closed /\ d # c
      BY <2>1, <2>2, <2>6
    <3>2. d \in Conn /\ join[d] = "done" /\ \A s \in Conn : d \notin channels[s]
      BY <3>1
    <3>3. join'[d] = "done"
      BY <2>4, <3>1, <3>2
    <3> QED
      BY <2>3, <3>1, <3>2, <3>3
  <2> QED
    BY <2>5, <2>6
<1>9. ASSUME NEW c \in Conn, CheckStarted(c) PROVE ChannelOK'
  BY <1>9 DEF CheckStarted, GoTo, streamVars, joinVars, channelVars, watchVars
<1>10. ASSUME NEW c \in Conn, StartWatch(c) PROVE ChannelOK'
  BY <1>10 DEF StartWatch, GoTo, streamVars, joinVars, channelVars, watchVars
<1>11. ASSUME NEW c \in Conn, OpenWatch(c) PROVE ChannelOK'
  BY <1>11 DEF OpenWatch, FirstRevision, streamVars, joinVars, channelVars, watchVars
<1>12. ASSUME NEW c \in Conn, Deliver(c) PROVE ChannelOK'
  BY <1>12 DEF Deliver, streamVars, joinVars, channelVars, watchVars
<1>13. ASSUME NEW c \in Conn, NEW d \in Conn, Send(c, d) PROVE ChannelOK'
  BY <1>13 DEF Send, Offer, streamVars, joinVars, channelVars, watchVars
<1>14. ASSUME NEW c \in Conn, SentToAll(c) PROVE ChannelOK'
  BY <1>14 DEF SentToAll, streamVars, joinVars, channelVars, watchVars
<1>15. ASSUME NEW c \in Conn, WatchStops(c) PROVE ChannelOK'
  BY <1>15 DEF WatchStops, EndWatch, AfterWatch, streamVars, joinVars, channelVars, watchVars
<1>16. ASSUME NEW c \in Conn, WatchCancelled(c) PROVE ChannelOK'
  BY <1>16 DEF WatchCancelled, EndWatch, AfterWatch, streamVars, joinVars, channelVars, watchVars
<1>17. CASE UNCHANGED vars
  BY <1>17 DEF vars, streamVars, joinVars, channelVars, watchVars
<1> QED
  BY <1>1, <1>2, <1>3, <1>4, <1>5, <1>6, <1>7, <1>8, <1>9, <1>10, <1>11, <1>12, <1>13,
     <1>14, <1>15, <1>16, <1>17
  DEF Next, Join, Watch, Ended

(* No step moves a watch or a list beyond the store. *)
LEMMA WatchStep == Inv /\ [Next]_vars => WatchOK'
<1> SUFFICES ASSUME Inv, [Next]_vars PROVE WatchOK'
  OBVIOUS
<1> USE DEF Inv, IInv, TypeInv, WatchOK, StreamOK, ServerType, JoinType, WatchType
<1>1. CASE Put
  BY <1>1 DEF Put, streamVars, joinVars, channelVars, watchVars
<1>2. ASSUME NEW c \in Conn, Connect(c) PROVE WatchOK'
  BY <1>2 DEF Connect, StartJoin, GoTo, streamVars, joinVars, channelVars, watchVars
<1>3. ASSUME NEW c \in Conn, Read(c) PROVE WatchOK'
  BY <1>3 DEF Read, streamVars, joinVars, channelVars, watchVars
<1>4. ASSUME NEW c \in Conn, Leave(c) PROVE WatchOK'
  BY <1>4 DEF Leave, RemoveOperator, StopStream, MayCrash, streamVars, joinVars, channelVars, watchVars
<1>5. ASSUME NEW c \in Conn, GetEventStream(c) PROVE WatchOK'
  BY <1>5 DEF GetEventStream, GoTo, streamVars, joinVars, channelVars, watchVars
<1>6. ASSUME NEW c \in Conn, List(c) PROVE WatchOK'
  BY <1>6 DEF List, Offer, GoTo, streamVars, joinVars, channelVars, watchVars
<1>7. ASSUME NEW c \in Conn, ListFails(c) PROVE WatchOK'
  BY <1>7 DEF ListFails, CloseChannel, GoTo, streamVars, joinVars, channelVars, watchVars
<1>8. ASSUME NEW c \in Conn, AddChannel(c) PROVE WatchOK'
  BY <1>8 DEF AddChannel, GoTo, MayCrash, streamVars, joinVars, channelVars, watchVars
<1>9. ASSUME NEW c \in Conn, CheckStarted(c) PROVE WatchOK'
  BY <1>9 DEF CheckStarted, GoTo, streamVars, joinVars, channelVars, watchVars
<1>10. ASSUME NEW c \in Conn, StartWatch(c) PROVE WatchOK'
  BY <1>10 DEF StartWatch, GoTo, streamVars, joinVars, channelVars, watchVars
<1>11. ASSUME NEW c \in Conn, OpenWatch(c) PROVE WatchOK'
  BY <1>11 DEF OpenWatch, FirstRevision, streamVars, joinVars, channelVars, watchVars
<1>12. ASSUME NEW c \in Conn, Deliver(c) PROVE WatchOK'
  BY <1>12 DEF Deliver, streamVars, joinVars, channelVars, watchVars
<1>13. ASSUME NEW c \in Conn, NEW d \in Conn, Send(c, d) PROVE WatchOK'
  BY <1>13 DEF Send, Offer, streamVars, joinVars, channelVars, watchVars
<1>14. ASSUME NEW c \in Conn, SentToAll(c) PROVE WatchOK'
  BY <1>14 DEF SentToAll, streamVars, joinVars, channelVars, watchVars
<1>15. ASSUME NEW c \in Conn, WatchStops(c) PROVE WatchOK'
  BY <1>15 DEF WatchStops, EndWatch, AfterWatch, streamVars, joinVars, channelVars, watchVars
<1>16. ASSUME NEW c \in Conn, WatchCancelled(c) PROVE WatchOK'
  BY <1>16 DEF WatchCancelled, EndWatch, AfterWatch, streamVars, joinVars, channelVars, watchVars
<1>17. CASE UNCHANGED vars
  BY <1>17 DEF vars, streamVars, joinVars, channelVars, watchVars
<1> QED
  BY <1>1, <1>2, <1>3, <1>4, <1>5, <1>6, <1>7, <1>8, <1>9, <1>10, <1>11, <1>12, <1>13,
     <1>14, <1>15, <1>16, <1>17
  DEF Next, Join, Watch, Ended

(* No step makes the starter of a sole watch miss a revision. *)
LEMMA StarterStep == Inv /\ TypeInv' /\ [Next]_vars => StarterOK'
<1> SUFFICES ASSUME Inv, TypeInv', [Next]_vars, NEW w \in Conn, Sole(w)' PROVE StarterAt(w)'
  BY DEF Inv, StarterOK
<1> USE DEF Inv, IInv, TypeInv
<1>0. Sole(w) => StarterAt(w)
  BY DEF StarterOK
<1>1. ASSUME UNCHANGED <<channelVars, watchVars, channels, listed, revSince, stream>> PROVE StarterAt(w)'
  BY <1>0, <1>1, SoleBefore DEF channelVars, watchVars, StarterAt, Got, Registered
<1>2. ASSUME NEW c \in Conn, Read(c) PROVE StarterAt(w)'
  BY <1>0, <1>2, SoleBefore DEF Read, streamVars, joinVars, watchVars, StarterAt, Got, Registered
<1>3. ASSUME NEW c \in Conn, Leave(c) PROVE StarterAt(w)'
  <2>1. UNCHANGED <<revSince, listed, stream, sent, dropped, watch, next>>
    BY <1>3 DEF Leave, joinVars, channelVars
  <2>2. Sole(w)
    BY <2>1, SoleBefore
  <2>3. Registered(w)' => Registered(w) /\ (w \in todo[w] => w \in todo'[w])
    BY <1>3, <2>1, LeaveStep DEF Registered, JoinType
  <2> QED
    BY <1>0, <2>1, <2>2, <2>3 DEF StarterAt, Got
<1>4. ASSUME NEW c \in Conn, GetEventStream(c) PROVE StarterAt(w)'
  <2>1. /\ UNCHANGED <<sent, dropped, watch, next, todo, channels, listed, revSince>>
        /\ stream[c] = None /\ watch[c] = "none" /\ \A v \in Conn \ {c} : stream'[v] = stream[v]
    BY <1>4 DEF GetEventStream, streamVars, channelVars, watchVars, StreamOK, WatchOK, JoinType
  <2>2. CASE w = c
    BY <2>1, <2>2 DEF StarterAt
  <2>3. CASE w # c
    <3>1. Sole(w)
      BY <2>1, <2>3 DEF Sole
    <3> QED
      BY <1>0, <2>1, <2>3, <3>1 DEF StarterAt, Got, Registered
  <2> QED
    BY <2>2, <2>3
<1>5. ASSUME NEW c \in Conn, List(c) PROVE StarterAt(w)'
  <2>1. /\ UNCHANGED <<watch, next, todo, channels, revSince, stream>> /\ Offer(c, rev)
        /\ watch[c] = "none" /\ \A v \in Conn \ {c} : listed'[v] = listed[v]
    BY <1>5 DEF List, streamVars, watchVars, WatchOK, JoinType
  <2>2. CASE w = c
    BY <2>1, <2>2 DEF StarterAt
  <2>3. CASE w # c
    BY <1>0, <2>1, <2>3, SoleBefore, OfferGrows DEF StarterAt, Registered, ServerType
  <2> QED
    BY <2>2, <2>3
<1>6. ASSUME NEW c \in Conn, AddChannel(c) PROVE StarterAt(w)'
  <2>1. /\ UNCHANGED <<sent, dropped, watch, next, listed, revSince, stream>> /\ watch[c] = "none"
        /\ \A s, d \in Conn : d # c => (d \in channels'[s] <=> d \in channels[s])
        /\ \A v \in Conn : todo[v] \subseteq todo'[v]
    BY <1>6 DEF AddChannel, channelVars, WatchOK, ServerType, JoinType
  <2>2. CASE w = c
    BY <2>1, <2>2 DEF StarterAt
  <2>3. CASE w # c
    <3>1. Registered(w)' => Registered(w)
      BY <2>1, <2>3 DEF Registered, JoinType
    <3> QED
      BY <1>0, <2>1, <3>1, SoleBefore DEF StarterAt, Got
  <2> QED
    BY <2>2, <2>3
<1>7. ASSUME NEW c \in Conn, StartWatch(c) PROVE StarterAt(w)'
  <2>1. /\ UNCHANGED <<sent, dropped, next, todo, channels, listed, stream>>
        /\ revSince' = [revSince EXCEPT ![stream[c]] = listed[c]]
        /\ watch' = [watch EXCEPT ![c] = "spawned"]
        /\ stream[c] \in Conn /\ watch[c] = "none"
    BY <1>7 DEF StartWatch, channelVars, StreamOK, WatchOK, JoinType
  <2>2. CASE w = c
    BY <2>1, <2>2 DEF StarterAt, ServerType, WatchType
  <2>3. CASE w # c
    <3>1. stream[w] # stream[c]
      BY <2>1, <2>3 DEF Sole, WatchType
    <3>2. Sole(w) /\ watch'[w] = watch[w]
      BY <2>1, <2>3, <3>1 DEF Sole, WatchType
    <3>3. watch[w] = "spawned" => revSince'[stream[w]] = revSince[stream[w]]
      BY <2>1, <3>1 DEF WatchOK, JoinType, ServerType
    <3> QED
      BY <1>0, <2>1, <3>2, <3>3 DEF StarterAt, Got, Registered
  <2> QED
    BY <2>2, <2>3
<1>8. ASSUME NEW c \in Conn, OpenWatch(c) PROVE StarterAt(w)'
  <2>1. /\ UNCHANGED <<sent, dropped, todo, channels, listed, revSince, stream>>
        /\ watch[c] = "spawned" /\ watch' = [watch EXCEPT ![c] = "running"]
        /\ next' = [next EXCEPT ![c] = revSince[stream[c]]]
    BY <1>8 DEF OpenWatch, FirstRevision, channelVars, streamVars, joinVars
  <2>2. Sole(w)
    BY <2>1, SoleBefore DEF WatchType
  <2>3. CASE w = c
    <3>1. watch'[c] = "running" /\ next'[c] = listed[c] /\ listed[c] \in 1 .. rev
      BY <1>0, <2>1, <2>2, <2>3 DEF StarterAt, WatchType, WatchOK
    <3>2. rev \in Nat /\ listed'[c] .. next'[c] - 1 = {}
      BY <2>1, <3>1 DEF ServerType
    <3> QED
      BY <2>3, <3>1, <3>2 DEF StarterAt
  <2>4. CASE w # c
    BY <1>0, <2>1, <2>2, <2>4 DEF StarterAt, Got, Registered, WatchType
  <2> QED
    BY <2>3, <2>4
<1>9. ASSUME NEW c \in Conn, Deliver(c) PROVE StarterAt(w)'
  <2>1. /\ UNCHANGED <<sent, dropped, next, channels, listed, revSince, stream>>
        /\ watch[c] = "running" /\ watch' = [watch EXCEPT ![c] = "sending"]
        /\ todo' = [todo EXCEPT ![c] = channels[stream[c]]]
    BY <1>9 DEF Deliver, channelVars, streamVars, joinVars
  <2>2. Sole(w)
    BY <2>1, SoleBefore DEF WatchType
  <2>3. CASE w = c
    BY <1>0, <2>1, <2>2, <2>3 DEF StarterAt, Got, Registered, WatchType
  <2>4. CASE w # c
    BY <1>0, <2>1, <2>2, <2>4 DEF StarterAt, Got, Registered, WatchType
  <2> QED
    BY <2>3, <2>4
<1>10. ASSUME NEW c \in Conn, NEW d \in Conn, Send(c, d) PROVE StarterAt(w)'
  <2>1. /\ UNCHANGED <<watch, next, channels, listed, revSince, stream>>
        /\ watch[c] = "sending" /\ Offer(d, next[c])
        /\ \A v \in Conn : todo'[v] = IF v = c THEN todo[c] \ {d} ELSE todo[v]
        /\ next[c] \in 1 .. MaxRev
    BY <1>10 DEF Send, streamVars, joinVars, WatchType, WatchOK, ServerType
  <2>2. Sole(w)
    BY <2>1, SoleBefore
  <2>3. Got(d, next[c])' /\ \A q : Got(w, q) => Got(w, q)'
    BY <2>1, OfferGrows
  <2>4. Registered(w)' <=> Registered(w)
    BY <2>1 DEF Registered
  <2>5. watch[w] = "sending" /\ Registered(w) => w \in todo'[w] \/ Got(w, next[w])'
    BY <1>0, <2>1, <2>2, <2>3 DEF StarterAt
  <2> QED
    BY <1>0, <2>1, <2>2, <2>3, <2>4, <2>5 DEF StarterAt, Got
<1>11. ASSUME NEW c \in Conn, SentToAll(c) PROVE StarterAt(w)'
  <2>1. /\ UNCHANGED <<sent, dropped, todo, channels, listed, revSince, stream>>
        /\ watch[c] = "sending" /\ todo[c] = {} /\ watch' = [watch EXCEPT ![c] = "running"]
        /\ next' = [next EXCEPT ![c] = @ + 1]
    BY <1>11 DEF SentToAll, channelVars, streamVars, joinVars
  <2>2. Sole(w)
    BY <2>1, SoleBefore DEF WatchType
  <2>3. CASE w = c
    <3>1. next[c] \in Nat /\ next'[c] = next[c] + 1 /\ watch'[c] = "running" /\ listed[c] \in Nat
      BY <2>1 DEF WatchType, JoinType
    <3>2. Registered(c) => \A q \in listed[c] .. next[c] : Got(c, q)
      BY <1>0, <2>1, <2>2, <2>3, <3>1 DEF StarterAt
    <3>3. (next[c] + 1) - 1 = next[c]
      BY <3>1
    <3> QED
      BY <2>1, <2>3, <3>1, <3>2, <3>3 DEF StarterAt, Got, Registered
  <2>4. CASE w # c
    BY <1>0, <2>1, <2>2, <2>4 DEF StarterAt, Got, Registered, WatchType
  <2> QED
    BY <2>3, <2>4
<1>12. ASSUME NEW c \in Conn, EndWatch(c) PROVE StarterAt(w)'
  <2>1. /\ UNCHANGED <<sent, dropped, next, todo, channels, listed, revSince, stream>>
        /\ watch[c] = "running" /\ watch' = [watch EXCEPT ![c] = AfterWatch(c)]
        /\ AfterWatch(c) \in {"ended", "blocked"}
    BY <1>12 DEF EndWatch, AfterWatch, channelVars, streamVars, joinVars
  <2>2. Sole(w)
    BY <2>1, SoleBefore DEF WatchType
  <2> QED
    BY <1>0, <2>1, <2>2 DEF StarterAt, Got, Registered, WatchType
<1>13. ASSUME NEW c \in Conn, Connect(c) \/ ListFails(c) \/ CheckStarted(c) PROVE StarterAt(w)'
  <2>1. UNCHANGED <<sent, dropped, watchVars, channels, listed, revSince, stream>>
    BY <1>13 DEF Connect, StartJoin, ListFails, CloseChannel, CheckStarted, streamVars, channelVars
  <2> QED
    BY <1>0, <2>1, SoleBefore DEF watchVars, StarterAt, Got, Registered
<1>14. CASE Put \/ UNCHANGED vars
  BY <1>1, <1>14 DEF Put, vars, streamVars, joinVars
<1> QED
  BY <1>2, <1>3, <1>4, <1>5, <1>6, <1>7, <1>8, <1>9, <1>10, <1>11, <1>12, <1>13, <1>14
  DEF Next, Join, Watch, Ended, WatchStops, WatchCancelled

----------------------------------------------------------------------------
(* The theorems.                                                            *)

(* The invariant holds for ever. *)
LEMMA Invariance == Spec => []Inv
<1>1. Inv /\ [Next]_vars => Inv'
  <2> SUFFICES ASSUME Inv, [Next]_vars PROVE Inv'
    OBVIOUS
  <2>1. TypeInv'
    BY ServerStep, JoinStep, ChannelTypeStep, WatchTypeStep DEF TypeInv
  <2>2. StreamOK' /\ ChannelOK' /\ WatchOK'
    BY StreamStep, ChannelStep, WatchStep
  <2>3. StarterOK'
    BY <2>1, StarterStep
  <2> QED
    BY <2>1, <2>2, <2>3 DEF Inv, IInv
<1> QED
  BY InitInv, <1>1, PTL DEF Spec

(* No event channel ever holds more than its capacity, and every variable   *)
(* keeps its type.                                                          *)
THEOREM TypeCorrect == Spec => []TypeOK
<1>1. Inv => TypeOK
  BY DEF Inv, TypeInv, ServerType, JoinType, ChannelType, WatchType, TypeOK
<1> QED
  BY <1>1, Invariance, PTL

(* Only the stream of the prefix is not cancelled, whoever comes and goes.  *)
THEOREM CurrentIsAlive == Spec => []OnlyCurrentIsAlive
<1>1. Inv => OnlyCurrentIsAlive
  <2> SUFFICES ASSUME Inv PROVE Streams \ cancelled = {current} \ {None}
    BY DEF OnlyCurrentIsAlive
  <2> USE DEF Inv, IInv, TypeInv, StreamOK, JoinType, ServerType
  <2>1. ASSUME NEW s \in Streams \ cancelled PROVE s = current /\ s # None
    BY <2>1 DEF Streams
  <2>2. current # None => current \in Streams \ cancelled
    BY DEF Streams
  <2> QED
    BY <2>1, <2>2
<1> QED
  BY <1>1, Invariance, PTL

(* No stream sends to a channel that is closed. *)
THEOREM NoSendToClosed == Spec => []ClosedIsUnregistered
<1>1. Inv => ClosedIsUnregistered
  BY DEF Inv, IInv, ChannelOK, ClosedIsUnregistered
<1> QED
  BY <1>1, Invariance, PTL

(* The connection whose watch is its stream's only one misses no write      *)
(* after its list, but those its full buffer refused.                       *)
THEOREM StarterIsServed == Spec => []StarterMissesNothing
<1>1. Inv => StarterMissesNothing
  BY DEF Inv, IInv, StarterOK, StarterAt, StarterMissesNothing, Covered, Got
<1> QED
  BY <1>1, Invariance, PTL
----------------------------------------------------------------------------
(* A stream with one watch: its connections get each write once at most.    *)
(* After its list a connection has one event at most when it is added, and   *)
(* what it has got since is below what the watch sends it next.             *)

Rising(c) == \A j, k \in 2 .. Len(sent[c]) : j < k => sent[c][j] < sent[c][k]
Below(c, r) == \A k \in 2 .. Len(sent[c]) : sent[c][k] < r

Ordered(w, c) ==
    /\ Rising(c)
    /\ watch[w] \in {"none", "spawned"} => Len(sent[c]) <= 1
    /\ watch[w] = "running" => Below(c, next[w])
    /\ watch[w] = "sending" => Below(c, next[w] + 1) /\ (c \in todo[w] => Below(c, next[w]))

(* Only the list goes into a channel before it is added to its stream.      *)
ListOnly ==
    \A c \in Conn :
        /\ join[c] \in {"idle", "get", "list"} => Len(sent[c]) = 0
        /\ join[c] = "add" => Len(sent[c]) <= 1

(* A watch visits channels of its own stream that were added. *)
TodoOK ==
    \A w, c \in Conn : watch[w] = "sending" /\ c \in todo[w] =>
        stream[c] = stream[w] /\ join[c] \in {"check", "start", "done"}

SoleOrdered ==
    \A w, c \in Conn : stream[w] # None /\ stream[c] = stream[w] /\ Sole(w) => Ordered(w, c)

(* While its watch is its stream's only one, a connection has nothing that  *)
(* is older than its list, and nothing older comes next.                    *)
SinceList ==
    \A w \in Conn : stream[w] # None /\ Sole(w) =>
        /\ \A k \in 1 .. Len(sent[w]) : listed[w] <= sent[w][k]
        /\ watch[w] \in {"running", "sending"} => listed[w] <= next[w]

OnceInv == ListOnly /\ TodoOK /\ SoleOrdered /\ SinceList

(* What an offer does to the channels. *)
LEMMA Offered ==
    ASSUME ChannelType, NEW c \in Conn, NEW r \in 1 .. MaxRev, Offer(c, r)
    PROVE  /\ \A d \in Conn \ {c} : sent'[d] = sent[d]
           /\ \/ sent'[c] = sent[c]
              \/ /\ Len(sent'[c]) = Len(sent[c]) + 1 /\ sent'[c][Len(sent[c]) + 1] = r
                 /\ \A k \in 1 .. Len(sent[c]) : sent'[c][k] = sent[c][k]
           /\ Len(sent[c]) \in Nat /\ \A k \in 1 .. Len(sent[c]) : sent[c][k] \in 1 .. MaxRev
<1>1. sent \in [Conn -> Seq(1 .. MaxRev)] /\ sent[c] \in Seq(1 .. MaxRev)
  BY DEF ChannelType
<1>2. CASE sent' = sent
  BY <1>1, <1>2
<1>3. CASE sent' = [sent EXCEPT ![c] = Append(sent[c], r)]
  <2>1. sent'[c] = Append(sent[c], r) /\ \A d \in Conn \ {c} : sent'[d] = sent[d]
    BY <1>1, <1>3
  <2>2. /\ Len(Append(sent[c], r)) = Len(sent[c]) + 1 /\ Len(sent[c]) \in Nat
        /\ \A k \in 1 .. Len(sent[c]) : Append(sent[c], r)[k] = sent[c][k]
        /\ Append(sent[c], r)[Len(sent[c]) + 1] = r
    BY <1>1
  <2> QED
    BY <1>1, <2>1, <2>2
<1> QED
  BY <1>2, <1>3 DEF Offer

(* What is offered above all that came after the list keeps the order.      *)
LEMMA OfferRises ==
    ASSUME ChannelType, NEW c \in Conn, NEW r \in 1 .. MaxRev, Offer(c, r), Rising(c), Below(c, r)
    PROVE  Rising(c)' /\ \A k \in 2 .. Len(sent'[c]) : sent'[c][k] < r + 1
<1>1. /\ Len(sent[c]) \in Nat /\ \A k \in 1 .. Len(sent[c]) : sent[c][k] \in 1 .. MaxRev
      /\ \/ sent'[c] = sent[c]
         \/ /\ Len(sent'[c]) = Len(sent[c]) + 1 /\ sent'[c][Len(sent[c]) + 1] = r
            /\ \A k \in 1 .. Len(sent[c]) : sent'[c][k] = sent[c][k]
  BY Offered
<1>2. CASE sent'[c] = sent[c]
  BY <1>1, <1>2 DEF Rising, Below
<1>3. CASE /\ Len(sent'[c]) = Len(sent[c]) + 1 /\ sent'[c][Len(sent[c]) + 1] = r
           /\ \A k \in 1 .. Len(sent[c]) : sent'[c][k] = sent[c][k]
  <2> DEFINE n == Len(sent[c])
  <2>1. ASSUME NEW j \in 2 .. n + 1, NEW k \in 2 .. n + 1, j < k PROVE sent'[c][j] < sent'[c][k]
    <3>1. j \in 2 .. n /\ sent'[c][j] = sent[c][j]
      BY <1>1, <1>3, <2>1
    <3>2. CASE k = n + 1
      BY <1>3, <3>1, <3>2 DEF Below
    <3>3. CASE k # n + 1
      <4>1. k \in 2 .. n /\ sent'[c][k] = sent[c][k]
        BY <1>1, <1>3, <3>3
      <4> QED
        BY <2>1, <3>1, <4>1 DEF Rising
    <3> QED
      BY <3>2, <3>3
  <2>2. ASSUME NEW k \in 2 .. n + 1 PROVE sent'[c][k] < r + 1
    <3>1. CASE k = n + 1
      BY <1>3, <3>1
    <3>2. CASE k # n + 1
      <4>1. k \in 2 .. n /\ sent'[c][k] = sent[c][k] /\ sent[c][k] \in 1 .. MaxRev
        BY <1>1, <1>3, <3>2
      <4> QED
        BY <4>1 DEF Below
    <3> QED
      BY <3>1, <3>2
  <2> QED
    BY <1>3, <2>1, <2>2 DEF Rising
<1> QED
  BY <1>1, <1>2, <1>3

(* One event at most is in order with anything.                             *)
LEMMA FewAreOrdered ==
    ASSUME ChannelType, NEW c \in Conn, Len(sent[c]) <= 1, NEW w \in Conn
    PROVE  Ordered(w, c)
<1>1. Len(sent[c]) \in Nat
  BY DEF ChannelType
<1>2. 2 .. Len(sent[c]) = {}
  BY <1>1
<1> QED
  BY <1>2 DEF Ordered, Rising, Below

(* Nothing but its list goes into a channel before it is added, and a watch  *)
(* only sends to what was added.                                            *)
LEMMA ListOnlyStep ==
    ASSUME Inv, OnceInv, [Next]_vars
    PROVE  ListOnly' /\ TodoOK'
<1> USE DEF Inv, TypeInv, OnceInv
<1>0. /\ join \in [Conn -> Joins] /\ watch \in [Conn -> Watches] /\ stream \in [Conn -> Conn \cup {None}]
      /\ todo \in [Conn -> SUBSET Conn] /\ rev \in 1 .. MaxRev /\ channels \in [Conn -> SUBSET Conn]
  BY DEF ServerType, JoinType, WatchType
<1>1. CASE \E c \in Conn : List(c)
  <2>1. PICK c \in Conn : List(c)
    BY <1>1
  <2>2. /\ join[c] = "list" /\ join' = [join EXCEPT ![c] = "add"] /\ Offer(c, rev)
        /\ UNCHANGED <<watch, todo, stream>>
    BY <2>1 DEF List, GoTo, watchVars
  <2>3. Len(sent[c]) = 0
    BY <2>2 DEF ListOnly
  <2>4. Len(sent'[c]) <= 1 /\ \A d \in Conn \ {c} : sent'[d] = sent[d]
    BY <1>0, <2>2, <2>3, Offered
  <2>5. ListOnly'
    BY <1>0, <2>2, <2>4 DEF ListOnly
  <2>6. TodoOK'
    BY <1>0, <2>2 DEF TodoOK
  <2> QED
    BY <2>5, <2>6
<1>2. CASE \E w, c \in Conn : Send(w, c)
  <2>1. PICK w \in Conn, c \in Conn : Send(w, c)
    BY <1>2
  <2>2. /\ watch[w] = "sending" /\ c \in todo[w] /\ Offer(c, next[w])
        /\ UNCHANGED <<join, watch, stream>> /\ \A v \in Conn : todo'[v] \subseteq todo[v]
    BY <1>0, <2>1 DEF Send, joinVars
  <2>3. next[w] \in 1 .. MaxRev
    BY <2>2 DEF IInv, WatchOK, ServerType, WatchType
  <2>4. join[c] \in {"check", "start", "done"} /\ \A d \in Conn \ {c} : sent'[d] = sent[d]
    BY <2>2, <2>3, Offered DEF TodoOK
  <2> QED
    BY <2>2, <2>4 DEF ListOnly, TodoOK
<1>3. CASE \E w \in Conn : Deliver(w)
  <2>1. PICK w \in Conn : Deliver(w)
    BY <1>3
  <2>2. /\ watch' = [watch EXCEPT ![w] = "sending"] /\ UNCHANGED <<sent, join, stream>>
        /\ todo' = [todo EXCEPT ![w] = channels[stream[w]]] /\ watch[w] = "running"
    BY <2>1 DEF Deliver, joinVars, channelVars
  <2>3. stream[w] \in Conn
    BY <1>0, <2>2 DEF IInv, WatchOK
  <2>4. \A c \in channels[stream[w]] : stream[c] = stream[w] /\ join[c] \in {"check", "start", "done"}
    BY <1>0, <2>3 DEF IInv, ChannelOK
  <2> QED
    BY <1>0, <2>2, <2>4 DEF ListOnly, TodoOK
<1>4. CASE \E c \in Conn : AddChannel(c)
  <2>1. PICK c \in Conn : AddChannel(c)
    BY <1>4
  <2>2. /\ join' = [join EXCEPT ![c] = "check"] /\ UNCHANGED <<sent, watch, stream>>
    BY <2>1 DEF AddChannel, GoTo, channelVars
  <2>3. \A w \in Conn : todo'[w] = todo[w] \/ (todo'[w] = todo[w] \cup {c} /\ stream[w] = stream[c])
    BY <2>1 DEF AddChannel, Ranging
  <2> QED
    BY <1>0, <2>2, <2>3 DEF ListOnly, TodoOK
<1>5. CASE \E c \in Conn : GetEventStream(c)
  <2>1. PICK c \in Conn : GetEventStream(c)
    BY <1>5
  <2>2. /\ join[c] = "get" /\ join' = [join EXCEPT ![c] = "list"] /\ UNCHANGED <<sent, watch, todo>>
        /\ \A d \in Conn \ {c} : stream'[d] = stream[d]
    BY <1>0, <2>1 DEF GetEventStream, GoTo, channelVars, watchVars
  <2>3. watch[c] = "none"
    BY <1>0, <2>2 DEF IInv, WatchOK
  <2> QED
    BY <1>0, <2>2, <2>3 DEF ListOnly, TodoOK
<1>6. CASE \E c \in Conn : Leave(c)
  <2>1. PICK c \in Conn : Leave(c)
    BY <1>6
  <2>2. UNCHANGED <<sent, join, watch, stream>> /\ \A w \in Conn : todo'[w] \subseteq todo[w]
    BY <2>1, LeaveStep DEF Leave, joinVars, channelVars
  <2> QED
    BY <2>2 DEF ListOnly, TodoOK
<1>7. CASE \E c \in Conn : Connect(c) \/ ListFails(c) \/ CheckStarted(c) \/ StartWatch(c)
  <2>1. PICK c \in Conn : Connect(c) \/ ListFails(c) \/ CheckStarted(c) \/ StartWatch(c)
    BY <1>7
  <2>2. UNCHANGED <<sent, todo, stream>> /\ \A w \in Conn : watch'[w] = "sending" => watch[w] = "sending"
    BY <1>0, <2>1 DEF Connect, ListFails, CheckStarted, StartWatch, channelVars, watchVars
  <2>3. \/ join[c] = "idle" /\ join' = [join EXCEPT ![c] = "get"]
        \/ join' = [join EXCEPT ![c] = "done"]
        \/ join[c] = "check" /\ join' = [join EXCEPT ![c] = "start"]
    BY <2>1 DEF Connect, StartJoin, ListFails, CheckStarted, StartWatch, GoTo, IInv, StreamOK
  <2> QED
    BY <1>0, <2>2, <2>3 DEF ListOnly, TodoOK
<1>8. CASE \/ Put \/ UNCHANGED vars
           \/ \E c \in Conn : Read(c) \/ OpenWatch(c) \/ SentToAll(c) \/ EndWatch(c)
  <2>1. UNCHANGED <<sent, todo, stream, join>> /\ \A w \in Conn : watch'[w] = "sending" => watch[w] = "sending"
    BY <1>0, <1>8 DEF Put, vars, Read, OpenWatch, SentToAll, EndWatch, AfterWatch, channelVars, watchVars, joinVars
  <2> QED
    BY <2>1 DEF ListOnly, TodoOK
<1> QED
  BY <1>1, <1>2, <1>3, <1>4, <1>5, <1>6, <1>7, <1>8
  DEF Next, Join, Watch, Ended, WatchStops, WatchCancelled

(* The sole watch of a stream keeps the order of all connections of it.     *)
LEMMA SoleOrderedStep ==
    ASSUME Inv, Inv', OnceInv, [Next]_vars, NEW w \in Conn, NEW c \in Conn,
           stream'[w] # None, stream'[c] = stream'[w], Sole(w)'
    PROVE  Ordered(w, c)'
<1> USE DEF Inv, TypeInv, OnceInv
<1>0. /\ join \in [Conn -> Joins] /\ watch \in [Conn -> Watches] /\ stream \in [Conn -> Conn \cup {None}]
      /\ todo \in [Conn -> SUBSET Conn] /\ rev \in 1 .. MaxRev /\ channels \in [Conn -> SUBSET Conn]
      /\ next \in [Conn -> 0 .. MaxRev + 1]
      /\ \A d \in Conn : Len(sent[d]) \in Nat /\ \A k \in 1 .. Len(sent[d]) : sent[d][k] \in 1 .. MaxRev
  <2>1. ASSUME NEW d \in Conn
        PROVE  Len(sent[d]) \in Nat /\ \A k \in 1 .. Len(sent[d]) : sent[d][k] \in 1 .. MaxRev
    <3>1. sent[d] \in Seq(1 .. MaxRev)
      BY DEF ChannelType
    <3> QED
      BY <3>1
  <2> QED
    BY <2>1 DEF ServerType, JoinType, WatchType
<1>1. ASSUME stream' = stream, \A v \in Conn : watch'[v] = "none" => watch[v] = "none"
      PROVE  Sole(w) /\ Ordered(w, c)
  <2>1. Sole(w) /\ stream[w] # None /\ stream[c] = stream[w]
    BY <1>1, SoleBefore
  <2> QED
    BY <2>1 DEF SoleOrdered
<1>2. CASE \E d \in Conn : GetEventStream(d)
  <2>1. PICK d \in Conn : GetEventStream(d)
    BY <1>2
  <2>2. /\ join[d] = "get" /\ UNCHANGED <<sent, watch, todo, next>>
        /\ current' = (IF current = None THEN d ELSE current)
        /\ stream' = [stream EXCEPT ![d] = current']
    BY <2>1 DEF GetEventStream, channelVars, watchVars
  <2>3. stream[d] = None /\ watch[d] = "none" /\ Len(sent[d]) = 0
    BY <1>0, <2>2 DEF IInv, StreamOK, WatchOK, ListOnly
  <2>4. Ordered(w, c)' <=> Ordered(w, c)
    BY <2>2 DEF Ordered, Rising, Below
  <2>5. CASE c = d
    BY <2>3, <2>4, <2>5, FewAreOrdered
  <2>6. CASE c # d /\ w # d
    <3>1. stream[w] # None /\ stream[c] = stream[w] /\ Sole(w)
      BY <1>0, <2>2, <2>3, <2>6 DEF Sole
    <3> QED
      BY <2>4, <3>1 DEF SoleOrdered
  <2>7. CASE c # d /\ w = d
    <3>1. stream[c] = current' /\ stream'[d] = current' /\ current' \in Conn
      BY <1>0, <2>2, <2>7 DEF ServerType
    <3>2. current # None
      <4>1. SUFFICES ASSUME current = None PROVE FALSE
        OBVIOUS
      <4>2. stream[c] = d /\ stream[d] = d
        BY <2>2, <3>1, <4>1 DEF IInv, StreamOK
      <4> QED
        BY <2>3, <4>2
    <3>3. stream[current] = current /\ current \in Conn /\ current # d /\ current' = current
      BY <2>2, <2>3, <3>1, <3>2 DEF IInv, StreamOK
    <3>4. \A v \in Conn \ {d} : stream[v] = current => watch[v] = "none"
      BY <1>0, <2>2, <2>7, <3>1, <3>3 DEF Sole
    <3>5. Sole(current) /\ watch[current] = "none"
      BY <2>3, <3>3, <3>4 DEF Sole
    <3>6. Ordered(current, c)
      BY <3>1, <3>3, <3>5 DEF SoleOrdered
    <3>7. Len(sent[c]) <= 1
      BY <3>5, <3>6 DEF Ordered
    <3> QED
      BY <2>4, <3>7, FewAreOrdered
  <2> QED
    BY <2>5, <2>6, <2>7
<1>3. CASE \E d \in Conn : List(d)
  <2>1. PICK d \in Conn : List(d)
    BY <1>3
  <2>2. /\ join[d] = "list" /\ Offer(d, rev) /\ UNCHANGED <<watch, todo, next, stream>>
    BY <2>1 DEF List, watchVars
  <2>3. Len(sent[d]) = 0
    BY <2>2 DEF ListOnly
  <2>4. Len(sent'[d]) <= 1 /\ \A v \in Conn \ {d} : sent'[v] = sent[v]
    BY <1>0, <2>2, <2>3, Offered
  <2>5. CASE c = d
    <3>1. Len(sent'[c]) \in Nat /\ Len(sent'[c]) <= 1
      BY <2>4, <2>5 DEF ChannelType
    <3>2. \A k : k \notin 2 .. Len(sent'[c])
      BY <3>1
    <3>3. \A r : Rising(c)' /\ (\A k \in 2 .. Len(sent'[c]) : sent'[c][k] < r)
      BY <3>2 DEF Rising
    <3> QED
      BY <3>1, <3>3 DEF Ordered, Below
  <2>6. CASE c # d
    <3>1. Ordered(w, c)
      BY <1>1, <2>2
    <3> QED
      BY <2>2, <2>4, <2>6, <3>1 DEF Ordered, Rising, Below
  <2> QED
    BY <2>5, <2>6
<1>4. CASE \E v, d \in Conn : Send(v, d)
  <2>1. PICK v \in Conn, d \in Conn : Send(v, d)
    BY <1>4
  <2>2. /\ watch[v] = "sending" /\ d \in todo[v] /\ Offer(d, next[v])
        /\ UNCHANGED <<watch, next, stream>>
        /\ todo' = [todo EXCEPT ![v] = todo[v] \ {d}]
    BY <2>1 DEF Send, joinVars
  <2>3. next[v] \in 1 .. MaxRev /\ stream[d] = stream[v]
    BY <2>2 DEF IInv, WatchOK, ServerType, WatchType, TodoOK
  <2>4. Sole(w) /\ Ordered(w, c)
    BY <1>1, <2>2
  <2>5. CASE c = d
    <3>1. v = w
      BY <2>2, <2>3, <2>4, <2>5 DEF Sole
    <3>2. Rising(d) /\ Below(d, next[w])
      BY <2>2, <2>4, <2>5, <3>1 DEF Ordered
    <3>3. Rising(d)' /\ \A k \in 2 .. Len(sent'[d]) : sent'[d][k] < next[w] + 1
      BY <2>2, <2>3, <3>1, <3>2, OfferRises
    <3>4. watch'[w] = "sending" /\ next'[w] = next[w] /\ c \notin todo'[w]
      BY <1>0, <2>2, <2>5, <3>1
    <3> QED
      BY <2>5, <3>3, <3>4 DEF Ordered, Below
  <2>6. CASE c # d
    <3>1. sent'[c] = sent[c] /\ todo'[w] \subseteq todo[w]
      BY <1>0, <2>2, <2>3, <2>6, Offered
    <3> QED
      BY <2>2, <2>4, <3>1 DEF Ordered, Rising, Below
  <2> QED
    BY <2>5, <2>6
<1>5. CASE \E d \in Conn : AddChannel(d)
  <2>1. PICK d \in Conn : AddChannel(d)
    BY <1>5
  <2>2. join[d] = "add" /\ UNCHANGED <<sent, watch, next, stream>>
    BY <2>1 DEF AddChannel, channelVars
  <2>3. todo'[w] \subseteq todo[w] \cup {d}
    BY <2>1 DEF AddChannel
  <2>4. Ordered(w, c)
    BY <1>1, <2>2
  <2>5. c = d => Below(c, next[w])
    <3>1. c = d => 2 .. Len(sent[c]) = {}
      BY <1>0, <2>2 DEF ListOnly
    <3> QED
      BY <3>1 DEF Below
  <2> QED
    BY <2>2, <2>3, <2>4, <2>5 DEF Ordered, Rising, Below
<1>6. CASE \E v \in Conn : Deliver(v)
  <2>1. PICK v \in Conn : Deliver(v)
    BY <1>6
  <2>2. /\ watch[v] = "running" /\ watch' = [watch EXCEPT ![v] = "sending"]
        /\ UNCHANGED <<sent, next, stream>> /\ \A u \in Conn \ {v} : todo'[u] = todo[u]
    BY <1>0, <2>1 DEF Deliver, channelVars, joinVars
  <2>3. Ordered(w, c)
    BY <1>0, <1>1, <2>2
  <2>4. CASE w = v
    <3>1. Below(c, next[w]) /\ Rising(c)
      BY <2>2, <2>3, <2>4 DEF Ordered
    <3>2. \A k \in 2 .. Len(sent[c]) : sent[c][k] < next[w] + 1
      BY <1>0, <3>1 DEF Below
    <3> QED
      BY <1>0, <2>2, <2>4, <3>1, <3>2 DEF Ordered, Rising, Below
  <2>5. CASE w # v
    BY <1>0, <2>2, <2>3, <2>5 DEF Ordered, Rising, Below
  <2> QED
    BY <2>4, <2>5
<1>7. CASE \E v \in Conn : SentToAll(v)
  <2>1. PICK v \in Conn : SentToAll(v)
    BY <1>7
  <2>2. /\ watch[v] = "sending" /\ watch' = [watch EXCEPT ![v] = "running"]
        /\ next' = [next EXCEPT ![v] = next[v] + 1] /\ UNCHANGED <<sent, todo, stream>>
    BY <2>1 DEF SentToAll, channelVars, joinVars
  <2>3. Ordered(w, c)
    BY <1>0, <1>1, <2>2
  <2> QED
    BY <1>0, <2>2, <2>3 DEF Ordered, Rising, Below
<1>8. CASE \E v \in Conn : OpenWatch(v)
  <2>1. PICK v \in Conn : OpenWatch(v)
    BY <1>8
  <2>2. /\ watch[v] = "spawned" /\ watch' = [watch EXCEPT ![v] = "running"]
        /\ UNCHANGED <<sent, todo, stream>> /\ \A u \in Conn \ {v} : next'[u] = next[u]
    BY <1>0, <2>1 DEF OpenWatch, channelVars, joinVars
  <2>3. Ordered(w, c)
    BY <1>0, <1>1, <2>2
  <2>4. CASE w = v
    <3>1. Rising(c) /\ 2 .. Len(sent[c]) = {}
      BY <1>0, <2>2, <2>3, <2>4 DEF Ordered
    <3> QED
      BY <1>0, <2>2, <2>4, <3>1 DEF Ordered, Rising, Below
  <2>5. CASE w # v
    BY <1>0, <2>2, <2>3, <2>5 DEF Ordered, Rising, Below
  <2> QED
    BY <2>4, <2>5
<1>9. CASE \E v \in Conn : StartWatch(v)
  <2>1. PICK v \in Conn : StartWatch(v)
    BY <1>9
  <2>2. /\ join[v] = "start" /\ watch' = [watch EXCEPT ![v] = "spawned"]
        /\ UNCHANGED <<sent, next, todo, stream>>
    BY <2>1 DEF StartWatch, channelVars
  <2>3. watch[v] = "none"
    BY <1>0, <2>2 DEF IInv, WatchOK
  <2>4. Ordered(w, c)
    BY <1>0, <1>1, <2>2
  <2> QED
    BY <1>0, <2>2, <2>3, <2>4 DEF Ordered, Rising, Below
<1>10. CASE \E v \in Conn : EndWatch(v)
  <2>1. PICK v \in Conn : EndWatch(v)
    BY <1>10
  <2>2. /\ watch' = [watch EXCEPT ![v] = AfterWatch(v)] /\ AfterWatch(v) \in {"ended", "blocked"}
        /\ UNCHANGED <<sent, next, todo, stream>>
    BY <2>1 DEF EndWatch, AfterWatch, channelVars, joinVars
  <2>3. Ordered(w, c)
    BY <1>0, <1>1, <2>2
  <2> QED
    BY <1>0, <2>2, <2>3 DEF Ordered, Rising, Below
<1>11. CASE \E d \in Conn : Leave(d)
  <2>1. PICK d \in Conn : Leave(d)
    BY <1>11
  <2>2. UNCHANGED <<sent, watch, next, stream>> /\ todo'[w] \subseteq todo[w]
    BY <2>1, LeaveStep DEF Leave, joinVars, channelVars
  <2>3. Ordered(w, c)
    BY <1>1, <2>2
  <2> QED
    BY <2>2, <2>3 DEF Ordered, Rising, Below
<1>12. CASE \/ Put \/ UNCHANGED vars
            \/ \E d \in Conn : Connect(d) \/ Read(d) \/ ListFails(d) \/ CheckStarted(d)
  <2>1. UNCHANGED <<sent, watch, next, todo, stream>>
    BY <1>12 DEF Put, vars, Connect, Read, ListFails, CheckStarted, channelVars, watchVars, joinVars
  <2>2. Ordered(w, c)
    BY <1>1, <2>1
  <2> QED
    BY <2>1, <2>2 DEF Ordered, Rising, Below
<1> QED
  BY <1>2, <1>3, <1>4, <1>5, <1>6, <1>7, <1>8, <1>9, <1>10, <1>11, <1>12
  DEF Next, Join, Watch, Ended, WatchStops, WatchCancelled

(* The sole watch of a stream sends its starter nothing older than its list. *)
LEMMA SinceListStep ==
    ASSUME Inv, OnceInv, [Next]_vars, NEW w \in Conn, stream'[w] # None, Sole(w)'
    PROVE  /\ \A k \in 1 .. Len(sent'[w]) : listed'[w] <= sent'[w][k]
           /\ watch'[w] \in {"running", "sending"} => listed'[w] <= next'[w]
<1> USE DEF Inv, TypeInv, OnceInv
<1>0. /\ join \in [Conn -> Joins] /\ watch \in [Conn -> Watches] /\ stream \in [Conn -> Conn \cup {None}]
      /\ rev \in 1 .. MaxRev /\ next \in [Conn -> 0 .. MaxRev + 1] /\ listed \in [Conn -> 0 .. MaxRev]
      /\ \A d \in Conn : Len(sent[d]) \in Nat
  <2>1. \A d \in Conn : sent[d] \in Seq(1 .. MaxRev)
    BY DEF ChannelType
  <2> QED
    BY <2>1 DEF ServerType, JoinType, WatchType
<1>1. ASSUME stream' = stream, \A v \in Conn : watch'[v] = "none" => watch[v] = "none"
      PROVE  /\ Sole(w) /\ stream[w] # None
             /\ \A k \in 1 .. Len(sent[w]) : listed[w] <= sent[w][k]
             /\ watch[w] \in {"running", "sending"} => listed[w] <= next[w]
  BY <1>1, SoleBefore DEF SinceList
<1>2. CASE \E d \in Conn : GetEventStream(d)
  <2>1. PICK d \in Conn : GetEventStream(d)
    BY <1>2
  <2>2. /\ join[d] = "get" /\ UNCHANGED <<sent, watch, next, listed>>
        /\ \A v \in Conn \ {d} : stream'[v] = stream[v]
    BY <1>0, <2>1 DEF GetEventStream, channelVars, watchVars
  <2>3. stream[d] = None /\ watch[d] = "none" /\ Len(sent[d]) = 0
    BY <1>0, <2>2 DEF IInv, StreamOK, WatchOK, ListOnly
  <2>4. CASE w = d
    <3>1. 1 .. Len(sent'[w]) = {} /\ watch'[w] = "none"
      BY <2>2, <2>3, <2>4
    <3> QED
      BY <3>1
  <2>5. CASE w # d
    <3>1. Sole(w) /\ stream[w] # None
      BY <2>2, <2>3, <2>5 DEF Sole
    <3> QED
      BY <2>2, <3>1 DEF SinceList
  <2> QED
    BY <2>4, <2>5
<1>3. CASE \E d \in Conn : List(d)
  <2>1. PICK d \in Conn : List(d)
    BY <1>3
  <2>2. /\ join[d] = "list" /\ Offer(d, rev) /\ UNCHANGED <<watch, next, stream>>
        /\ listed' = [listed EXCEPT ![d] = rev]
    BY <2>1 DEF List, watchVars
  <2>3. Len(sent[d]) = 0 /\ watch[d] = "none"
    BY <1>0, <2>2 DEF IInv, WatchOK, ListOnly
  <2>4. /\ \A v \in Conn \ {d} : sent'[v] = sent[v]
        /\ sent'[d] = sent[d] \/ (Len(sent'[d]) = Len(sent[d]) + 1 /\ sent'[d][Len(sent[d]) + 1] = rev)
    BY <1>0, <2>2, Offered
  <2>5. CASE w = d
    <3>1. listed'[w] = rev /\ watch'[w] = "none"
      BY <1>0, <2>2, <2>3, <2>5
    <3>2. \A k \in 1 .. Len(sent'[w]) : sent'[w][k] = rev
      <4>1. CASE sent'[w] = sent[w]
        BY <2>3, <2>5, <4>1
      <4>2. CASE Len(sent'[w]) = 1 /\ sent'[w][1] = rev
        BY <4>2
      <4> QED
        BY <2>3, <2>4, <2>5, <4>1, <4>2
    <3> QED
      BY <1>0, <3>1, <3>2
  <2>6. CASE w # d
    BY <1>0, <1>1, <2>2, <2>4, <2>6
  <2> QED
    BY <2>5, <2>6
<1>4. CASE \E v, d \in Conn : Send(v, d)
  <2>1. PICK v \in Conn, d \in Conn : Send(v, d)
    BY <1>4
  <2>2. /\ watch[v] = "sending" /\ d \in todo[v] /\ Offer(d, next[v])
        /\ UNCHANGED <<watch, next, stream, listed>>
    BY <2>1 DEF Send, joinVars
  <2>3. next[v] \in 1 .. MaxRev /\ stream[d] = stream[v]
    BY <2>2 DEF IInv, WatchOK, ServerType, WatchType, TodoOK
  <2>4. CASE w = d
    <3>1. v = w /\ listed[w] <= next[w] /\ \A k \in 1 .. Len(sent[w]) : listed[w] <= sent[w][k]
      BY <1>1, <2>2, <2>3, <2>4 DEF Sole
    <3>2. \/ sent'[w] = sent[w]
          \/ /\ Len(sent'[w]) = Len(sent[w]) + 1 /\ sent'[w][Len(sent[w]) + 1] = next[w]
             /\ \A k \in 1 .. Len(sent[w]) : sent'[w][k] = sent[w][k]
      BY <2>2, <2>3, <2>4, <3>1, Offered
    <3>3. ASSUME NEW k \in 1 .. Len(sent'[w]) PROVE listed[w] <= sent'[w][k]
      <4>1. CASE sent'[w] = sent[w]
        BY <3>1, <3>3, <4>1
      <4>2. CASE /\ Len(sent'[w]) = Len(sent[w]) + 1 /\ sent'[w][Len(sent[w]) + 1] = next[w]
                 /\ \A i \in 1 .. Len(sent[w]) : sent'[w][i] = sent[w][i]
        <5>1. k \in 1 .. Len(sent[w]) \/ k = Len(sent[w]) + 1
          BY <1>0, <3>3, <4>2
        <5> QED
          BY <3>1, <4>2, <5>1
      <4> QED
        BY <3>2, <4>1, <4>2
    <3> QED
      BY <1>1, <2>2, <3>3
  <2>5. CASE w # d
    <3>1. sent'[w] = sent[w]
      BY <2>2, <2>3, <2>5, Offered
    <3> QED
      BY <1>1, <2>2, <3>1
  <2> QED
    BY <2>4, <2>5
<1>5. CASE \E v \in Conn : OpenWatch(v)
  <2>1. PICK v \in Conn : OpenWatch(v)
    BY <1>5
  <2>2. /\ watch[v] = "spawned" /\ watch' = [watch EXCEPT ![v] = "running"]
        /\ next' = [next EXCEPT ![v] = revSince[stream[v]]] /\ UNCHANGED <<sent, stream, listed>>
    BY <2>1 DEF OpenWatch, FirstRevision, channelVars, joinVars
  <2>3. CASE w = v
    <3>1. revSince[stream[w]] = listed[w]
      BY <1>0, <1>1, <2>2, <2>3 DEF IInv, StarterOK, StarterAt
    <3> QED
      BY <1>0, <1>1, <2>2, <2>3, <3>1
  <2>4. CASE w # v
    BY <1>0, <1>1, <2>2, <2>4
  <2> QED
    BY <2>3, <2>4
<1>6. CASE \E v \in Conn : SentToAll(v)
  <2>1. PICK v \in Conn : SentToAll(v)
    BY <1>6
  <2>2. /\ watch[v] = "sending" /\ watch' = [watch EXCEPT ![v] = "running"]
        /\ next' = [next EXCEPT ![v] = next[v] + 1] /\ UNCHANGED <<sent, stream, listed>>
    BY <2>1 DEF SentToAll, channelVars, joinVars
  <2> QED
    BY <1>0, <1>1, <2>2
<1>7. CASE \E v \in Conn : Deliver(v) \/ StartWatch(v) \/ EndWatch(v)
  <2>1. PICK v \in Conn : Deliver(v) \/ StartWatch(v) \/ EndWatch(v)
    BY <1>7
  <2>2. /\ UNCHANGED <<sent, stream, listed, next>> /\ \A u \in Conn \ {v} : watch'[u] = watch[u]
        /\ \/ watch[v] = "running" /\ watch'[v] \in {"sending", "ended", "blocked"}
           \/ watch'[v] = "spawned"
    BY <1>0, <2>1 DEF Deliver, StartWatch, EndWatch, AfterWatch, channelVars, joinVars
  <2> QED
    BY <1>0, <1>1, <2>2
<1>8. CASE \/ Put \/ UNCHANGED vars
           \/ \E d \in Conn : Connect(d) \/ Read(d) \/ ListFails(d) \/ CheckStarted(d) \/ AddChannel(d) \/ Leave(d)
  <2>1. UNCHANGED <<sent, watch, next, stream, listed>>
    BY <1>8 DEF Put, vars, Connect, Read, ListFails, CheckStarted, AddChannel, Leave, channelVars, watchVars, joinVars
  <2> QED
    BY <1>1, <2>1
<1> QED
  BY <1>2, <1>3, <1>4, <1>5, <1>6, <1>7, <1>8
  DEF Next, Join, Watch, Ended, WatchStops, WatchCancelled

(* While a stream has one watch, none of its connections gets a write twice  *)
(* after its list, or one before an earlier one, however they come and go,   *)
(* and the one that started the watch gets none older than its list.        *)
THEOREM EachWriteOnce == Spec => []OnceInOrder
<1>1. Init => OnceInv
  <2>1. ASSUME Init PROVE ListOnly /\ TodoOK /\ \A w \in Conn : stream[w] = None
    BY <2>1 DEF Init, ListOnly, TodoOK
  <2> QED
    BY <2>1 DEF OnceInv, SoleOrdered, SinceList
<1>2. Inv /\ Inv' /\ OnceInv /\ [Next]_vars => OnceInv'
  BY ListOnlyStep, SoleOrderedStep, SinceListStep DEF OnceInv, SoleOrdered, SinceList
<1>3. Inv /\ OnceInv => OnceInOrder
  BY DEF Inv, IInv, WatchOK, OnceInv, SoleOrdered, SinceList, Ordered, Rising, OnceInOrder
<1> QED
  BY <1>1, <1>2, <1>3, Invariance, PTL DEF Spec
=============================================================================

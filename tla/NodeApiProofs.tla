---------------------------- MODULE NodeApiProofs -----------------------------
(***************************************************************************)
(* What a client was told is done is done: AcknowledgedIsSeen of NodeApi,  *)
(* for any number of clients and calls, given up or not, and any failures. *)
(*                                                                         *)
(* The argument: a client sends a call only when those before it are over  *)
(* for it, so one of them that ended well had been put when the call was   *)
(* sent; a list reads what is put at its time, and a put comes last. A     *)
(* call puts at most once, since it is answered by the same step.          *)
(***************************************************************************)
EXTENDS NodeApi, TLAPS

Types ==
    /\ row \in Call \cup {Created, None}
    /\ puts \in Seq(Call \cup {Created})
    /\ by \in [Call -> Client \cup {None}]
    /\ what \in [Call -> {"none", "update", "delete", "list", "get"}]
    /\ server \in [Call -> Servers]
    /\ outcome \in [Call -> {"none", "ok", "error"}]
    /\ client \in [Call -> {"none", "waiting", "ok", "error"}]
    /\ answer \in [Call -> Nat]
    /\ earlier \in [Call -> SUBSET Call]

(* A call that was not sent has done nothing. *)
Unsent == \A c \in Call : by[c] = None =>
              server[c] = "none" /\ client[c] = "none" /\ what[c] = "none"

(* Only an Update that is answered has been put, and it was once. *)
PutOnce ==
    /\ \A i \in 1 .. Len(puts) : puts[i] \in Call =>
           server[puts[i]] = "answered" /\ what[puts[i]] = "update"
    /\ \A i, j \in 1 .. Len(puts) : puts[i] \in Call /\ puts[i] = puts[j] => i = j

(* Nobody hears "ok" of what is not done. *)
OkIsDone == \A c \in Call :
    /\ client[c] = "ok" => server[c] = "answered" /\ outcome[c] = "ok"
    /\ server[c] = "answered" /\ outcome[c] = "ok" /\ what[c] = "update" => Put(c)

(* The calls sent before are over for their client. *)
EarlierIsOver == \A c \in Call : \A d \in earlier[c] :
    by[c] # None /\ by[d] # None /\ client[d] # "waiting"

(* What AcknowledgedIsSeen says of positions, without choosing one. *)
InOrderOf(c, d) == what[d] = "update" /\ client[d] = "ok" =>
    \A i \in 1 .. Len(puts) : puts[i] = d =>
        /\ what[c] = "list" /\ server[c] = "answered" /\ outcome[c] = "ok" => answer[c] >= i
        /\ \A j \in 1 .. Len(puts) : puts[j] = c => j > i

Ordered == \A c \in Call : \A d \in earlier[c] : InOrderOf(c, d)

Inv == Types /\ Unsent /\ PutOnce /\ OkIsDone /\ EarlierIsOver /\ Ordered

----------------------------------------------------------------------------
(* It holds at the start: nothing was sent. *)
LEMMA InvInit == Init => Inv
  <1> SUFFICES ASSUME Init PROVE Inv
    OBVIOUS
  <1>1. Types
    BY DEF Init, Types, Servers
  <1>2. Unsent /\ EarlierIsOver /\ Ordered
    BY DEF Init, Unsent, EarlierIsOver, Ordered
  <1>3. PutOnce /\ OkIsDone
    BY NodeApiAssumption DEF Init, PutOnce, OkIsDone
  <1> QED
    BY <1>1, <1>2, <1>3 DEF Inv

(* A call is sent: it is nowhere yet, and the calls before it are over. *)
LEMMA SendKeeps ==
  ASSUME Inv, NEW u \in Client, NEW c \in Call,
         NEW method \in {"update", "delete", "list", "get"}, Send(u, c, method)
  PROVE  Inv'
  <1> USE NodeApiAssumption
  <1>1. by[c] = None /\ server[c] = "none" /\ client[c] = "none" /\ what[c] = "none" /\ u # None
    BY DEF Send, Inv, Unsent
  <1>2. Types'
    BY DEF Inv, Types, Send, Servers
  <1>3. \A d \in Call \ {c} : by'[d] = by[d] /\ what'[d] = what[d] /\ client'[d] = client[d]
                              /\ server'[d] = server[d] /\ earlier'[d] = earlier[d]
    BY DEF Send, Inv, Types
  <1>4. by'[c] = u /\ what'[c] = method /\ client'[c] = "waiting" /\ server'[c] = "received"
        /\ earlier'[c] = {d \in Call : by[d] = u}
    BY DEF Send, Inv, Types
  <1>5. \A d \in Call : c \notin earlier[d]
    BY <1>1 DEF Inv, EarlierIsOver
  <1>6. puts' = puts /\ outcome' = outcome /\ answer' = answer
    BY DEF Send
  <1>7. Unsent'
    BY <1>1, <1>3, <1>4 DEF Inv, Unsent
  <1>8. \A i \in 1 .. Len(puts) : puts[i] # c
    BY <1>1 DEF Inv, PutOnce
  <1>9. PutOnce'
    BY <1>3, <1>6, <1>8 DEF Inv, PutOnce
  <1>10. OkIsDone'
    BY <1>3, <1>4, <1>6 DEF Inv, OkIsDone, Put
  <1>11. EarlierIsOver'
    <2> SUFFICES ASSUME NEW e \in Call, NEW d \in earlier'[e]
                 PROVE  by'[e] # None /\ by'[d] # None /\ client'[d] # "waiting"
      BY DEF EarlierIsOver
    <2>1. CASE e = c
      <3>1. d \in Call /\ by[d] = u /\ d # c
        BY <1>1, <1>4, <2>1
      <3>2. client[d] # "waiting"
        BY <3>1 DEF Send
      <3> QED
        BY <1>1, <1>3, <1>4, <2>1, <3>1, <3>2
    <2>2. CASE e # c
      BY <1>3, <1>5, <2>2 DEF Inv, EarlierIsOver, Types
    <2> QED
      BY <2>1, <2>2
  <1>12. Ordered'
    <2> SUFFICES ASSUME NEW e \in Call, NEW d \in earlier'[e] PROVE InOrderOf(e, d)'
      BY DEF Ordered
    <2>1. CASE e = c
      BY <1>4, <1>6, <1>8, <2>1 DEF InOrderOf
    <2>2. CASE e # c
      <3>1. d \in earlier[e] /\ d \in Call /\ d # c
        BY <1>3, <1>5, <2>2 DEF Inv, Types
      <3> QED
        BY <1>3, <1>6, <2>2, <3>1 DEF Inv, Ordered, InOrderOf
    <2> QED
      BY <2>1, <2>2
  <1> QED
    BY <1>2, <1>7, <1>9, <1>10, <1>11, <1>12 DEF Inv

(* The client hears the answer, or no longer waits for it. *)
LEMMA ClientKeeps ==
  ASSUME Inv, NEW c \in Call, Hear(c) \/ GivesUp(c)
  PROVE  Inv'
  <1>1. client[c] = "waiting" /\ by[c] # None
    BY DEF Hear, GivesUp, Inv, Unsent
  <1>2. \A d \in Call \ {c} : client'[d] = client[d]
    BY DEF Hear, GivesUp, Inv, Types
  <1>3. client'[c] = "ok" => server[c] = "answered" /\ outcome[c] = "ok"
    BY DEF Hear, GivesUp, Inv, Types
  <1>4. client'[c] # "waiting"
    <2>1. Hear(c) => outcome[c] # "waiting"
      BY DEF Inv, Types
    <2> QED
      BY <2>1 DEF Hear, GivesUp, Inv, Types
  <1>5. UNCHANGED <<row, puts, by, what, server, outcome, answer, earlier>>
    BY DEF Hear, GivesUp
  <1>6. Types'
    BY <1>5 DEF Hear, GivesUp, Inv, Types
  <1>7. Unsent' /\ PutOnce'
    BY <1>1, <1>2, <1>5 DEF Inv, Unsent, PutOnce
  <1>8. OkIsDone'
    BY <1>2, <1>3, <1>5 DEF Inv, OkIsDone, Put
  <1>9. \A e \in Call : c \notin earlier[e]
    BY <1>1 DEF Inv, EarlierIsOver
  <1>10. EarlierIsOver'
    BY <1>2, <1>4, <1>5, <1>9 DEF Inv, EarlierIsOver, Types
  <1>11. Ordered'
    BY <1>2, <1>5, <1>9 DEF Inv, Ordered, InOrderOf, Types
  <1> QED
    BY <1>6, <1>7, <1>8, <1>10, <1>11 DEF Inv

(* A step of the server that puts nothing: what it answers is no Update that *)
(* went well, and a list shows what is put.                                  *)
Quiet(c) ==
    /\ server[c] \in {"received", "found", "stored"}
    /\ UNCHANGED <<puts, by, what, client, earlier>>
    /\ \A d \in Call \ {c} : server'[d] = server[d] /\ outcome'[d] = outcome[d]
                             /\ answer'[d] = answer[d]
    /\ server'[c] # "none"
    /\ server'[c] = "answered" /\ outcome'[c] = "ok" =>
           what[c] # "update" /\ (what[c] = "list" => answer'[c] = Len(puts))

(* Such a step keeps the invariant. *)
LEMMA ServerKeeps ==
  ASSUME Inv, NEW c \in Call, Types', Quiet(c)
  PROVE  Inv'
  <1> USE DEF Quiet
  <1>1. by[c] # None /\ client[c] # "ok"
    BY DEF Inv, Unsent, OkIsDone
  <1>2. \A i \in 1 .. Len(puts) : puts[i] # c
    BY DEF Inv, PutOnce
  <1>3. Unsent' /\ PutOnce'
    BY <1>1, <1>2 DEF Inv, Unsent, PutOnce
  <1>4. OkIsDone'
    BY <1>1 DEF Inv, OkIsDone, Put
  <1>5. EarlierIsOver'
    BY DEF Inv, EarlierIsOver
  <1>6. Ordered'
    <2> SUFFICES ASSUME NEW e \in Call, NEW d \in earlier[e] PROVE InOrderOf(e, d)'
      BY DEF Ordered
    <2>1. InOrderOf(e, d)
      BY DEF Inv, Ordered
    <2>2. Len(puts) \in Nat
      BY DEF Inv, Types
    <2>3. CASE e = c
      BY <1>2, <2>2, <2>3 DEF InOrderOf
    <2>4. CASE e # c
      BY <2>1, <2>4 DEF InOrderOf
    <2> QED
      BY <2>3, <2>4
  <1> QED
    BY <1>3, <1>4, <1>5, <1>6 DEF Inv

(* The put of an Update comes after all there is, and its call is answered. *)
LEMMA PutKeeps ==
  ASSUME Inv, NEW c \in Call, what[c] = "update", server[c] = "stored",
         puts' = Append(puts, c), NEW result \in {"ok", "error"}, Answers(c, result),
         UNCHANGED <<row, by, what, client, answer, earlier>>
  PROVE  Inv'
  <1>1. Types'
    BY DEF Inv, Types, Answers, Servers
  <1>2. /\ Len(puts) \in Nat /\ Len(puts') = Len(puts) + 1 /\ puts'[Len(puts) + 1] = c
        /\ \A i \in 1 .. Len(puts) : puts'[i] = puts[i]
    BY DEF Inv, Types
  <1>3. \A d \in Call \ {c} : server'[d] = server[d] /\ outcome'[d] = outcome[d]
    BY DEF Answers, Inv, Types
  <1>4. server'[c] = "answered"
    BY DEF Answers, Inv, Types
  <1>5. by[c] # None /\ client[c] # "ok"
    BY DEF Inv, Unsent, OkIsDone
  <1>6. \A i \in 1 .. Len(puts) : puts[i] # c
    BY DEF Inv, PutOnce
  <1>7. Unsent'
    BY <1>3, <1>5 DEF Inv, Unsent
  <1>8. PutOnce'
    BY <1>2, <1>3, <1>4, <1>6 DEF Inv, PutOnce
  <1>9. \A d \in Call : Put(d) => Put(d)'
    BY <1>2 DEF Put
  <1>10. Put(c)'
    BY <1>2 DEF Put
  <1>11. OkIsDone'
    BY <1>3, <1>5, <1>9, <1>10 DEF Inv, OkIsDone
  <1>12. EarlierIsOver'
    BY DEF Inv, EarlierIsOver
  <1>13. Ordered'
    <2> SUFFICES ASSUME NEW e \in Call, NEW d \in earlier[e], what[d] = "update", client[d] = "ok",
                        NEW i \in 1 .. Len(puts'), puts'[i] = d
                 PROVE  /\ what[e] = "list" /\ server'[e] = "answered" /\ outcome'[e] = "ok" =>
                               answer[e] >= i
                        /\ \A j \in 1 .. Len(puts') : puts'[j] = e => j > i
      BY DEF Ordered, InOrderOf
    <2>1. i \in 1 .. Len(puts) /\ puts[i] = d
      BY <1>2, <1>5
    <2>2. InOrderOf(e, d)
      BY DEF Inv, Ordered
    <2>3. what[e] = "list" => e # c
      OBVIOUS
    <2>4. ASSUME NEW j \in 1 .. Len(puts'), puts'[j] = e PROVE j > i
      <3>1. CASE j = Len(puts) + 1
        BY <1>2, <2>1, <3>1
      <3>2. CASE j \in 1 .. Len(puts)
        BY <1>2, <2>1, <2>2, <2>4, <3>2 DEF InOrderOf
      <3> QED
        BY <1>2, <3>1, <3>2
    <2>5. what[e] = "list" /\ server'[e] = "answered" /\ outcome'[e] = "ok" => answer[e] >= i
      BY <1>3, <2>1, <2>2, <2>3 DEF InOrderOf
    <2> QED
      BY <2>4, <2>5
  <1> QED
    BY <1>1, <1>7, <1>8, <1>11, <1>12, <1>13 DEF Inv

(* Each handler is a step of the server that puts nothing, or a put. *)
LEMMA HandlersKeep ==
  ASSUME Inv, NEW c \in Call,
         \/ List(c) \/ Get(c) \/ UpdateFinds(c) \/ UpdateRow(c) \/ UpdatePut(c)
         \/ DeleteRow(c) \/ DeleteKey(c)
  PROVE  Inv'
  <1>0. Types
    BY DEF Inv
  <1> USE DEF Works, Answers, Goes
  <1>1. CASE List(c)
    <2>1. Types'
      <3>1. Len(puts) \in Nat
        BY <1>0 DEF Types
      <3>2. answer' \in [Call -> Nat]
        BY <1>0, <1>1, <3>1 DEF List, Types
      <3>3. server' \in [Call -> Servers] /\ outcome' \in [Call -> {"none", "ok", "error"}]
        BY <1>0, <1>1 DEF List, Types, Servers
      <3> QED
        BY <1>0, <1>1, <3>2, <3>3 DEF List, Types
    <2>2. Quiet(c)
      BY <1>0, <1>1 DEF List, Types, Quiet
    <2> QED
      BY <2>1, <2>2, ServerKeeps
  <1>2. CASE Get(c)
    <2>1. Types'
      BY <1>0, <1>2 DEF Get, Types, Servers
    <2>2. Quiet(c)
      BY <1>0, <1>2 DEF Get, Types, Quiet
    <2> QED
      BY <2>1, <2>2, ServerKeeps
  <1>3. CASE UpdateFinds(c)
    <2>1. Types'
      BY <1>0, <1>3 DEF UpdateFinds, Types, Servers
    <2>2. Quiet(c)
      BY <1>0, <1>3 DEF UpdateFinds, Types, Quiet
    <2> QED
      BY <2>1, <2>2, ServerKeeps
  <1>4. CASE UpdateRow(c)
    <2>1. Types'
      BY <1>0, <1>4 DEF UpdateRow, Types, Servers
    <2>2. Quiet(c)
      BY <1>0, <1>4 DEF UpdateRow, Types, Quiet
    <2> QED
      BY <2>1, <2>2, ServerKeeps
  <1>5. CASE UpdatePut(c)
    <2>1. what[c] = "update" /\ server[c] = "stored"
          /\ UNCHANGED <<row, by, what, client, answer, earlier>>
      BY <1>5 DEF UpdatePut
    <2>2. CASE puts' = Append(puts, c) /\ \E result \in {"ok", "error"} : Answers(c, result)
      <3> HIDE DEF Answers
      <3> QED
        BY <2>1, <2>2, PutKeeps
    <2>3. CASE puts' = puts /\ Answers(c, "error")
      <3>1. Types'
        BY <1>0, <2>1, <2>3 DEF Types, Servers
      <3>2. Quiet(c)
        BY <1>0, <2>1, <2>3 DEF Types, Quiet
      <3> QED
        BY <3>1, <3>2, ServerKeeps
    <2> HIDE DEF Answers
    <2> QED
      BY <1>5, <2>2, <2>3 DEF UpdatePut
  <1>6. CASE DeleteRow(c)
    <2>1. Types'
      BY <1>0, <1>6 DEF DeleteRow, Types, Servers
    <2>2. Quiet(c)
      BY <1>0, <1>6 DEF DeleteRow, Types, Quiet
    <2> QED
      BY <2>1, <2>2, ServerKeeps
  <1>7. CASE DeleteKey(c)
    <2>1. Types'
      BY <1>0, <1>7 DEF DeleteKey, Types, Servers
    <2>2. Quiet(c)
      BY <1>0, <1>7 DEF DeleteKey, Types, Quiet
    <2> QED
      BY <2>1, <2>2, ServerKeeps
  <1> QED
    BY <1>1, <1>2, <1>3, <1>4, <1>5, <1>6, <1>7

(* Every step keeps the invariant. *)
LEMMA InvNext == Inv /\ [Next]_vars => Inv'
  <1> SUFFICES ASSUME Inv, [Next]_vars PROVE Inv'
    OBVIOUS
  <1>1. CASE UNCHANGED vars
    BY <1>1 DEF vars, Inv, Types, Unsent, PutOnce, OkIsDone, EarlierIsOver, Ordered, InOrderOf, Put
  <1>2. ASSUME NEW c \in Call, NEW u \in Client,
               CallUpdate(u, c) \/ CallDelete(u, c) \/ CallList(u, c) \/ CallGet(u, c)
        PROVE  Inv'
    BY <1>2, SendKeeps DEF CallUpdate, CallDelete, CallList, CallGet
  <1>3. ASSUME NEW c \in Call, Hear(c) \/ GivesUp(c) PROVE Inv'
    BY <1>3, ClientKeeps
  <1>4. ASSUME NEW c \in Call,
               \/ List(c) \/ Get(c) \/ UpdateFinds(c) \/ UpdateRow(c) \/ UpdatePut(c)
               \/ DeleteRow(c) \/ DeleteKey(c)
        PROVE  Inv'
    BY <1>4, HandlersKeep
  <1> QED
    BY <1>1, <1>2, <1>3, <1>4 DEF Next

(* The invariant holds in every behaviour of the API. *)
THEOREM InvHolds == Spec => []Inv
  BY InvInit, InvNext, PTL DEF Spec

(* A call that was put has one position, so choosing one is no choice. *)
LEMMA PositionIs ==
  ASSUME Inv, NEW c \in Call, Put(c)
  PROVE  Position(c) \in 1 .. Len(puts) /\ puts[Position(c)] = c
  BY DEF Position, Put

(* An Update that a client was told is done is in etcd; the lists the client *)
(* asks for later show it or a later value, and its later Updates come later *)
(* in etcd (Service.Update puts before it answers).                          *)
THEOREM AcknowledgedSeen == Spec => []AcknowledgedIsSeen
  <1>1. ASSUME Inv PROVE AcknowledgedIsSeen
    <2> SUFFICES ASSUME NEW c \in Call, NEW d \in earlier[c], what[d] = "update", client[d] = "ok"
                 PROVE  /\ Put(d)
                        /\ what[c] = "list" /\ client[c] = "ok" => answer[c] >= Position(d)
                        /\ what[c] = "update" /\ Put(c) => Position(c) > Position(d)
      BY DEF AcknowledgedIsSeen
    <2>1. d \in Call
      BY <1>1 DEF Inv, Types
    <2>2. Put(d)
      BY <1>1, <2>1 DEF Inv, OkIsDone
    <2>3. Position(d) \in 1 .. Len(puts) /\ puts[Position(d)] = d
      BY <1>1, <2>1, <2>2, PositionIs
    <2>4. InOrderOf(c, d)
      BY <1>1 DEF Inv, Ordered
    <2>5. what[c] = "list" /\ client[c] = "ok" => answer[c] >= Position(d)
      BY <1>1, <2>3, <2>4 DEF InOrderOf, Inv, OkIsDone
    <2>6. ASSUME Put(c) PROVE Position(c) > Position(d)
      <3>1. Position(c) \in 1 .. Len(puts) /\ puts[Position(c)] = c
        BY <1>1, <2>6, PositionIs
      <3> QED
        BY <2>3, <2>4, <3>1 DEF InOrderOf
    <2> QED
      BY <2>2, <2>5, <2>6
  <1> QED
    BY <1>1, InvHolds, PTL
=============================================================================

---------------------------- MODULE FactoryProofs ----------------------------
(***************************************************************************)
(* Proofs about Factory for any goroutines, any keys and any number of     *)
(* informers: each informer is run once at most, there is one for each     *)
(* key, and a wait that answers true has waited for those its caller uses. *)
(***************************************************************************)
EXTENDS Factory, TLAPS

(* The map has one informer for each key. *)
OneEach == \A j, k \in Key : informers[j] = informers[k] /\ informers[k] # 0 => j = k

(* Informers are numbered as they are made. *)
MadeOK == \A i \in Id : (life[i] = "none" <=> i > made) /\ (i > made => runs[i] = 0)

(* A key is started when its informer is. *)
StartedOK ==
    \A k \in Key :
        /\ k \in started => informers[k] # 0 /\ life[informers[k]] # "new"
        /\ k \notin started /\ informers[k] # 0 =>
               life[informers[k]] = "new" /\ runs[informers[k]] = 0

(* What a caller uses is in the map, and a wait has it ahead or has seen it  *)
(* synced.                                                                   *)
HeldOK ==
    \A c \in Caller, k \in Key : \A i \in {got[c][k], hears[c][k]} \ {0} :
        /\ i = informers[k]
        /\ wait[c] = "waiting" => i \in waitsFor[c] \/ HasSynced(i)
        /\ wait[c] = "true" => HasSynced(i)

MapType ==
    /\ informers \in [Key -> 0 .. made] /\ made \in 0 .. MaxInformers
    /\ started \in SUBSET Key
    /\ runs \in [Id -> 0 .. 1] /\ life \in [Id -> Lives]

CallerType ==
    /\ got \in [Caller -> [Key -> 0 .. made]] /\ hears \in [Caller -> [Key -> 0 .. made]]
    /\ wait \in [Caller -> {"idle", "waiting", "true", "false"}]
    /\ waitsFor \in [Caller -> SUBSET Id]

MapInv == MapType /\ OneEach /\ MadeOK /\ StartedOK

IInv == MapInv /\ CallerType /\ HeldOK /\ cancelled \in BOOLEAN

----------------------------------------------------------------------------
(* The bound is a number, and informers in the map are among those made. *)
LEMMA Numbers ==
    ASSUME MapType
    PROVE  /\ MaxInformers \in Nat /\ made \in Nat /\ 0 .. made \subseteq 0 .. MaxInformers
           /\ \A k \in Key : informers[k] \in 0 .. made /\ (informers[k] # 0 => informers[k] \in Id)
  BY FactoryAssumption DEF MapType, Id

(* At the start nothing is made and nobody waits. *)
LEMMA InvInit == Init => IInv
<1> SUFFICES ASSUME Init PROVE IInv
  OBVIOUS
<1>1. MapType
  BY FactoryAssumption DEF Init, MapType, Id, Lives
<1>2. OneEach /\ MadeOK /\ StartedOK
  BY FactoryAssumption DEF Init, OneEach, MadeOK, StartedOK, Id
<1>3. got \in [Caller -> [Key -> 0 .. made]] /\ hears \in [Caller -> [Key -> 0 .. made]]
  BY DEF Init
<1>4. CallerType
  BY <1>3 DEF Init, CallerType
<1>5. HeldOK
  BY DEF Init, HeldOK
<1>6. cancelled \in BOOLEAN
  BY DEF Init
<1> QED
  BY <1>1, <1>2, <1>4, <1>5, <1>6 DEF IInv, MapInv

----------------------------------------------------------------------------
(* An informer is found, or made and put into the map. *)
LEMMA InformerOfStep ==
    ASSUME IInv, NEW k \in Key, InformerOf(k), UNCHANGED <<started, runs>>
    PROVE  /\ MapInv' /\ 0 .. made \subseteq 0 .. made' /\ informers'[k] \in 1 .. made'
           /\ \A j \in Key : informers[j] # 0 => informers'[j] = informers[j]
           /\ \A i \in 1 .. made : life'[i] = life[i]
<1> USE DEF IInv, MapInv
<1>1. CASE informers[k] # 0 /\ UNCHANGED <<informers, made, life>>
  BY <1>1, Numbers DEF MapType, OneEach, MadeOK, StartedOK, Id
<1>2. CASE informers[k] = 0 /\ MakeInformer(k)
  <2>1. /\ made + 1 \in Id /\ made' = made + 1 /\ made \in Nat
        /\ informers' = [informers EXCEPT ![k] = made + 1]
        /\ life' = [life EXCEPT ![made + 1] = "new"]
    BY <1>2, Numbers DEF MakeInformer, MapType, Id
  <2>2. \A j \in Key : informers'[j] = IF j = k THEN made + 1 ELSE informers[j]
    BY <2>1 DEF MapType
  <2>3. \A i \in Id : life'[i] = IF i = made + 1 THEN "new" ELSE life[i]
    BY <2>1 DEF MapType
  <2>4. \A j \in Key : informers[j] \in 0 .. made /\ (informers[j] # 0 => informers[j] \in Id)
    BY Numbers
  <2>5. MapType'
    <3>1. informers' \in [Key -> 0 .. made']
      BY <2>1, <2>4 DEF MapType
    <3>2. life' \in [Id -> Lives]
      BY <2>1 DEF MapType, Lives
    <3>3. made' \in 0 .. MaxInformers
      BY <2>1, FactoryAssumption DEF Id
    <3> QED
      BY <3>1, <3>2, <3>3 DEF MapType, Id
  <2>6. OneEach'
    BY <2>1, <2>2, <2>4 DEF OneEach
  <2>7. MadeOK'
    <3> SUFFICES ASSUME NEW i \in Id
                 PROVE  (life'[i] = "none" <=> i > made') /\ (i > made' => runs[i] = 0)
      BY DEF MadeOK, Id
    <3>1. i \in Nat /\ (life[i] = "none" <=> i > made) /\ (i > made => runs[i] = 0)
      BY DEF MadeOK, Id
    <3> QED
      BY <2>1, <2>3, <3>1
  <2>8. StartedOK'
    <3> SUFFICES ASSUME NEW j \in Key
                 PROVE  /\ j \in started => informers'[j] # 0 /\ life'[informers'[j]] # "new"
                        /\ j \notin started /\ informers'[j] # 0 =>
                               life'[informers'[j]] = "new" /\ runs[informers'[j]] = 0
      BY DEF StartedOK
    <3>1. CASE j = k
      <4>1. k \notin started
        BY <1>2 DEF StartedOK
      <4>2. informers'[j] = made + 1 /\ life'[made + 1] = "new"
        BY <2>1, <2>2, <2>3, <3>1
      <4>3. runs[made + 1] = 0
        BY <2>1 DEF MadeOK
      <4> QED
        BY <3>1, <4>1, <4>2, <4>3
    <3>2. CASE j # k
      <4>1. informers'[j] = informers[j] /\ informers[j] \in 0 .. made
        BY <2>2, <2>4, <3>2
      <4>2. informers[j] # 0 => life'[informers[j]] = life[informers[j]]
        BY <2>1, <2>3, <2>4, <4>1
      <4> QED
        BY <4>1, <4>2 DEF StartedOK
    <3> QED
      BY <3>1, <3>2
  <2>9. \A i \in 1 .. made : life'[i] = life[i]
    BY <2>1, <2>3 DEF Id
  <2>10. \A j \in Key : informers[j] # 0 => informers'[j] = informers[j]
    BY <1>2, <2>2
  <2>11. informers'[k] \in 1 .. made'
    BY <2>1, <2>2
  <2>12. 0 .. made \subseteq 0 .. made'
    BY <2>1
  <2> QED
    BY <2>5, <2>6, <2>7, <2>8, <2>9, <2>10, <2>11, <2>12
<1> QED
  BY <1>1, <1>2 DEF InformerOf

(* GetInformer and AddEventHandler: the caller is idle, and what it gets is  *)
(* the informer of the key.                                                  *)
LEMMA ObtainStep ==
    ASSUME IInv, NEW c \in Caller, NEW k \in Key, GetInformer(c, k) \/ AddEventHandler(c, k)
    PROVE  IInv'
<1>1. InformerOf(k) /\ wait[c] = "idle" /\ UNCHANGED <<started, runs, wait, waitsFor, cancelled>>
  BY DEF GetInformer, AddEventHandler
<1>2. /\ MapInv' /\ 0 .. made \subseteq 0 .. made' /\ informers'[k] \in 1 .. made'
      /\ \A j \in Key : informers[j] # 0 => informers'[j] = informers[j]
      /\ \A i \in 1 .. made : life'[i] = life[i]
  BY <1>1, InformerOfStep
<1>3. CallerType
  BY DEF IInv
<1>4. got' = got \/ got' = [got EXCEPT ![c][k] = informers'[k]]
  BY DEF GetInformer, AddEventHandler
<1>5. hears' = hears \/ hears' = [hears EXCEPT ![c][k] = informers'[k]]
  BY DEF GetInformer, AddEventHandler
<1>6. got' \in [Caller -> [Key -> 0 .. made']] /\ hears' \in [Caller -> [Key -> 0 .. made']]
  <2>1. \A f \in [Caller -> [Key -> 0 .. made]] : f \in [Caller -> [Key -> 0 .. made']]
    BY <1>2
  <2>2. informers'[k] \in 0 .. made'
    BY <1>2
  <2>3. got \in [Caller -> [Key -> 0 .. made']] /\ hears \in [Caller -> [Key -> 0 .. made']]
    BY <1>3, <2>1 DEF CallerType
  <2>4. got' \in [Caller -> [Key -> 0 .. made']]
    BY <1>4, <2>2, <2>3
  <2>5. hears' \in [Caller -> [Key -> 0 .. made']]
    BY <1>5, <2>2, <2>3
  <2> QED
    BY <2>4, <2>5
<1>7. CallerType'
  BY <1>1, <1>3, <1>6 DEF CallerType, Id
<1>8. \A d \in Caller, j \in Key :
          /\ got'[d][j] \in {got[d][j]} \cup IF d = c /\ j = k THEN {informers'[k]} ELSE {}
          /\ hears'[d][j] \in {hears[d][j]} \cup IF d = c /\ j = k THEN {informers'[k]} ELSE {}
  BY <1>3, <1>4, <1>5 DEF CallerType
<1>9. ASSUME NEW d \in Caller, NEW j \in Key, NEW i \in {got'[d][j], hears'[d][j]} \ {0}
      PROVE  /\ i = informers'[j]
             /\ wait'[d] = "waiting" => i \in waitsFor'[d] \/ HasSynced(i)'
             /\ wait'[d] = "true" => HasSynced(i)'
  <2>1. CASE i \in {got[d][j], hears[d][j]}
    <3>1. /\ i = informers[j]
          /\ wait[d] = "waiting" => i \in waitsFor[d] \/ HasSynced(i)
          /\ wait[d] = "true" => HasSynced(i)
      BY <2>1, <1>9 DEF IInv, HeldOK
    <3>2. i \in 1 .. made
      BY <3>1, <1>9, Numbers DEF IInv, MapInv
    <3>3. informers'[j] = i /\ life'[i] = life[i]
      BY <1>2, <3>1, <3>2, <1>9
    <3> QED
      BY <1>1, <3>1, <3>3 DEF HasSynced
  <2>2. CASE d = c /\ j = k /\ i = informers'[k]
    BY <1>1, <2>2
  <2> QED
    BY <1>8, <1>9, <2>1, <2>2
<1>10. HeldOK'
  BY <1>9 DEF HeldOK
<1>11. cancelled' \in BOOLEAN
  BY <1>1 DEF IInv
<1> QED
  BY <1>2, <1>7, <1>10, <1>11 DEF IInv

----------------------------------------------------------------------------
(* Start runs the informers whose keys have not been started. *)
LEMMA StartStep == ASSUME IInv, NEW c \in Caller, Start(c) PROVE IInv'
<1> DEFINE ids == {informers[k] : k \in Fresh}
<1>1. /\ runs' = [i \in Id |-> IF i \in ids THEN runs[i] + 1 ELSE runs[i]]
      /\ life' = [i \in Id |-> IF i \in ids THEN "listing" ELSE life[i]]
      /\ started' = started \cup Fresh
      /\ UNCHANGED <<informers, made, got, hears, wait, waitsFor, cancelled>>
  BY DEF Start, StartGoroutines
<1> HIDE DEF ids
<1>2. MapType /\ OneEach /\ MadeOK /\ StartedOK /\ CallerType /\ HeldOK
  BY DEF IInv, MapInv
<1>3. \A i \in ids : i \in Id /\ runs[i] = 0 /\ life[i] = "new"
  BY <1>2, Numbers DEF ids, Fresh, StartedOK
<1>4. \A k \in Key : informers[k] # 0 => (informers[k] \in ids <=> k \in Fresh)
  BY <1>2 DEF ids, Fresh, OneEach
<1>5. MapType'
  <2>1. runs' \in [Id -> 0 .. 1]
    BY <1>1, <1>2, <1>3 DEF MapType
  <2>2. life' \in [Id -> Lives]
    BY <1>1, <1>2 DEF MapType, Lives
  <2>3. started' \in SUBSET Key
    BY <1>1, <1>2 DEF MapType, Fresh
  <2> QED
    BY <1>1, <1>2, <2>1, <2>2, <2>3 DEF MapType, Id
<1>6. MadeOK'
  <2> SUFFICES ASSUME NEW i \in Id
               PROVE  (life'[i] = "none" <=> i > made) /\ (i > made => runs'[i] = 0)
    BY <1>1 DEF MadeOK, Id
  <2>1. (life[i] = "none" <=> i > made) /\ (i > made => runs[i] = 0)
    BY <1>2 DEF MadeOK
  <2> QED
    BY <1>1, <1>3, <2>1
<1>7. StartedOK'
  <2> SUFFICES ASSUME NEW k \in Key
               PROVE  /\ k \in started' => informers[k] # 0 /\ life'[informers[k]] # "new"
                      /\ k \notin started' /\ informers[k] # 0 =>
                             life'[informers[k]] = "new" /\ runs'[informers[k]] = 0
    BY <1>1 DEF StartedOK
  <2>1. informers[k] # 0 => informers[k] \in Id
    BY <1>2, Numbers
  <2>2. CASE k \in Fresh
    <3>1. informers[k] # 0 /\ informers[k] \in ids
      BY <1>4, <2>2 DEF Fresh
    <3> QED
      BY <1>1, <2>1, <2>2, <3>1
  <2>3. CASE k \notin Fresh
    <3>1. k \in started' <=> k \in started
      BY <1>1, <2>3
    <3>2. informers[k] # 0 => life'[informers[k]] = life[informers[k]] /\ runs'[informers[k]] = runs[informers[k]]
      BY <1>1, <1>4, <2>1, <2>3
    <3> QED
      BY <1>2, <3>1, <3>2 DEF StartedOK
  <2> QED
    BY <2>2, <2>3
<1>8. \A i \in Id : HasSynced(i) => HasSynced(i)'
  BY <1>1, <1>3 DEF HasSynced
<1>9. HeldOK'
  <2>1. \A k \in Key : informers[k] # 0 => informers[k] \in Id
    BY <1>2, Numbers
  <2> QED
    BY <1>1, <1>2, <1>8, <2>1 DEF HeldOK
<1>10. OneEach' /\ CallerType' /\ cancelled' \in BOOLEAN
  BY <1>1, <1>2 DEF OneEach, CallerType, Id, IInv
<1> QED
  BY <1>5, <1>6, <1>7, <1>9, <1>10 DEF IInv, MapInv

(* Run of an informer changes its life after the start; what has synced      *)
(* stays so.                                                                 *)
LEMMA LifeStep ==
    ASSUME IInv, NEW i \in Id, Sync(i) \/ Fail(i) \/ StopInformer(i)
    PROVE  IInv'
<1>1. /\ life[i] \in {"listing", "synced"} /\ UNCHANGED <<informers, made, started, runs>>
      /\ UNCHANGED <<got, hears, wait, waitsFor, cancelled>>
  BY DEF Sync, Fail, StopInformer
<1>2. PICK new \in {"synced", "failed", "stopped"} :
          life' = [life EXCEPT ![i] = new] /\ (life[i] = "synced" => new = "stopped")
  BY DEF Sync, Fail, StopInformer
<1>3. MapType /\ OneEach /\ MadeOK /\ StartedOK /\ CallerType /\ HeldOK
  BY DEF IInv, MapInv
<1>4. \A j \in Id : life'[j] = IF j = i THEN new ELSE life[j]
  BY <1>2, <1>3 DEF MapType
<1>5. MapType'
  <2>1. life' \in [Id -> Lives]
    BY <1>2, <1>3 DEF MapType, Lives
  <2> QED
    BY <1>1, <1>3, <2>1 DEF MapType, Id
<1>6. MadeOK'
  BY <1>1, <1>3, <1>4 DEF MadeOK, Id
<1>7. \A k \in Key : informers[k] # 0 => informers[k] \in Id
  BY <1>3, Numbers
<1>8. StartedOK'
  BY <1>1, <1>3, <1>4, <1>7 DEF StartedOK
<1>9. \A j \in Id : HasSynced(j) => HasSynced(j)'
  BY <1>1, <1>2, <1>4 DEF HasSynced
<1>10. HeldOK'
  BY <1>1, <1>3, <1>7, <1>9 DEF HeldOK
<1>11. OneEach' /\ CallerType' /\ cancelled' \in BOOLEAN
  BY <1>1, <1>3 DEF OneEach, CallerType, Id, IInv
<1> QED
  BY <1>5, <1>6, <1>8, <1>10, <1>11 DEF IInv, MapInv

----------------------------------------------------------------------------
(* WaitForCacheSync begins with all informers of the map, takes one off when *)
(* it has synced, and answers true when none is left.                        *)
LEMMA WaitStep ==
    ASSUME IInv, NEW c \in Caller, CopyInformers(c) \/ Tick(c) \/ GiveUp(c) \/ Return(c)
    PROVE  IInv'
<1>1. UNCHANGED <<informers, made, started, runs, life, got, hears, cancelled>>
  BY DEF CopyInformers, Tick, GiveUp, Return
<1>2. MapType /\ OneEach /\ MadeOK /\ StartedOK /\ CallerType /\ HeldOK
  BY DEF IInv, MapInv
<1>3. MapType' /\ OneEach' /\ MadeOK' /\ StartedOK'
  BY <1>1, <1>2 DEF MapType, OneEach, MadeOK, StartedOK, Id
<1>4. \A j \in Id : HasSynced(j)' <=> HasSynced(j)
  BY <1>1 DEF HasSynced
<1>5. \A k \in Key : informers[k] # 0 => informers[k] \in Id
  BY <1>2, Numbers
<1>6. \A d \in Caller \ {c} : wait'[d] = wait[d] /\ waitsFor'[d] = waitsFor[d]
  BY <1>2 DEF CallerType, CopyInformers, Tick, GiveUp, Return
<1>7. wait' \in [Caller -> {"idle", "waiting", "true", "false"}]
  BY <1>2 DEF CallerType, CopyInformers, Tick, GiveUp, Return
<1>8. waitsFor' \in [Caller -> SUBSET Id]
  <2>1. \A k \in Key : informers[k] \in Id \cup {0}
    BY <1>5
  <2>2. {informers[k] : k \in Key} \ {0} \in SUBSET Id
    BY <2>1
  <2>3. CASE waitsFor' = [waitsFor EXCEPT ![c] = {informers[k] : k \in Key} \ {0}]
    BY <1>2, <2>2, <2>3 DEF CallerType
  <2>4. CASE \E i \in waitsFor[c] : waitsFor' = [waitsFor EXCEPT ![c] = waitsFor[c] \ {i}]
    BY <1>2, <2>4 DEF CallerType
  <2>5. CASE waitsFor' = [waitsFor EXCEPT ![c] = {}] \/ waitsFor' = waitsFor
    BY <1>2, <2>5 DEF CallerType
  <2> QED
    BY <2>3, <2>4, <2>5 DEF CopyInformers, Tick, GiveUp, Return
<1>9. ASSUME NEW i \in Id, NEW k \in Key, i = informers[k], i # 0,
             wait[c] = "waiting" => i \in waitsFor[c] \/ HasSynced(i)
      PROVE  /\ wait'[c] = "waiting" => i \in waitsFor'[c] \/ HasSynced(i)
             /\ wait'[c] = "true" => HasSynced(i)
  <2>1. CASE CopyInformers(c)
    BY <1>2, <1>9, <2>1 DEF CopyInformers, CallerType
  <2>2. CASE Tick(c)
    BY <1>2, <1>9, <2>2 DEF Tick, CallerType
  <2>3. CASE GiveUp(c) \/ Return(c)
    BY <1>2, <1>9, <2>3 DEF GiveUp, Return, CallerType
  <2> QED
    BY <2>1, <2>2, <2>3
<1>10. HeldOK'
  <2> SUFFICES ASSUME NEW d \in Caller, NEW k \in Key, NEW i \in {got[d][k], hears[d][k]} \ {0}
               PROVE  /\ i = informers[k]
                      /\ wait'[d] = "waiting" => i \in waitsFor'[d] \/ HasSynced(i)'
                      /\ wait'[d] = "true" => HasSynced(i)'
    BY <1>1 DEF HeldOK
  <2>1. /\ i = informers[k]
        /\ wait[d] = "waiting" => i \in waitsFor[d] \/ HasSynced(i)
        /\ wait[d] = "true" => HasSynced(i)
    BY <1>2 DEF HeldOK
  <2>2. i \in Id
    BY <1>5, <2>1
  <2> QED
    BY <1>4, <1>6, <1>9, <2>1, <2>2
<1> QED
  BY <1>1, <1>2, <1>3, <1>7, <1>8, <1>10 DEF IInv, MapInv, CallerType

(* Nothing of the factory changes with the context. *)
LEMMA OtherStep == ASSUME IInv, Cancel \/ UNCHANGED vars PROVE IInv'
<1>1. UNCHANGED <<informers, made, started, runs, life, got, hears, wait, waitsFor>>
  BY DEF Cancel, vars
<1>2. cancelled' \in BOOLEAN
  BY DEF Cancel, vars, IInv
<1>3. MapInv'
  BY <1>1 DEF IInv, MapInv, MapType, OneEach, MadeOK, StartedOK, Id
<1>4. CallerType' /\ HeldOK'
  BY <1>1 DEF IInv, CallerType, HeldOK, HasSynced, Id
<1> QED
  BY <1>2, <1>3, <1>4 DEF IInv

(* Each step keeps the invariant. *)
LEMMA InvNext == IInv /\ [Next]_vars => IInv'
<1> SUFFICES ASSUME IInv, [Next]_vars PROVE IInv'
  OBVIOUS
<1>1. ASSUME NEW c \in Caller, NEW k \in Key, GetInformer(c, k) \/ AddEventHandler(c, k) PROVE IInv'
  BY <1>1, ObtainStep
<1>2. ASSUME NEW c \in Caller, Start(c) PROVE IInv'
  BY <1>2, StartStep
<1>3. ASSUME NEW c \in Caller, CopyInformers(c) \/ Waiting(c) \/ Return(c) PROVE IInv'
  BY <1>3, WaitStep DEF Waiting
<1>4. ASSUME NEW i \in Id, InformerStep(i) \/ StopInformer(i) PROVE IInv'
  BY <1>4, LifeStep DEF InformerStep
<1>5. CASE Cancel \/ UNCHANGED vars
  BY <1>5, OtherStep
<1> QED
  BY <1>1, <1>2, <1>3, <1>4, <1>5 DEF Next

----------------------------------------------------------------------------
(* The invariant holds in every run. *)
THEOREM InvHolds == Spec => []IInv
  BY InvInit, InvNext, PTL DEF Spec

(* Every variable keeps its type; in particular, Start runs no informer a    *)
(* second time, whoever calls it how often (TypeOK).                         *)
THEOREM TypeCorrect == Spec => []TypeOK
<1>1. IInv => TypeOK
  BY DEF IInv, MapInv, MapType, CallerType, TypeOK
<1> QED
  BY <1>1, InvHolds, PTL

(* Whoever has asked for a key uses the one informer of the key, which is    *)
(* the one that Start runs, and a wait that answered true has seen it synced *)
(* (WaitMeansSynced).                                                        *)
THEOREM TrueMeansSynced == Spec => []WaitMeansSynced
<1>1. IInv => WaitMeansSynced
  BY DEF IInv, MapInv, StartedOK, HeldOK, WaitMeansSynced
<1> QED
  BY <1>1, InvHolds, PTL
=============================================================================

------------------------------- MODULE Factory --------------------------------
(***************************************************************************)
(* The factory of informers (client_pipe/informers/factory.go): goroutines *)
(* of one program ask it for informers, start those it has, and wait until *)
(* they have synced. GetInformer and Start run under the lock of the       *)
(* factory; WaitForCacheSync copies the map under it and polls without.    *)
(*                                                                         *)
(* Of an informer this module keeps how far its Run is (module Informer).  *)
(***************************************************************************)
EXTENDS Naturals, FiniteSets

CONSTANTS
    Caller,     \* goroutines
    Key,        \* pairs of a namespace and a kind
    MaxInformers \* bound: informers made

ASSUME FactoryAssumption == IsFiniteSet(Key) /\ MaxInformers \in Nat

VARIABLES
    informers,  \* informer of each key, a number, or 0
    made,       \* number of informers made
    started,    \* startedInformers
    runs,       \* goroutines started for each informer
    life,       \* of each informer
    got,        \* what GetInformer has returned to each caller
    hears,      \* the informer that has a handler of the caller for the key, or 0
    wait,       \* control of WaitForCacheSync of each caller
    waitsFor,   \* informers it has still to wait for
    cancelled   \* the context given to Start and WaitForCacheSync is done

vars == <<informers, made, started, runs, life, got, hears, wait, waitsFor, cancelled>>

Id == 1 .. MaxInformers
Lives == {"none", "new", "listing", "synced", "failed", "stopped"}

(* HasSynced: the flag stays when the informer stops. *)
HasSynced(i) == life[i] \in {"synced", "stopped"}

Init ==
    /\ informers = [k \in Key |-> 0] /\ made = 0 /\ started = {}
    /\ runs = [i \in Id |-> 0] /\ life = [i \in Id |-> "none"]
    /\ got = [c \in Caller |-> [k \in Key |-> 0]] /\ hears = got
    /\ wait = [c \in Caller |-> "idle"] /\ waitsFor = [c \in Caller |-> {}]
    /\ cancelled = FALSE

----------------------------------------------------------------------------
(* GetInformer: found in the map, or made and put there, under the lock. The *)
(* two adapters around it pass every call on.                                *)

MakeInformer(k) ==
    /\ made < MaxInformers /\ made' = made + 1
    /\ informers' = [informers EXCEPT ![k] = made']
    /\ life' = [life EXCEPT ![made'] = "new"]

(* AlwaysMakes, StartsAll and RunsTheLast are defects the code could have. *)
AlwaysMakes(k) == MakeInformer(k)

InformerOf(k) ==
    \/ informers[k] = 0 /\ MakeInformer(k)
    \/ informers[k] # 0 /\ UNCHANGED <<informers, made, life>>

GetInformer(c, k) ==
    /\ wait[c] = "idle" /\ InformerOf(k)
    /\ got' = [got EXCEPT ![c][k] = informers'[k]]
    /\ UNCHANGED <<started, runs, hears, wait, waitsFor, cancelled>>

(* NodeExecs().V1().NodeExecs(namespace, kind).AddEventHandler *)
AddEventHandler(c, k) ==
    /\ wait[c] = "idle" /\ InformerOf(k)
    /\ hears' = [hears EXCEPT ![c][k] = informers'[k]]
    /\ UNCHANGED <<started, runs, got, wait, waitsFor, cancelled>>

----------------------------------------------------------------------------
StartsAll == {k \in Key : informers[k] # 0}

Fresh == {k \in Key : informers[k] # 0 /\ k \notin started}

RunsTheLast(keys) ==
    \E k \in keys :
        /\ runs' = [runs EXCEPT ![informers[k]] = @ + 1]
        /\ life' = [life EXCEPT ![informers[k]] = "listing"]

StartGoroutines(keys) ==
    LET ids == {informers[k] : k \in keys} IN
    /\ runs' = [i \in Id |-> IF i \in ids THEN runs[i] + 1 ELSE runs[i]]
    /\ life' = [i \in Id |-> IF i \in ids THEN "listing" ELSE life[i]]

(* Each key is passed to its goroutine; the loop variable is not shared. *)
Start(c) ==
    /\ wait[c] = "idle" /\ Fresh # {}
    /\ StartGoroutines(Fresh) /\ started' = started \cup Fresh
    /\ UNCHANGED <<informers, made, got, hears, wait, waitsFor, cancelled>>

----------------------------------------------------------------------------
(* Run of an informer: it syncs or its first list fails, and it stops with   *)
(* the context. A key that has failed stays started.                         *)

Sync(i) ==
    /\ life[i] = "listing" /\ life' = [life EXCEPT ![i] = "synced"]
    /\ UNCHANGED <<informers, made, started, runs, got, hears, wait, waitsFor, cancelled>>

Fail(i) ==
    /\ life[i] = "listing" /\ life' = [life EXCEPT ![i] = "failed"]
    /\ UNCHANGED <<informers, made, started, runs, got, hears, wait, waitsFor, cancelled>>

StopInformer(i) ==
    /\ cancelled /\ life[i] = "synced" /\ life' = [life EXCEPT ![i] = "stopped"]
    /\ UNCHANGED <<informers, made, started, runs, got, hears, wait, waitsFor, cancelled>>

----------------------------------------------------------------------------
(* WaitForCacheSync *)

CopyInformers(c) ==
    /\ wait[c] = "idle" /\ wait' = [wait EXCEPT ![c] = "waiting"]
    /\ waitsFor' = [waitsFor EXCEPT ![c] = {informers[k] : k \in Key} \ {0}]
    /\ UNCHANGED <<informers, made, started, runs, life, got, hears, cancelled>>

(* The ticks of one informer after the other. *)
Tick(c) ==
    /\ wait[c] = "waiting"
    /\ \/ /\ \E i \in waitsFor[c] :
                HasSynced(i) /\ waitsFor' = [waitsFor EXCEPT ![c] = @ \ {i}]
          /\ UNCHANGED wait
       \/ waitsFor[c] = {} /\ wait' = [wait EXCEPT ![c] = "true"] /\ UNCHANGED waitsFor
    /\ UNCHANGED <<informers, made, started, runs, life, got, hears, cancelled>>

GiveUp(c) ==
    /\ wait[c] = "waiting" /\ waitsFor[c] # {} /\ cancelled
    /\ wait' = [wait EXCEPT ![c] = "false"]
    /\ UNCHANGED <<informers, made, started, runs, life, got, hears, waitsFor, cancelled>>

Return(c) ==
    /\ wait[c] \in {"true", "false"} /\ wait' = [wait EXCEPT ![c] = "idle"]
    /\ waitsFor' = [waitsFor EXCEPT ![c] = {}]
    /\ UNCHANGED <<informers, made, started, runs, life, got, hears, cancelled>>

Cancel ==
    /\ ~cancelled /\ cancelled' = TRUE
    /\ UNCHANGED <<informers, made, started, runs, life, got, hears, wait, waitsFor>>

----------------------------------------------------------------------------
InformerStep(i) == Sync(i) \/ Fail(i)
Waiting(c) == Tick(c) \/ GiveUp(c)

Next ==
    \/ \E c \in Caller :
          \/ \E k \in Key : GetInformer(c, k) \/ AddEventHandler(c, k)
          \/ Start(c) \/ CopyInformers(c) \/ Waiting(c) \/ Return(c)
    \/ \E i \in Id : InformerStep(i) \/ StopInformer(i)
    \/ Cancel

Spec == Init /\ [][Next]_vars

(* The list of a started informer is answered or fails (the timeout of the   *)
(* HTTP client); the ticker ticks. Nobody has to call or to cancel.          *)
FairSpec ==
    /\ Spec
    /\ \A i \in Id : WF_vars(InformerStep(i))
    /\ \A c \in Caller : WF_vars(Waiting(c))

----------------------------------------------------------------------------
(* Properties. *)

(* Every variable has its type, and no informer is run twice (Start).        *)
TypeOK ==
    /\ informers \in [Key -> 0 .. made] /\ made \in 0 .. MaxInformers
    /\ started \in SUBSET Key
    /\ runs \in [Id -> 0 .. 1] /\ life \in [Id -> Lives]
    /\ got \in [Caller -> [Key -> 0 .. made]] /\ hears \in [Caller -> [Key -> 0 .. made]]
    /\ wait \in [Caller -> {"idle", "waiting", "true", "false"}]
    /\ waitsFor \in [Caller -> SUBSET Id]
    /\ cancelled \in BOOLEAN

(* Whoever has asked for a key holds the one informer of the key, its        *)
(* handlers are with that informer, and it is the one that Start runs: a     *)
(* wait that answered true has seen it synced if it was asked for before     *)
(* (GetInformer, AddEventHandler, Start, WaitForCacheSync).                  *)
WaitMeansSynced ==
    \A c \in Caller, k \in Key : \A i \in {got[c][k], hears[c][k]} \ {0} :
        /\ i = informers[k]
        /\ life[i] # "new" => k \in started
        /\ wait[c] = "true" => HasSynced(i)

(* A wait ends, unless an informer it waits for was never started or failed  *)
(* its first list (waitForCacheSync).                                        *)
WaitEnds ==
    \A c \in Caller :
        \/ []<>(wait[c] # "waiting")
        \/ <>[](\E k \in Key : /\ informers[k] \in waitsFor[c]
                               /\ k \notin started \/ life[informers[k]] = "failed")

----------------------------------------------------------------------------
(* A wait ends without a cancellation: refuted by an informer that failed,   *)
(* which no later Start starts again (factory.go:95).                        *)
WaitAlwaysEnds == \A c \in Caller : []<>(wait[c] # "waiting")
=============================================================================

---------------------------- MODULE DagExecution ----------------------------
(***************************************************************************)
(* What an execution of a pipeline promises: a node starts only after the  *)
(* nodes it depends on succeeded, runs once, ends once, and the pipeline   *)
(* has one outcome, decided when every node has ended. The promise ends    *)
(* when a second attempt at a node begins: its event was delivered twice,  *)
(* or an operator that got no answer repeats its report.                   *)
(***************************************************************************)
CONSTANTS Node, Edge

VARIABLES
    state,    \* of each node
    outcome,  \* of the pipeline
    repeated  \* some node has had a second attempt

vars == <<state, outcome, repeated>>

State == {"waiting", "ready", "running", "succeeded", "failed"}
Preds(n) == {m \in Node : <<m, n>> \in Edge}

Init ==
    /\ state = [n \in Node |-> "waiting"]
    /\ outcome = "open"
    /\ repeated = FALSE

Startable ==
    {n \in Node : state[n] = "waiting" /\ \A m \in Preds(n) : state[m] = "succeeded"}

(* Nodes start together (those a pipeline begins with) or one by one. *)
Start(S) ==
    /\ S # {}
    /\ state' = [n \in Node |-> IF n \in S THEN "ready" ELSE state[n]]
    /\ UNCHANGED <<outcome, repeated>>

Execute(n) ==
    /\ state[n] = "ready"
    /\ state' = [state EXCEPT ![n] = "running"]
    /\ UNCHANGED <<outcome, repeated>>

End(n) ==
    /\ state[n] = "running"
    /\ \E s \in {"succeeded", "failed"} : state' = [state EXCEPT ![n] = s]
    /\ UNCHANGED <<outcome, repeated>>

Conclude ==
    /\ outcome = "open"
    /\ \A n \in Node : state[n] \in {"succeeded", "failed"}
    /\ outcome' = IF \E n \in Node : state[n] = "failed" THEN "failed" ELSE "succeeded"
    /\ UNCHANGED <<state, repeated>>

(* Nothing is promised from here on. *)
Repeat == repeated' = TRUE

Next ==
    \/ \E S \in SUBSET Startable : Start(S)
    \/ \E n \in Node : Execute(n) \/ End(n)
    \/ Conclude
    \/ Repeat

Spec == Init /\ [][Next]_vars
=============================================================================

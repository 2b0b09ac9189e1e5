----------------------------- MODULE MCPipeExec -----------------------------
(* Small graphs and deliveries for model checking PipeExec. *)
EXTENDS PipeExec

CONSTANTS build, test, scan, deploy

(* build -> (test, scan): every node waits for at most one other. *)
ForkEdge == {<<build, test>>, <<build, scan>>}
(* (build, test) -> deploy: a join of two independent nodes. *)
JoinEdge == {<<build, deploy>>, <<test, deploy>>}
(* build -> test; any other node is on no edge. *)
ChainEdge == {<<build, test>>}

GraphInDegree == [n \in Node |-> Cardinality(Preds(n))]
(* The client sent in_degree 1 for scan, which is on no edge. *)
IsolatedInDegree == [n \in Node |-> IF n = scan THEN 1 ELSE Cardinality(Preds(n))]

(* Each node's Ready event reaches one operator once. *)
OneEach == Node
Identity == [w \in Worker |-> w]

(* A second attempt at build: its event is delivered twice, or an operator  *)
(* that got no answer repeats its Update.                                   *)
TwiceBuild == (Node \X {1}) \cup {<<build, 2>>}
(* The same before the join; the event of the joined node is not taken up.  *)
TwiceBuildBefore == {<<build, 1>>, <<build, 2>>, <<test, 1>>}
First == [w \in Worker |-> w[1]]
=============================================================================

----------------------------- MODULE MCPipeCfg -----------------------------
(* Every graph of a few edges, for model checking PipeCfg. *)
EXTENDS PipeCfg

CONSTANTS build, test, deploy, MaxEdges

AllEdgeLists == UNION {[1 .. k -> Name \X Name] : k \in 0 .. MaxEdges}

Sent(name, degree) == [name |-> name, inDegree |-> degree]

(* All nodes, with in-degrees the client made up; one missing; one twice.   *)
SomeNodeLists ==
    {<<Sent(build, 0), Sent(test, 0), Sent(deploy, 1)>>,
     <<Sent(deploy, 2), Sent(build, 0)>>,
     <<Sent(build, 0), Sent(test, 1), Sent(build, 0), Sent(deploy, 0)>>}
=============================================================================

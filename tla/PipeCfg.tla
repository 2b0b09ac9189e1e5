------------------------------- MODULE PipeCfg -------------------------------
(***************************************************************************)
(* Create of service/pipe_cfg: a client's graph and nodes are checked, the *)
(* graph by the topological sort of service/graph, the nodes get the       *)
(* in-degree of their vertex, and both are stored in one transaction.      *)
(*                                                                         *)
(* The state is that of one call.                                          *)
(***************************************************************************)
EXTENDS Integers, Sequences, FiniteSets

CONSTANTS
    Name,        \* names of nodes and vertices
    EdgeLists,   \* graphs a client may send: sequences of <<From, To>>
    NodeLists,   \* node lists a client may send
    NoGraph      \* a pipeline without a graph

NodeCfg == [name : Name, inDegree : Nat]

ASSUME NameAssumption == IsFiniteSet(Name)
ASSUME EdgesAssumption == EdgeLists \subseteq Seq(Name \X Name)
ASSUME NodesAssumption == NodeLists \subseteq Seq(NodeCfg)

VARIABLES
    edges, nodes,  \* what the client sent; Create writes the in-degrees of nodes
    pc,
    reason,        \* why the call was refused
    remaining,     \* in-degrees of VertexMapForSort, counted down by the sort
    frontier,      \* initialVertices
    count, popped  \* how many vertices the sort popped, and which

vars == <<edges, nodes, pc, reason, remaining, frontier, count, popped>>
sortVars == <<remaining, frontier, count, popped>>

Final == {"created", "refused", "panicked"}
Pcs == {"unique", "vertices", "start", "sort", "assign", "store"} \cup Final

(* Extract: a vertex for each name on an edge; its in-degree counts edges,  *)
(* its successors (Vertex.Next) are a set.                                  *)
EdgesInto(v) == {k \in DOMAIN edges : edges[k][2] = v}
Vertices == {edges[k][1] : k \in DOMAIN edges} \cup {edges[k][2] : k \in DOMAIN edges}
Successors(v) == {w \in Name : \E k \in DOMAIN edges : edges[k] = <<v, w>>}

InDegree(v) == Cardinality(EdgesInto(v))

Init ==
    /\ edges \in EdgeLists \cup {NoGraph}
    /\ nodes \in NodeLists
    /\ pc = "unique" /\ reason = "none"
    /\ remaining = [v \in Name |-> 0] /\ frontier = {}
    /\ count = 0 /\ popped = {}

(* CountTwice, CountNothing and AcceptSorted are defects: what the          *)
(* definition after each might have been by mistake.                        *)
(* PROJECT.json names the property each one breaks.                         *)
Refuse(why) == pc' = "refused" /\ reason' = why
Continue(to) == pc' = to /\ UNCHANGED reason

NodeNames == {nodes[k].name : k \in DOMAIN nodes}

NodeNameMustUnique ==
    /\ pc = "unique"
    /\ IF Len(nodes) > Cardinality(NodeNames) THEN Refuse("names") ELSE Continue("vertices")
    /\ UNCHANGED <<edges, nodes, sortVars>>

(* Without a graph component.Graph is nil and the handler panics. *)
ValidateGraph ==
    /\ pc = "vertices"
    /\ IF edges = NoGraph THEN Continue("panicked")
       ELSE IF Vertices \subseteq NodeNames THEN Continue("start") ELSE Refuse("vertices")
    /\ UNCHANGED <<edges, nodes, sortVars>>

Roots == {v \in Vertices : InDegree(v) = 0}

StartSort ==
    /\ pc = "start"
    /\ remaining' = [v \in Name |-> InDegree(v)]
    /\ frontier' = Roots
    /\ CASE Vertices = {} -> Refuse("empty")
         [] Vertices # {} /\ Roots = {} -> Refuse("cycle")
         [] OTHER -> Continue("sort")
    /\ UNCHANGED <<edges, nodes, count, popped>>

CountTwice(v) == [w \in Name |-> IF w \in Successors(v) THEN remaining[w] - 2 ELSE remaining[w]]
CountNothing(v) == remaining

Countdown(v) == [w \in Name |-> IF w \in Successors(v) THEN remaining[w] - 1 ELSE remaining[w]]

(* The heap gives a vertex of the least in-degree, any of them. *)
Least == {v \in frontier : \A w \in frontier : remaining[v] <= remaining[w]}

Pop(v) ==
    /\ pc = "sort" /\ v \in Least
    /\ count' = count + 1 /\ popped' = popped \cup {v}
    /\ remaining' = Countdown(v)
    /\ frontier' = (frontier \ {v}) \cup {w \in Successors(v) : remaining'[w] = 0}
    /\ UNCHANGED <<edges, nodes, pc, reason>>

AcceptSorted ==
    /\ pc = "sort" /\ frontier = {}
    /\ Continue("assign")
    /\ UNCHANGED <<edges, nodes, sortVars>>

EndSort ==
    /\ pc = "sort" /\ frontier = {}
    /\ IF count = Cardinality(Vertices) THEN Continue("assign") ELSE Refuse("cycle")
    /\ UNCHANGED <<edges, nodes, sortVars>>

(* The in-degrees are those of VertexMap, copied before the sort. A node    *)
(* that is no vertex keeps what the client sent.                            *)
AssignInDegrees ==
    /\ pc = "assign"
    /\ nodes' = [k \in DOMAIN nodes |->
                    IF nodes[k].name \in Vertices
                    THEN [nodes[k] EXCEPT !.inDegree = InDegree(nodes[k].name)]
                    ELSE nodes[k]]
    /\ Continue("store")
    /\ UNCHANGED <<edges, sortVars>>

(* One transaction: everything or nothing is stored. *)
Store ==
    /\ pc = "store"
    /\ Continue("created") \/ Refuse("database")
    /\ UNCHANGED <<edges, nodes, sortVars>>

Ended == pc \in Final /\ UNCHANGED vars

Create ==
    \/ NodeNameMustUnique \/ ValidateGraph
    \/ StartSort \/ (\E v \in Name : Pop(v)) \/ EndSort
    \/ AssignInDegrees \/ Store

Next == Create \/ Ended

Spec == Init /\ [][Next]_vars

----------------------------------------------------------------------------
(* Properties. *)

Preds(v) == {u \in Name : \E k \in DOMAIN edges : edges[k] = <<u, v>>}

(* Reference definition: every non-empty set of vertices has one that no    *)
(* vertex of the set leads to.                                              *)
Acyclic == \A S \in SUBSET Vertices : S # {} => \E v \in S : Preds(v) \cap S = {}

RepeatedEdge == \E j, k \in DOMAIN edges : j # k /\ edges[j] = edges[k]

(* Every variable has its type; the sort never counts below 0. *)
TypeOK ==
    /\ edges \in EdgeLists \cup {NoGraph} /\ nodes \in Seq(NodeCfg)
    /\ pc \in Pcs /\ reason \in {"none", "names", "vertices", "empty", "cycle", "database"}
    /\ remaining \in [Name -> Nat] /\ frontier \subseteq Name
    /\ count \in Nat /\ popped \subseteq Name

WaitsForItsPreds(k) == nodes[k].inDegree = Cardinality(Preds(nodes[k].name))

(* For nodes on no edge that is what the client sent, Create leaves it. *)
OffGraphAtZero == \A k \in DOMAIN nodes : nodes[k].name \notin Vertices => nodes[k].inDegree = 0

(* A stored graph has no cycle and each node on it waits for exactly as many *)
(* nodes as lead to it; when the client sent 0 for all nodes on no edge, so  *)
(* does every node, and the pipeline can be executed to its end: PipeExec    *)
(* counts these in-degrees down (IsDAG, Create).                             *)
CreatedIsRunnable ==
    pc = "created" =>
        /\ Acyclic
        /\ \A k \in DOMAIN nodes : nodes[k].name \in Vertices \/ OffGraphAtZero => WaitsForItsPreds(k)

(* Each vertex of a stored graph has one node, whose row the completion of  *)
(* another node will look up by name (validateGraph, nodeNameMustUnique).   *)
EveryVertexHasOneNode ==
    pc = "created" => \A v \in Vertices :
        \E k \in DOMAIN nodes : \A j \in DOMAIN nodes : nodes[j].name = v <=> j = k

(* Create refuses as cyclic only what has a cycle or repeats an edge. *)
RefusedIsCyclicOrRepeats == reason = "cycle" => ~Acyclic \/ RepeatedEdge

----------------------------------------------------------------------------
(* What the code and its messages lead one to expect, and TLC refutes.      *)

(* Create computes the in-degrees, whatever the client sent (service.go,     *)
(* graph.go:130): but a node on no edge keeps the client's, and above 0 it   *)
(* will wait for ever.                                                       *)
EveryCreatedIsRunnable == pc = "created" => \A k \in DOMAIN nodes : WaitsForItsPreds(k)

(* graph.go:95 refuses a graph because a "cycle exists in this graph". *)
RefusedIsCyclic == reason = "cycle" => ~Acyclic

(* graph.go:58-60 answers a missing graph with the error "graph is nil". *)
NoGraphIsRefused == pc \in Final /\ edges = NoGraph => pc = "refused"
=============================================================================

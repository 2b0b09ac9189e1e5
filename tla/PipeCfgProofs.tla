---------------------------- MODULE PipeCfgProofs ----------------------------
(***************************************************************************)
(* Proofs about PipeCfg for any finite set of names and any graphs and     *)
(* nodes a client may send: what Create stores is acyclic, and the stored  *)
(* in-degree of a node is the number of nodes that lead to it, although    *)
(* Extract counts edges. Repeated edges are refused, not counted twice.    *)
(***************************************************************************)
EXTENDS PipeCfg, FiniteSetTheorems, TLAPS

GraphOK == edges \in Seq(Name \X Name)

(* The sort has taken each popped predecessor off the count. *)
Counted(v) == remaining[v] = InDegree(v) - Cardinality(Preds(v) \cap popped)

SortInv ==
    /\ popped \subseteq Vertices /\ frontier \subseteq Vertices
    /\ frontier \cap popped = {} /\ count = Cardinality(popped)
    /\ \A v \in Name : Counted(v)
    /\ \A v \in frontier \cup popped : remaining[v] = 0
    /\ \A S \in SUBSET popped : S # {} => \E v \in S : Preds(v) \cap S = {}

Sorted == {"assign", "store", "created"}

IInv ==
    /\ TypeOK
    /\ pc \in {"start", "sort"} \cup Sorted => GraphOK
    /\ pc \in {"unique", "vertices", "start"} => count = 0 /\ popped = {}
    /\ pc \in {"sort"} \cup Sorted => SortInv
    /\ pc \in Sorted => popped = Vertices
    /\ pc \in {"store", "created"} => \A k \in DOMAIN nodes :
           nodes[k].name \in Vertices => nodes[k].inDegree = InDegree(nodes[k].name)

----------------------------------------------------------------------------
(* What the types say of the graph. *)
LEMMA GraphFacts ==
    ASSUME GraphOK
    PROVE  /\ DOMAIN edges = 1 .. Len(edges) /\ Len(edges) \in Nat
           /\ Vertices \subseteq Name
           /\ \A v \in Name : Preds(v) \subseteq Vertices /\ Successors(v) \subseteq Vertices
           /\ \A v, w \in Name : w \in Successors(v) <=> v \in Preds(w)
<1>1. DOMAIN edges = 1 .. Len(edges) /\ Len(edges) \in Nat
  BY DEF GraphOK
<1>2. \A k \in DOMAIN edges : /\ edges[k] \in Name \X Name
                              /\ edges[k][1] \in Name /\ edges[k][2] \in Name
  BY <1>1 DEF GraphOK
<1>3. Vertices \subseteq Name
  BY <1>2 DEF Vertices
<1>4. ASSUME NEW v \in Name PROVE Preds(v) \subseteq Vertices /\ Successors(v) \subseteq Vertices
  BY DEF Preds, Successors, Vertices
<1>5. \A v, w \in Name : w \in Successors(v) <=> v \in Preds(w)
  BY DEF Preds, Successors
<1> QED
  BY <1>1, <1>3, <1>4, <1>5

(* The sets of the sort are finite, so their sizes are numbers. *)
LEMMA FiniteFacts ==
    ASSUME GraphOK, NEW v \in Name
    PROVE  /\ IsFiniteSet(Vertices) /\ IsFiniteSet(Preds(v)) /\ Cardinality(Preds(v)) \in Nat
           /\ IsFiniteSet(EdgesInto(v)) /\ InDegree(v) \in Nat
<1>1. Vertices \subseteq Name /\ Preds(v) \subseteq Name
  BY GraphFacts
<1>2. IsFiniteSet(EdgesInto(v))
  <2>1. EdgesInto(v) \subseteq 1 .. Len(edges) /\ Len(edges) \in Int
    BY GraphFacts DEF EdgesInto
  <2>2. IsFiniteSet(1 .. Len(edges))
    BY <2>1, FS_Interval
  <2> QED
    BY <2>1, <2>2, FS_Subset
<1> QED
  BY <1>1, <1>2, NameAssumption, FS_Subset, FS_CardinalityType DEF InDegree

(* Each predecessor has an edge of its own. *)
LEMMA DegreeBoundsPreds ==
    ASSUME GraphOK, NEW v \in Name
    PROVE  Cardinality(Preds(v)) <= InDegree(v)
<1> DEFINE EdgeFrom(u) == CHOOSE k \in DOMAIN edges : edges[k] = <<u, v>>
           g == [u \in Preds(v) |-> EdgeFrom(u)]
<1>1. \A u \in Preds(v) : EdgeFrom(u) \in DOMAIN edges /\ edges[EdgeFrom(u)] = <<u, v>>
  BY DEF Preds
<1> HIDE DEF EdgeFrom
<1>2. g \in [Preds(v) -> EdgesInto(v)]
  BY <1>1 DEF EdgesInto
<1>3. ~ \E x, y \in Preds(v) : x # y /\ g[x] = g[y]
  BY <1>1
<1> HIDE DEF g
<1>4. ~ (Cardinality(EdgesInto(v)) < Cardinality(Preds(v)))
  BY <1>2, <1>3, FiniteFacts, FS_PigeonHole
<1> QED
  BY <1>4, FiniteFacts DEF InDegree

(* Counted down to 0, no predecessor is left; with one left, not yet 0. *)
LEMMA ZeroMeansAllPopped ==
    ASSUME GraphOK, NEW v \in Name, Counted(v)
    PROVE  /\ remaining[v] = 0 => Preds(v) \subseteq popped /\ InDegree(v) = Cardinality(Preds(v))
           /\ remaining[v] \in Nat
           /\ ~ (Preds(v) \subseteq popped) => remaining[v] > 0
<1> DEFINE Gone == Preds(v) \cap popped
<1>1. /\ IsFiniteSet(Preds(v)) /\ Cardinality(Preds(v)) \in Nat /\ InDegree(v) \in Nat
      /\ Cardinality(Preds(v)) <= InDegree(v)
  BY FiniteFacts, DegreeBoundsPreds
<1>2. /\ Gone \in SUBSET Preds(v)
      /\ Cardinality(Gone) \in Nat /\ Cardinality(Gone) <= Cardinality(Preds(v))
      /\ Cardinality(Preds(v)) = Cardinality(Gone) => Preds(v) = Gone
  BY <1>1, FS_Subset, FS_CardinalityType
<1>3. remaining[v] = InDegree(v) - Cardinality(Gone)
  BY DEF Counted
<1>4. remaining[v] \in Nat /\ (remaining[v] = 0 => Cardinality(Preds(v)) = Cardinality(Gone))
  BY <1>1, <1>2, <1>3
<1>5. remaining[v] = 0 => Preds(v) \subseteq popped /\ InDegree(v) = Cardinality(Preds(v))
  BY <1>1, <1>2, <1>3, <1>4
<1> QED
  BY <1>4, <1>5

----------------------------------------------------------------------------
(* The invariant holds initially. *)
LEMMA InvInit == Init => IInv
<1> SUFFICES ASSUME Init PROVE IInv
  OBVIOUS
<1>1. nodes \in Seq(NodeCfg)
  BY NodesAssumption DEF Init
<1> QED
  BY <1>1 DEF Init, IInv, TypeOK, Pcs, Final, Sorted

(* The sort starts with nothing popped and the roots in the heap. *)
LEMMA StartStep == IInv /\ StartSort => IInv'
<1> SUFFICES ASSUME IInv, StartSort PROVE IInv'
  OBVIOUS
<1>1. /\ pc = "start" /\ GraphOK /\ popped = {} /\ count = 0
      /\ UNCHANGED <<edges, nodes, count, popped>>
      /\ remaining' = [v \in Name |-> InDegree(v)] /\ frontier' = Roots
      /\ pc' \in {"refused", "sort"} /\ reason' \in {reason, "empty", "cycle"}
  BY DEF StartSort, IInv, Refuse, Continue
<1>2. \A v \in Name : InDegree(v) \in Nat
  BY <1>1, FiniteFacts
<1>3. Roots \subseteq Vertices /\ Vertices \subseteq Name
  BY <1>1, GraphFacts DEF Roots
<1>4. TypeOK'
  BY <1>1, <1>2, <1>3 DEF IInv, TypeOK, Pcs, Final
<1>5. SortInv'
  <2>1. Vertices' = Vertices /\ \A v : InDegree(v)' = InDegree(v) /\ Preds(v)' = Preds(v)
    BY <1>1 DEF Vertices, InDegree, EdgesInto, Preds
  <2>2. \A v \in Name : Counted(v)'
    <3> TAKE v \in Name
    <3>1. Preds(v) \cap popped' = {}
      BY <1>1
    <3>2. Cardinality(Preds(v) \cap popped') = 0
      BY <3>1, FS_EmptySet
    <3> QED
      BY <3>2, <2>1, <1>1, <1>2 DEF Counted
  <2>3. \A v \in frontier' \cup popped' : remaining'[v] = 0
    BY <1>1, <1>3 DEF Roots
  <2> QED
    BY <2>1, <2>2, <2>3, <1>1, <1>3, FS_EmptySet DEF SortInv
<1>6. GraphOK'
  BY <1>1 DEF GraphOK
<1> QED
  BY <1>1, <1>4, <1>5, <1>6 DEF IInv, Sorted

(* A pop takes a vertex of in-degree 0 and counts its successors down. *)
LEMMA PopStep == ASSUME IInv, NEW v \in Name, Pop(v) PROVE IInv'
<1>1. /\ pc = "sort" /\ v \in frontier /\ count' = count + 1 /\ popped' = popped \cup {v}
      /\ remaining' = Countdown(v)
      /\ frontier' = (frontier \ {v}) \cup {w \in Successors(v) : remaining'[w] = 0}
      /\ UNCHANGED <<edges, nodes, pc, reason>>
  BY DEF Pop, Least
<1>2. TypeOK /\ GraphOK /\ SortInv
  BY <1>1 DEF IInv
<1>3. Vertices' = Vertices /\ \A w : InDegree(w)' = InDegree(w) /\ Preds(w)' = Preds(w)
  BY <1>1 DEF Vertices, InDegree, EdgesInto, Preds
<1>4. v \notin popped /\ v \in Vertices /\ Preds(v) \subseteq popped
  BY <1>1, <1>2, ZeroMeansAllPopped DEF SortInv
<1>5. \A w \in popped : w \in Name /\ Preds(w) \subseteq popped
  BY <1>2, GraphFacts, ZeroMeansAllPopped DEF SortInv
<1>6. \A w \in Successors(v) : w \in Vertices /\ w \in Name /\ w \notin popped /\ w # v
  <2> TAKE w \in Successors(v)
  <2>1. w \in Vertices /\ w \in Name /\ v \in Preds(w)
    BY <1>2, GraphFacts
  <2> QED
    BY <2>1, <1>4, <1>5
<1>7. \A w \in Name : remaining'[w] = IF w \in Successors(v) THEN remaining[w] - 1 ELSE remaining[w]
  BY <1>1 DEF Countdown
<1>8. ASSUME NEW w \in Name PROVE Counted(w)'
  <2>1. Counted(w) /\ InDegree(w) \in Nat /\ IsFiniteSet(Preds(w) \cap popped)
    BY <1>2, FiniteFacts, FS_Subset DEF SortInv
  <2>2. Cardinality(Preds(w) \cap popped) \in Nat
    BY <2>1, FS_CardinalityType
  <2>3. CASE w \in Successors(v)
    <3>1. Preds(w) \cap popped' = (Preds(w) \cap popped) \cup {v} /\ v \notin Preds(w) \cap popped
      BY <2>3, <1>1, <1>2, <1>4, GraphFacts
    <3>2. Cardinality(Preds(w) \cap popped') = Cardinality(Preds(w) \cap popped) + 1
      BY <3>1, <2>1, FS_AddElement
    <3>3. remaining'[w] = remaining[w] - 1
      BY <2>3, <1>7
    <3>4. remaining'[w] = InDegree(w) - Cardinality(Preds(w) \cap popped')
      BY <3>2, <3>3, <2>1, <2>2 DEF Counted
    <3> QED
      BY <3>4, <1>3 DEF Counted
  <2>4. CASE w \notin Successors(v)
    <3>1. Preds(w) \cap popped' = Preds(w) \cap popped
      BY <2>4, <1>1, <1>2, GraphFacts
    <3> QED
      BY <3>1, <2>1, <2>4, <1>3, <1>7 DEF Counted
  <2> QED
    BY <2>3, <2>4
<1>9. GraphOK'
  BY <1>1, <1>2 DEF GraphOK
<1>10. TypeOK'
  <2>1. \A w \in Name : remaining'[w] \in Nat
    <3> TAKE w \in Name
    <3>1. CASE w \in Successors(v)
      <4>1. v \in Preds(w) /\ remaining[w] \in Nat /\ remaining[w] > 0
        BY <3>1, <1>2, <1>4, GraphFacts, ZeroMeansAllPopped DEF SortInv
      <4> QED
        BY <4>1, <3>1, <1>7
    <3>2. CASE w \notin Successors(v)
      BY <3>2, <1>2, <1>7 DEF TypeOK
    <3> QED
      BY <3>1, <3>2
  <2>2. remaining' \in [Name -> Nat]
    BY <2>1, <1>1 DEF Countdown
  <2>3. frontier' \subseteq Name
    BY <1>1, <1>2, <1>6 DEF TypeOK
  <2> QED
    BY <2>2, <2>3, <1>1, <1>2 DEF TypeOK
<1>11. popped' \subseteq Vertices /\ frontier' \subseteq Vertices /\ frontier' \cap popped' = {}
  BY <1>1, <1>2, <1>4, <1>6 DEF SortInv
<1>12. count' = Cardinality(popped')
  <2>1. IsFiniteSet(popped)
    BY <1>2, FiniteFacts, FS_Subset DEF SortInv
  <2> QED
    BY <2>1, <1>1, <1>2, <1>4, FS_AddElement DEF SortInv
<1>13. \A w \in frontier' \cup popped' : remaining'[w] = 0
  <2> TAKE w \in frontier' \cup popped'
  <2>1. CASE w \in Successors(v)
    <3>1. w \in Name /\ v \in Preds(w) /\ w \notin popped'
      BY <2>1, <1>1, <1>2, <1>6, GraphFacts
    <3>2. w \notin frontier
      BY <3>1, <1>2, <1>4, ZeroMeansAllPopped DEF SortInv
    <3> QED
      BY <3>1, <3>2, <1>1
  <2>2. CASE w \notin Successors(v)
    <3>1. w \in frontier \cup popped /\ w \in Name
      BY <2>2, <1>1, <1>2, <1>5 DEF TypeOK
    <3> QED
      BY <3>1, <2>2, <1>2, <1>7 DEF SortInv
  <2> QED
    BY <2>1, <2>2
<1>14. ASSUME NEW S \in SUBSET popped', S # {} PROVE \E w \in S : Preds(w) \cap S = {}
  <2>1. CASE S \ {v} = {}
    <3>1. S = {v}
      BY <2>1, <1>14
    <3>2. v \in S /\ Preds(v) \cap S = {}
      BY <3>1, <1>4, <1>14
    <3> QED
      BY <3>2
  <2>2. CASE S \ {v} # {}
    <3>1. S \ {v} \in SUBSET popped
      BY <1>1
    <3>2. PICK w \in S \ {v} : Preds(w) \cap (S \ {v}) = {}
      BY <3>1, <2>2, <1>2 DEF SortInv
    <3>3. v \notin Preds(w)
      BY <3>1, <1>4, <1>5
    <3> QED
      BY <3>2, <3>3
  <2> QED
    BY <2>1, <2>2
<1>15. SortInv'
  BY <1>3, <1>8, <1>11, <1>12, <1>13, <1>14 DEF SortInv
<1> QED
  BY <1>1, <1>9, <1>10, <1>15 DEF IInv, Sorted

(* What leaves the graph and the sort alone leaves its invariant alone. *)
LEMMA SortUnchanged ==
    ASSUME UNCHANGED <<edges, sortVars>>
    PROVE  /\ SortInv' <=> SortInv
           /\ GraphOK' <=> GraphOK
           /\ Vertices' = Vertices
           /\ \A v : InDegree(v)' = InDegree(v)
<1>1. /\ Vertices' = Vertices
      /\ \A v : InDegree(v)' = InDegree(v) /\ Preds(v)' = Preds(v)
  BY DEF Vertices, InDegree, EdgesInto, Preds
<1>2. \A v : Counted(v)' <=> Counted(v)
  BY <1>1 DEF Counted, sortVars
<1> QED
  BY <1>1, <1>2 DEF SortInv, GraphOK, sortVars

(* When every vertex was popped, the order of the pops shows no cycle. *)
LEMMA EndStep == IInv /\ EndSort => IInv'
<1> SUFFICES ASSUME IInv, EndSort PROVE IInv'
  OBVIOUS
<1>1. /\ pc = "sort" /\ SortInv /\ GraphOK /\ TypeOK
      /\ UNCHANGED <<edges, nodes, sortVars>>
      /\ \/ count = Cardinality(Vertices) /\ pc' = "assign" /\ reason' = reason
         \/ pc' = "refused" /\ reason' = "cycle"
  BY DEF EndSort, IInv, Refuse, Continue
<1>2. TypeOK'
  BY <1>1 DEF TypeOK, sortVars, Pcs, Final
<1>3. ASSUME pc' = "assign" PROVE popped' = Vertices'
  <2>1. popped \in SUBSET Vertices /\ Cardinality(popped) = Cardinality(Vertices)
    BY <1>1, <1>3 DEF SortInv
  <2>2. IsFiniteSet(Vertices)
    <3>1. Vertices \subseteq Name
      BY <1>1, GraphFacts
    <3> QED
      BY <3>1, NameAssumption, FS_Subset
  <2>3. popped = Vertices
    BY <2>1, <2>2, FS_Subset
  <2> QED
    BY <2>3, <1>1, SortUnchanged DEF sortVars
<1> QED
  BY <1>1, <1>2, <1>3, SortUnchanged DEF IInv, Sorted

(* The nodes get the in-degrees of the graph. *)
LEMMA AssignStep == IInv /\ AssignInDegrees => IInv'
<1> SUFFICES ASSUME IInv, AssignInDegrees PROVE IInv'
  OBVIOUS
<1>1. /\ pc = "assign" /\ SortInv /\ GraphOK /\ TypeOK /\ popped = Vertices
      /\ UNCHANGED <<edges, sortVars, reason>> /\ pc' = "store"
      /\ nodes' = [k \in DOMAIN nodes |->
                      IF nodes[k].name \in Vertices
                      THEN [nodes[k] EXCEPT !.inDegree = InDegree(nodes[k].name)]
                      ELSE nodes[k]]
  BY DEF AssignInDegrees, IInv, Continue, Sorted
<1>2. nodes \in Seq(NodeCfg) /\ DOMAIN nodes = 1 .. Len(nodes) /\ Len(nodes) \in Nat
  BY <1>1 DEF TypeOK
<1>3. ASSUME NEW k \in DOMAIN nodes
      PROVE  /\ nodes'[k] \in NodeCfg /\ nodes'[k].name = nodes[k].name
             /\ nodes[k].name \in Vertices => nodes'[k].inDegree = InDegree(nodes[k].name)
  <2>0. nodes[k] \in NodeCfg
    BY <1>2
  <2>1. nodes[k].name \in Name
    BY <2>0 DEF NodeCfg
  <2>2. InDegree(nodes[k].name) \in Nat
    BY <2>1, <1>1, FiniteFacts
  <2>3. nodes'[k] = IF nodes[k].name \in Vertices
                    THEN [nodes[k] EXCEPT !.inDegree = InDegree(nodes[k].name)]
                    ELSE nodes[k]
    BY <1>1
  <2> QED
    BY <2>0, <2>1, <2>2, <2>3 DEF NodeCfg
<1>4. nodes' \in Seq(NodeCfg) /\ DOMAIN nodes' = DOMAIN nodes
  <2>1. nodes' \in [1 .. Len(nodes) -> NodeCfg]
    BY <1>1, <1>2, <1>3
  <2> QED
    BY <2>1, <1>2
<1>5. TypeOK'
  BY <1>1, <1>4 DEF TypeOK, sortVars, Pcs, Final
<1>6. (\A k \in DOMAIN nodes :
          nodes[k].name \in Vertices => nodes[k].inDegree = InDegree(nodes[k].name))'
  <2>1. Vertices' = Vertices /\ \A v : InDegree(v)' = InDegree(v)
    BY <1>1, SortUnchanged
  <2> QED
    BY <2>1, <1>3, <1>4
<1> QED
  BY <1>1, <1>5, <1>6, SortUnchanged DEF IInv, Sorted, sortVars

(* The other steps do not touch the sort. *)
LEMMA OtherStep ==
    IInv /\ (NodeNameMustUnique \/ ValidateGraph \/ Store \/ UNCHANGED vars) => IInv'
<1> SUFFICES ASSUME IInv, NodeNameMustUnique \/ ValidateGraph \/ Store \/ UNCHANGED vars
             PROVE  IInv'
  OBVIOUS
<1>1. UNCHANGED <<edges, nodes, sortVars>>
  BY DEF NodeNameMustUnique, ValidateGraph, Store, vars, sortVars
<1>2. \/ pc = "unique" /\ pc' \in {"refused", "vertices"}
      \/ pc = "vertices" /\ pc' \in {"refused", "panicked"}
      \/ pc = "vertices" /\ pc' = "start" /\ edges # NoGraph
      \/ pc = "store" /\ pc' \in {"created", "refused"}
      \/ pc' = pc
  <2>1. CASE NodeNameMustUnique
    BY <2>1 DEF NodeNameMustUnique, Refuse, Continue
  <2>2. CASE ValidateGraph
    <3>1. CASE edges = NoGraph
      BY <2>2, <3>1 DEF ValidateGraph, Continue
    <3>2. CASE edges # NoGraph /\ Vertices \subseteq NodeNames
      BY <2>2, <3>2 DEF ValidateGraph, Continue
    <3>3. CASE edges # NoGraph /\ ~ (Vertices \subseteq NodeNames)
      BY <2>2, <3>3 DEF ValidateGraph, Refuse
    <3> QED
      BY <3>1, <3>2, <3>3
  <2>3. CASE Store
    BY <2>3 DEF Store, Refuse, Continue
  <2> QED
    BY <2>1, <2>2, <2>3 DEF vars
<1>3. reason' \in {reason, "names", "vertices", "database"} /\ pc' \in Pcs
  BY <1>2 DEF NodeNameMustUnique, ValidateGraph, Store, vars, Refuse, Continue, IInv, TypeOK, Pcs, Final
<1>4. TypeOK'
  BY <1>1, <1>3 DEF IInv, TypeOK, sortVars
<1>5. edges # NoGraph => GraphOK
  BY EdgesAssumption DEF IInv, TypeOK, GraphOK
<1> QED
  BY <1>1, <1>2, <1>4, <1>5, SortUnchanged DEF IInv, Sorted, sortVars

(* Every step keeps the invariant. *)
LEMMA InvNext == IInv /\ [Next]_vars => IInv'
  BY StartStep, PopStep, EndStep, AssignStep, OtherStep DEF Next, Create, Ended

(* The invariant holds for ever. *)
LEMMA Invariance == Spec => []IInv
  BY InvInit, InvNext, PTL DEF Spec

(* Every variable has its type; the count of the sort never goes below 0,   *)
(* also for graphs with cycles, loops and repeated edges.                   *)
THEOREM TypeCorrect == Spec => []TypeOK
  BY Invariance, PTL DEF IInv

(* What Create stores is acyclic, and the in-degree of each node on the     *)
(* graph is the number of its predecessors, which is 0 and may not be what  *)
(* is stored for a node on no edge. If it is, the stored pipeline is what   *)
(* PipeExec assumes.                                                        *)
THEOREM StoredGraphIsRunnable == Spec => []CreatedIsRunnable
<1>1. IInv => CreatedIsRunnable
  <2> SUFFICES ASSUME IInv, pc = "created" PROVE CreatedIsRunnable
    BY DEF CreatedIsRunnable
  <2>1. GraphOK /\ SortInv /\ popped = Vertices
    BY DEF IInv, Sorted
  <2>2. Acyclic
    BY <2>1 DEF Acyclic, SortInv
  <2>3. \A v \in Vertices : InDegree(v) = Cardinality(Preds(v))
    BY <2>1, GraphFacts, ZeroMeansAllPopped DEF SortInv
  <2>4. ASSUME NEW k \in DOMAIN nodes, nodes[k].name \in Vertices \/ OffGraphAtZero
        PROVE  WaitsForItsPreds(k)
    <3>1. CASE nodes[k].name \in Vertices
      BY <2>3, <3>1 DEF WaitsForItsPreds, IInv
    <3>2. CASE nodes[k].name \notin Vertices /\ OffGraphAtZero
      <4>1. Preds(nodes[k].name) = {}
        BY <2>1, <3>2, GraphFacts DEF Preds, Vertices
      <4>2. nodes[k].inDegree = 0
        BY <3>2 DEF OffGraphAtZero
      <4> QED
        BY <4>1, <4>2, FS_EmptySet DEF WaitsForItsPreds
    <3> QED
      BY <2>4, <3>1, <3>2
  <2> QED
    BY <2>2, <2>4 DEF CreatedIsRunnable
<1> QED
  BY <1>1, Invariance, PTL
----------------------------------------------------------------------------
(* What is refused, and which nodes a stored graph has.                     *)

(* A vertex that was counted down to 0 is in the heap or was popped. *)
HeapOK == pc = "sort" => \A v \in Vertices : remaining[v] = 0 => v \in frontier \cup popped

NamesDiffer == \A j, k \in DOMAIN nodes : nodes[j].name = nodes[k].name => j = k

NamesOK ==
    /\ pc \in {"vertices", "start", "sort"} \cup Sorted => NamesDiffer
    /\ pc \in {"start", "sort"} \cup Sorted => Vertices \subseteq NodeNames

RefusalInv == HeapOK /\ NamesOK /\ RefusedIsCyclicOrRepeats

(* Unless an edge repeats, each edge into a vertex has its own predecessor. *)
LEMMA DegreeIsPreds ==
    ASSUME GraphOK, ~RepeatedEdge, NEW v \in Name
    PROVE  InDegree(v) = Cardinality(Preds(v))
<1> DEFINE g == [k \in EdgesInto(v) |-> edges[k][1]]
<1>1. ASSUME NEW k \in EdgesInto(v)
      PROVE  k \in DOMAIN edges /\ edges[k] = <<edges[k][1], v>> /\ edges[k][1] \in Preds(v)
  <2>1. k \in DOMAIN edges /\ edges[k] \in Name \X Name /\ edges[k][2] = v
    BY GraphFacts DEF GraphOK, EdgesInto
  <2>2. edges[k] = <<edges[k][1], v>> /\ edges[k][1] \in Name
    BY <2>1
  <2> QED
    BY <2>1, <2>2 DEF Preds
<1>2. g \in [EdgesInto(v) -> Preds(v)]
  BY <1>1
<1>3. ~ \E x, y \in EdgesInto(v) : x # y /\ g[x] = g[y]
  <2> SUFFICES ASSUME NEW x \in EdgesInto(v), NEW y \in EdgesInto(v), x # y, edges[x][1] = edges[y][1]
               PROVE  FALSE
    OBVIOUS
  <2>1. edges[x] = edges[y]
    BY <1>1
  <2> QED
    BY <1>1, <2>1 DEF RepeatedEdge
<1> HIDE DEF g
<1>4. ~ (Cardinality(Preds(v)) < Cardinality(EdgesInto(v)))
  BY <1>2, <1>3, FiniteFacts, FS_PigeonHole
<1> QED
  BY <1>4, FiniteFacts, DegreeBoundsPreds DEF InDegree

(* As many names as nodes: no name twice. *)
LEMMA NamesUnique ==
    ASSUME nodes \in Seq(NodeCfg), Len(nodes) <= Cardinality(NodeNames)
    PROVE  NamesDiffer
<1> DEFINE D == 1 .. Len(nodes)
<1>1. DOMAIN nodes = D /\ Len(nodes) \in Nat
  OBVIOUS
<1>2. IsFiniteSet(D) /\ Cardinality(D) = Len(nodes)
  <2>1. ASSUME NEW b \in Nat PROVE IsFiniteSet(1 .. b) /\ Cardinality(1 .. b) = b
    <3>1. 1 \in Int /\ b \in Int
      OBVIOUS
    <3>2. IsFiniteSet(1 .. b) /\ Cardinality(1 .. b) = IF 1 > b THEN 0 ELSE b - 1 + 1
      BY ONLY <3>1, FS_Interval, Zenon
    <3> QED
      BY <3>2
  <2> QED
    BY <1>1, <2>1
<1> HIDE DEF D
<1> SUFFICES ASSUME NEW j \in D, NEW k \in D, nodes[j].name = nodes[k].name, j # k
             PROVE  FALSE
  BY <1>1 DEF NamesDiffer
<1>3. IsFiniteSet(D \ {k}) /\ Cardinality(D \ {k}) = Len(nodes) - 1
  BY <1>2, FS_RemoveElement
<1> DEFINE f == [i \in D \ {k} |-> nodes[i].name]
<1>4. f \in Surjection(D \ {k}, NodeNames)
  <2>1. \A n \in NodeNames : \E i \in D \ {k} : nodes[i].name = n
    BY <1>1 DEF NodeNames
  <2>2. f \in [D \ {k} -> NodeNames]
    BY <1>1 DEF NodeNames
  <2> QED
    BY <2>1, <2>2 DEF Surjection
<1> HIDE DEF f
<1>5. Cardinality(NodeNames) <= Cardinality(D \ {k}) /\ IsFiniteSet(NodeNames)
  BY <1>3, <1>4, FS_Surjection
<1>6. Cardinality(NodeNames) \in Nat
  BY <1>5, FS_CardinalityType
<1> QED
  BY <1>1, <1>3, <1>5, <1>6

(* What the sort leaves unpopped contains a cycle or an end of a repeated   *)
(* edge.                                                                    *)
LEMMA LeftoverIsCyclic ==
    ASSUME GraphOK, ~RepeatedEdge, NEW S \in SUBSET Vertices, S # {},
           \A v \in S : ~ (Preds(v) \subseteq Vertices \ S)
    PROVE  ~Acyclic
<1>1. \A v \in S : Preds(v) \cap S # {}
  BY GraphFacts
<1> QED
  BY <1>1 DEF Acyclic

(* The heap stays complete and the refusals just. *)
LEMMA RefusalStep == IInv /\ RefusalInv /\ [Next]_vars => RefusalInv'
<1> SUFFICES ASSUME IInv, RefusalInv, [Next]_vars PROVE RefusalInv'
  OBVIOUS
<1>0. nodes \in Seq(NodeCfg)
  BY DEF IInv, TypeOK
<1>1. edges' = edges
  BY DEF Next, Create, NodeNameMustUnique, ValidateGraph, StartSort, Pop, EndSort, AssignInDegrees,
      Store, Ended, vars
<1>2. /\ Vertices' = Vertices /\ Acyclic' = Acyclic /\ RepeatedEdge' = RepeatedEdge
      /\ \A v : InDegree(v)' = InDegree(v) /\ Preds(v)' = Preds(v)
  <2>1. Vertices' = Vertices /\ \A v : InDegree(v)' = InDegree(v) /\ Preds(v)' = Preds(v)
    BY <1>1 DEF Vertices, InDegree, EdgesInto, Preds
  <2>2. RepeatedEdge' = RepeatedEdge
    BY <1>1 DEF RepeatedEdge
  <2> QED
    BY <2>1, <2>2 DEF Acyclic
<1>3. CASE UNCHANGED nodes
  <2>1. NodeNames' = NodeNames /\ NamesDiffer' = NamesDiffer
    BY <1>3 DEF NodeNames, NamesDiffer
  <2>2. CASE NodeNameMustUnique
    <3>1. CASE Len(nodes) > Cardinality(NodeNames)
      BY <1>2, <2>2, <3>1 DEF NodeNameMustUnique, Refuse, RefusalInv, HeapOK, NamesOK,
          RefusedIsCyclicOrRepeats, Sorted
    <3>2. CASE ~ (Len(nodes) > Cardinality(NodeNames))
      <4>1. pc' = "vertices" /\ reason' = reason
        BY <2>2, <3>2 DEF NodeNameMustUnique, Continue
      <4>2. Len(nodes) <= Cardinality(NodeNames)
        <5>1. IsFiniteSet(NodeNames)
          <6>1. NodeNames \subseteq Name
            <7>1. \A k \in DOMAIN nodes : nodes[k] \in NodeCfg
              BY <1>0
            <7> QED
              BY <7>1 DEF NodeNames, NodeCfg
          <6> QED
            BY <6>1, NameAssumption, FS_Subset
        <5>2. Cardinality(NodeNames) \in Nat /\ Len(nodes) \in Nat
          BY <1>0, <5>1, FS_CardinalityType
        <5> QED
          BY <3>2, <5>2
      <4>3. NamesDiffer'
        BY <1>0, <2>1, <4>2, NamesUnique
      <4> QED
        BY <1>2, <4>1, <4>3 DEF RefusalInv, HeapOK, NamesOK, RefusedIsCyclicOrRepeats, Sorted
    <3> QED
      BY <3>1, <3>2
  <2>3. CASE ValidateGraph
    <3>1. \/ pc' \in {"refused", "panicked"}
          \/ pc' = "start" /\ Vertices \subseteq NodeNames
      BY <2>3 DEF ValidateGraph, Refuse, Continue
    <3>2. reason' \in {reason, "vertices"} /\ pc = "vertices"
      BY <2>3 DEF ValidateGraph, Refuse, Continue
    <3> QED
      BY <1>2, <2>1, <3>1, <3>2 DEF RefusalInv, HeapOK, NamesOK, RefusedIsCyclicOrRepeats, Sorted
  <2>4. CASE StartSort
    <3>1. /\ pc = "start" /\ GraphOK /\ popped' = {} /\ frontier' = Roots
          /\ remaining' = [v \in Name |-> InDegree(v)] /\ pc' \in {"sort", "refused"}
      BY <2>4 DEF StartSort, IInv, Refuse, Continue
    <3>2. HeapOK'
      BY <1>2, <3>1, GraphFacts DEF HeapOK, Roots
    <3>3. NamesOK'
      BY <1>2, <2>1, <3>1 DEF RefusalInv, NamesOK, Sorted
    <3>4. ASSUME reason' = "cycle", reason # "cycle" PROVE ~Acyclic \/ RepeatedEdge
      <4>1. Vertices # {} /\ Roots = {}
        BY <2>4, <3>4 DEF StartSort, Refuse, Continue
      <4>2. ASSUME ~RepeatedEdge, NEW v \in Vertices PROVE ~ (Preds(v) \subseteq Vertices \ Vertices)
        <5>1. v \in Name /\ InDegree(v) # 0 /\ InDegree(v) = Cardinality(Preds(v))
          BY <3>1, <4>1, <4>2, GraphFacts, DegreeIsPreds DEF Roots
        <5> QED
          BY <5>1, FS_EmptySet
      <4> QED
        BY <3>1, <4>1, <4>2, LeftoverIsCyclic
    <3> QED
      BY <1>2, <3>2, <3>3, <3>4 DEF RefusalInv, RefusedIsCyclicOrRepeats
  <2>5. ASSUME NEW v \in Name, Pop(v) PROVE RefusalInv'
    <3>1. /\ popped' = popped \cup {v} /\ remaining' = Countdown(v) /\ UNCHANGED <<pc, reason>>
          /\ frontier' = (frontier \ {v}) \cup {w \in Successors(v) : remaining'[w] = 0}
          /\ pc = "sort" /\ GraphOK
      BY <2>5 DEF Pop, IInv
    <3>2. ASSUME NEW w \in Vertices, remaining'[w] = 0 PROVE w \in frontier' \cup popped'
      <4>1. w \in Name
        BY <3>1, GraphFacts
      <4>2. CASE w \in Successors(v)
        BY <3>1, <3>2, <4>2
      <4>3. CASE w \notin Successors(v)
        <5>1. remaining[w] = 0
          BY <3>1, <3>2, <4>1, <4>3 DEF Countdown
        <5> QED
          BY <3>1, <5>1 DEF RefusalInv, HeapOK
      <4> QED
        BY <4>2, <4>3
    <3> QED
      BY <1>2, <2>1, <3>1, <3>2 DEF RefusalInv, HeapOK, NamesOK, RefusedIsCyclicOrRepeats
  <2>6. CASE EndSort
    <3>1. /\ pc = "sort" /\ frontier = {} /\ GraphOK /\ SortInv /\ pc' \in {"assign", "refused"}
          /\ reason' \in {reason, "cycle"}
          /\ reason' # reason => count # Cardinality(Vertices)
      BY <2>6 DEF EndSort, IInv, Refuse, Continue
    <3>2. ASSUME reason' # reason PROVE ~Acyclic \/ RepeatedEdge
      <4> DEFINE S == Vertices \ popped
      <4>1. S # {} /\ S \in SUBSET Vertices
        BY <3>1, <3>2 DEF SortInv
      <4>2. ASSUME ~RepeatedEdge, NEW v \in S PROVE ~ (Preds(v) \subseteq Vertices \ S)
        <5>1. v \in Name /\ Counted(v) /\ remaining[v] # 0
          BY <3>1, GraphFacts DEF SortInv, RefusalInv, HeapOK
        <5>2. InDegree(v) = Cardinality(Preds(v)) /\ IsFiniteSet(Preds(v)) /\ Cardinality(Preds(v)) \in Nat
          BY <3>1, <4>2, <5>1, DegreeIsPreds, FiniteFacts
        <5>3. ASSUME Preds(v) \subseteq popped PROVE FALSE
          <6>1. Preds(v) \cap popped = Preds(v)
            BY <5>3
          <6>2. Cardinality(Preds(v) \cap popped) = Cardinality(Preds(v))
            BY <6>1
          <6> QED
            BY <5>1, <5>2, <6>2 DEF Counted
        <5> QED
          BY <5>3
      <4> QED
        BY <3>1, <4>1, <4>2, LeftoverIsCyclic
    <3> QED
      BY <1>2, <2>1, <3>1, <3>2 DEF RefusalInv, HeapOK, NamesOK, RefusedIsCyclicOrRepeats, Sorted
  <2>7. CASE Store
    BY <1>2, <2>1, <2>7 DEF Store, Refuse, Continue, RefusalInv, HeapOK, NamesOK,
        RefusedIsCyclicOrRepeats, Sorted
  <2>8. CASE UNCHANGED vars
    BY <1>2, <2>1, <2>8 DEF vars, RefusalInv, HeapOK, NamesOK, RefusedIsCyclicOrRepeats, Sorted
  <2>9. CASE AssignInDegrees
    BY <1>2, <2>1, <2>9 DEF AssignInDegrees, Continue, RefusalInv, HeapOK, NamesOK,
        RefusedIsCyclicOrRepeats, Sorted
  <2> QED
    BY <2>2, <2>3, <2>4, <2>5, <2>6, <2>7, <2>8, <2>9 DEF Next, Create, Ended
<1>4. CASE AssignInDegrees
  <2>1. /\ DOMAIN nodes' = DOMAIN nodes /\ pc = "assign" /\ pc' = "store" /\ reason' = reason
        /\ \A k \in DOMAIN nodes : nodes'[k].name = nodes[k].name
    <3>1. \A k \in DOMAIN nodes : nodes[k] \in NodeCfg
      BY <1>0
    <3> QED
      BY <1>4, <3>1 DEF AssignInDegrees, Continue, NodeCfg
  <2>2. NodeNames' = NodeNames /\ NamesDiffer' = NamesDiffer
    BY <2>1 DEF NodeNames, NamesDiffer
  <2> QED
    BY <1>2, <2>1, <2>2 DEF RefusalInv, HeapOK, NamesOK, RefusedIsCyclicOrRepeats, Sorted
<1> QED
  BY <1>3, <1>4 DEF Next, Create, NodeNameMustUnique, ValidateGraph, StartSort, Pop, EndSort,
      Store, Ended, vars

(* Both invariants hold for ever. *)
LEMMA RefusalInvariance == Spec => [](IInv /\ RefusalInv)
<1>1. Init => RefusalInv
  BY DEF Init, RefusalInv, HeapOK, NamesOK, RefusedIsCyclicOrRepeats, Sorted
<1> QED
  BY <1>1, InvInit, InvNext, RefusalStep, PTL DEF Spec

(* A graph refused as cyclic has a cycle or a repeated edge: the sort never *)
(* stops early, although its heap is a set the code keeps by hand.          *)
THEOREM RefusedForCause == Spec => []RefusedIsCyclicOrRepeats
  BY RefusalInvariance, PTL DEF RefusalInv

(* Each vertex of a stored graph has exactly one node, so that a completion *)
(* that looks a row up by its node's name finds one.                        *)
THEOREM OneNodePerVertex == Spec => []EveryVertexHasOneNode
<1>1. RefusalInv => EveryVertexHasOneNode
  BY DEF RefusalInv, NamesOK, NamesDiffer, NodeNames, EveryVertexHasOneNode, Sorted
<1> QED
  BY <1>1, RefusalInvariance, PTL
=============================================================================

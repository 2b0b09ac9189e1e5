--------------------------- MODULE PipeExecProofs ---------------------------
(***************************************************************************)
(* Proofs about PipeExec for every graph, every set of attempts and every  *)
(* bound. That the variables keep their types and that each Ready event is *)
(* covered by reports (StartsAreCounted) needs no assumption. What is       *)
(* about one node (started after the reports of its predecessors, ended    *)
(* for good) holds until a report is repeated, whatever rows are deleted;  *)
(* what compares rows needs that none is deleted while the pipeline runs.  *)
(***************************************************************************)
EXTENDS PipeExec, FiniteSetTheorems, TLAPS

InTransaction(w) == pc[w] \in {"trigger", "commit"}
Downstream(w) == pc[w] = "decrement" \/ InTransaction(w)

(* What a worker visits are successors of its node, and their in-degree is  *)
(* never 0 in the database, so that a decrement never goes below 0.         *)
VisitOK(w) ==
    /\ pc[w] \in {"idle", "working", "retry", "done", "load"} \cup UpdatePcs => todo[w] = {}
    /\ pc[w] = "next" \/ Downstream(w) => todo[w] \subseteq Succs(NodeOf[w])
    /\ Downstream(w) => down[w] \in Succs(NodeOf[w]) /\ read[w].inDegree > 0

PositiveInDegree == \A n \in Node : Preds(n) # {} => row[n].inDegree > 0

TypeInv == TypeOK /\ PositiveInDegree /\ \A w \in Worker : VisitOK(w)

----------------------------------------------------------------------------
(* A joined node has a predecessor, so its in-degree starts above 0. *)
LEMMA InitialInDegree == \A n \in Node : Preds(n) # {} => InDegree[n] \in Nat /\ InDegree[n] > 0
<1> SUFFICES ASSUME NEW n \in Node, Preds(n) # {}
             PROVE  InDegree[n] \in Nat /\ InDegree[n] > 0
  OBVIOUS
<1>1. IsFiniteSet(Preds(n))
  BY FS_Subset, NodeAssumption DEF Preds
<1>2. Cardinality(Preds(n)) \in Nat /\ Cardinality(Preds(n)) # 0
  BY <1>1, FS_CardinalityType, FS_EmptySet
<1> QED
  BY <1>2, InDegreeAssumption

(* The types hold initially. *)
LEMMA TypeInit == Init => TypeInv
<1> SUFFICES ASSUME Init PROVE TypeInv
  OBVIOUS
<1>1. TypeOK
  BY InDegreeAssumption, BoundAssumption, NodeAssumption
  DEF Init, TypeOK, Row, NewNodeExec, Phase, Pcs
<1>2. PositiveInDegree
  BY InitialInDegree DEF Init, PositiveInDegree, NewNodeExec
<1>3. \A w \in Worker : VisitOK(w)
  BY DEF Init, VisitOK, Downstream, InTransaction
<1> QED
  BY <1>1, <1>2, <1>3 DEF TypeInv

BudgetOK == faults \in 0 .. MaxFaults /\ crashes \in 0 .. MaxCrashes /\ deletes \in 0 .. MaxDeletes

(* Edges join nodes. *)
LEMMA SuccsInNode == \A n \in Node : Succs(n) \subseteq Node
  BY DEF Succs

(* A phase is overwritten without the in-degree. *)
LEMMA SetPhaseType ==
    \A r \in Row, p \in Phase :
        [r EXCEPT !.phase = p] \in Row /\ [r EXCEPT !.phase = p].inDegree = r.inDegree
  BY DEF Row

(* A call that fails stays within its bound. *)
LEMMA BudgetStep == BudgetOK /\ (Fault \/ NoFault) => BudgetOK'
  BY BoundAssumption DEF BudgetOK, Fault, NoFault, budget

(* Each step keeps the types and what the workers visit. *)
LEMMA TypeStep == TypeInv /\ [Next]_vars => TypeInv'
<1> SUFFICES ASSUME TypeOK, PositiveInDegree, \A w \in Worker : VisitOK(w), [Next]_vars
             PROVE  TypeInv'
  BY DEF TypeInv
<1> USE NodeAssumption, WorkerAssumption, OutcomeAssumption, BoundAssumption
<1>1. CASE RunPut
  BY <1>1 DEF RunPut, PutReady, NoFault, budget, dbVars, localVars,
      TypeInv, TypeOK, PositiveInDegree, VisitOK, Downstream, InTransaction, Row, Phase, Terminal,
      Pcs, UpdatePcs, CompletionPcs
<1>2. CASE RunPutFails
  BY <1>2 DEF RunPutFails, PutReady, Fault, dbVars, localVars, history,
      TypeInv, TypeOK, PositiveInDegree, VisitOK, Downstream, InTransaction, Row, Phase, Terminal,
      Pcs, UpdatePcs, CompletionPcs
<1>3. CASE RunCommit
  BY <1>3 DEF RunCommit, NewPipeExec, NoFault, Fault, budget, localVars, history,
      TypeInv, TypeOK, PositiveInDegree, VisitOK, Downstream, InTransaction, Row, Phase, Terminal,
      Pcs, UpdatePcs, CompletionPcs
<1>4. CASE RunCommitFails \/ RunWithoutNodes
  BY <1>4 DEF RunCommitFails, RunWithoutNodes, NewPipeExec, Fault, dbVars, localVars, history,
      TypeInv, TypeOK, PositiveInDegree, VisitOK, Downstream, InTransaction, Row, Phase, Terminal,
      Pcs, UpdatePcs, CompletionPcs
<1>5. ASSUME NEW w \in Worker, Begin(w) PROVE TypeInv'
  BY <1>5 DEF Begin, Goto, Send, NoFault, budget, dbVars, history,
      TypeInv, TypeOK, PositiveInDegree, VisitOK, Downstream, InTransaction, Row, Phase, Terminal,
      Pcs, UpdatePcs, CompletionPcs
<1>6. ASSUME NEW w \in Worker, Finish(w) PROVE TypeInv'
  BY <1>6 DEF Finish, Goto, Send, NoFault, budget, dbVars, history,
      TypeInv, TypeOK, PositiveInDegree, VisitOK, Downstream, InTransaction, Row, Phase, Terminal,
      Pcs, UpdatePcs, CompletionPcs
<1>23. ASSUME NEW v \in Worker, NEW w \in Worker, GiveUp(v, w) PROVE TypeInv'
  BY <1>23 DEF GiveUp, Goto, Send, NoFault, budget, dbVars, history,
      TypeInv, TypeOK, PositiveInDegree, VisitOK, Downstream, InTransaction, Row, Phase, Terminal,
      Pcs, UpdatePcs, CompletionPcs
<1>7. ASSUME NEW w \in Worker, Resend(w) PROVE TypeInv'
  BY <1>7 DEF Resend, Goto, Send, NoFault, budget, dbVars, history,
      TypeInv, TypeOK, PositiveInDegree, VisitOK, Downstream, InTransaction, Row, Phase, Terminal,
      Pcs, UpdatePcs, CompletionPcs
<1>8. ASSUME NEW w \in Worker, UpdateRead(w) PROVE TypeInv'
  <2>a. pc' \in [Worker -> Pcs]
    BY <1>8 DEF UpdateRead, Goto, TypeOK, Pcs, UpdatePcs, CompletionPcs
  <2>b. BudgetOK'
    BY <1>8, BudgetStep DEF UpdateRead, TypeOK, BudgetOK
  <2>1. TypeOK'
    BY <2>a, <2>b, <1>8 DEF UpdateRead, Goto, dbVars, localVars, history,
        TypeOK, BudgetOK, Row, Phase
  <2>2. PositiveInDegree'
    BY <1>8 DEF UpdateRead, Goto, NoFault, Fault, budget, dbVars, localVars, history,
        TypeOK, Row, PositiveInDegree
  <2>3. ASSUME NEW v \in Worker PROVE VisitOK(v)'
    <3>1. CASE v = w
      BY <1>8, <3>1 DEF UpdateRead, Goto, NoFault, Fault, budget, dbVars, localVars, history,
          TypeOK, VisitOK, Downstream, InTransaction, Pcs, UpdatePcs, CompletionPcs, PositiveInDegree, Preds, Succs, Row
    <3>2. CASE v # w
      BY <1>8, <3>2 DEF UpdateRead, Goto, NoFault, Fault, budget, dbVars, localVars, history,
          TypeOK, VisitOK, Downstream, InTransaction, Pcs, UpdatePcs, CompletionPcs
    <3> QED
      BY <3>1, <3>2
  <2> QED
    BY <2>1, <2>2, <2>3 DEF TypeInv
<1>9. ASSUME NEW w \in Worker, UpdateWrite(w) PROVE TypeInv'
  <2>c. row' \in [Node -> Row] /\ \A k \in Node : row'[k].inDegree = row[k].inDegree
    <3> DEFINE m == NodeOf[w]
               r == [row[m] EXCEPT !.phase = report[w]]
    <3>1. m \in Node /\ row[m] \in Row /\ report[w] \in Phase /\ row \in [Node -> Row]
      BY DEF TypeOK
    <3>2. r \in Row /\ r.inDegree = row[m].inDegree
      BY <3>1, SetPhaseType
    <3>3. row' = row \/ row' = [row EXCEPT ![m] = r]
      BY <1>9 DEF UpdateWrite
    <3> QED
      BY <3>1, <3>2, <3>3
  <2>a. pc' \in [Worker -> Pcs]
    BY <1>9 DEF UpdateWrite, Goto, TypeOK, Pcs, UpdatePcs, CompletionPcs
  <2>b. BudgetOK'
    BY <1>9, BudgetStep DEF UpdateWrite, TypeOK, BudgetOK
  <2>1. TypeOK'
    BY <2>c, <2>a, <2>b, <1>9 DEF UpdateWrite, Goto, RowFree, localVars, history,
        TypeOK, BudgetOK, Row, Phase
  <2>2. PositiveInDegree'
    BY <2>c, <1>9 DEF UpdateWrite, Goto, NoFault, Fault, RowFree, budget, localVars, history,
        TypeOK, Row, PositiveInDegree
  <2>3. ASSUME NEW v \in Worker PROVE VisitOK(v)'
    <3>1. CASE v = w
      BY <2>c, <1>9, <3>1 DEF UpdateWrite, Goto, NoFault, Fault, RowFree, budget, localVars, history,
          TypeOK, VisitOK, Downstream, InTransaction, Pcs, UpdatePcs, CompletionPcs, PositiveInDegree, Preds, Succs, Row
    <3>2. CASE v # w
      BY <2>c, <1>9, <3>2 DEF UpdateWrite, Goto, NoFault, Fault, RowFree, budget, localVars, history,
          TypeOK, VisitOK, Downstream, InTransaction, Pcs, UpdatePcs, CompletionPcs
    <3> QED
      BY <3>1, <3>2
  <2> QED
    BY <2>1, <2>2, <2>3 DEF TypeInv
<1>10. ASSUME NEW w \in Worker, UpdatePut(w) PROVE TypeInv'
  <2>a. pc' \in [Worker -> Pcs]
    BY <1>10 DEF UpdatePut, Goto, AfterUpdate, TypeOK, Pcs, UpdatePcs, CompletionPcs
  <2>b. BudgetOK'
    BY <1>10, BudgetStep DEF UpdatePut, TypeOK, BudgetOK
  <2>1. TypeOK'
    BY <2>a, <2>b, <1>10 DEF UpdatePut, Goto, AfterUpdate, dbVars, localVars, history,
        TypeOK, BudgetOK, Row, Phase
  <2>2. PositiveInDegree'
    BY <1>10 DEF UpdatePut, Goto, NoFault, Fault, AfterUpdate, budget, dbVars, localVars, history,
        TypeOK, Row, PositiveInDegree
  <2>3. ASSUME NEW v \in Worker PROVE VisitOK(v)'
    <3>1. CASE v = w
      BY <1>10, <3>1 DEF UpdatePut, Goto, NoFault, Fault, AfterUpdate, budget, dbVars, localVars, history,
          TypeOK, VisitOK, Downstream, InTransaction, Pcs, UpdatePcs, CompletionPcs, PositiveInDegree, Preds, Succs, Row
    <3>2. CASE v # w
      BY <1>10, <3>2 DEF UpdatePut, Goto, NoFault, Fault, AfterUpdate, budget, dbVars, localVars, history,
          TypeOK, VisitOK, Downstream, InTransaction, Pcs, UpdatePcs, CompletionPcs
    <3> QED
      BY <3>1, <3>2
  <2> QED
    BY <2>1, <2>2, <2>3 DEF TypeInv
<1>11. ASSUME NEW w \in Worker, LoadDependencies(w) PROVE TypeInv'
  <2>c. todo' \in [Worker -> SUBSET Node]
    BY <1>11, SuccsInNode DEF LoadDependencies, TypeOK
  <2>a. pc' \in [Worker -> Pcs]
    BY <1>11 DEF LoadDependencies, Goto, TypeOK, Pcs, UpdatePcs, CompletionPcs
  <2>b. BudgetOK'
    BY <1>11, BudgetStep DEF LoadDependencies, TypeOK, BudgetOK
  <2>1. TypeOK'
    BY <2>c, <2>a, <2>b, <1>11 DEF LoadDependencies, Goto, dbVars, history,
        TypeOK, BudgetOK, Row, Phase
  <2>2. PositiveInDegree'
    BY <2>c, <1>11 DEF LoadDependencies, Goto, NoFault, Fault, budget, dbVars, history,
        TypeOK, Row, PositiveInDegree
  <2>3. ASSUME NEW v \in Worker PROVE VisitOK(v)'
    <3>1. CASE v = w
      BY <2>c, <1>11, <3>1 DEF LoadDependencies, Goto, NoFault, Fault, budget, dbVars, history,
          TypeOK, VisitOK, Downstream, InTransaction, Pcs, UpdatePcs, CompletionPcs, PositiveInDegree, Preds, Succs, Row
    <3>2. CASE v # w
      BY <2>c, <1>11, <3>2 DEF LoadDependencies, Goto, NoFault, Fault, budget, dbVars, history,
          TypeOK, VisitOK, Downstream, InTransaction, Pcs, UpdatePcs, CompletionPcs
    <3> QED
      BY <3>1, <3>2
  <2> QED
    BY <2>1, <2>2, <2>3 DEF TypeInv
<1>12. ASSUME NEW w \in Worker, ReadDownstream(w) PROVE TypeInv'
  <2>c. todo' \in [Worker -> SUBSET Node] /\ read' \in [Worker -> Row] /\ down' \in [Worker -> Node \cup {None}]
    BY <1>12 DEF ReadDownstream, TypeOK
  <2>a. pc' \in [Worker -> Pcs]
    BY <1>12 DEF ReadDownstream, TypeOK, Pcs, UpdatePcs, CompletionPcs
  <2>b. BudgetOK'
    BY <1>12, BudgetStep DEF ReadDownstream, TypeOK, BudgetOK
  <2>1. TypeOK'
    BY <2>c, <2>a, <2>b, <1>12 DEF ReadDownstream, dbVars, history,
        TypeOK, BudgetOK, Row, Phase
  <2>2. PositiveInDegree'
    BY <2>c, <1>12 DEF ReadDownstream, NoFault, Fault, budget, dbVars, history,
        TypeOK, Row, PositiveInDegree
  <2>3. ASSUME NEW v \in Worker PROVE VisitOK(v)'
    <3>1. CASE v = w
      <4>1. PICK d \in todo[w] : ReadDownstream(w)!(d)
        BY <1>12 DEF ReadDownstream
      <4>2. d \in Succs(NodeOf[w]) /\ todo[w] \subseteq Succs(NodeOf[w]) /\ Preds(d) # {} /\ d \in Node
        BY <4>1, SuccsInNode DEF VisitOK, Succs, Preds, TypeOK
      <4>3. row[d].inDegree > 0
        BY <4>2 DEF PositiveInDegree
      <4>4. CASE pc' = pc /\ down' = down /\ read' = read
        BY <3>1, <4>1, <4>2, <4>4 DEF VisitOK, Downstream, InTransaction, UpdatePcs, TypeOK
      <4>5. CASE /\ pc' = [pc EXCEPT ![w] = "decrement"]
                 /\ down' = [down EXCEPT ![w] = d]
                 /\ read' = [read EXCEPT ![w] = row[d]]
        BY <3>1, <4>1, <4>2, <4>3, <4>5 DEF VisitOK, Downstream, InTransaction, UpdatePcs, TypeOK
      <4> QED
        BY <4>1, <4>4, <4>5
    <3>2. CASE v # w
      BY <2>c, <1>12, <3>2 DEF ReadDownstream, NoFault, Fault, budget, dbVars, history,
          TypeOK, VisitOK, Downstream, InTransaction, Pcs, UpdatePcs, CompletionPcs
    <3> QED
      BY <3>1, <3>2
  <2> QED
    BY <2>1, <2>2, <2>3 DEF TypeInv
<1>13. ASSUME NEW w \in Worker, Decrement(w) PROVE TypeInv'
  <2>0. down[w] \in Node /\ <<NodeOf[w], down[w]>> \in Edge
    BY <1>13 DEF Decrement, Succs, TypeOK, VisitOK, Downstream, InTransaction, Pcs, UpdatePcs, CompletionPcs
  <2>c. lock' \in [Node -> Worker \cup {None}] /\ down' \in [Worker -> Node \cup {None}]
    BY <2>0, <1>13 DEF Decrement, TypeOK
  <2>a. pc' \in [Worker -> Pcs]
    BY <1>13 DEF Decrement, TypeOK, Pcs, UpdatePcs, CompletionPcs
  <2>b. BudgetOK'
    BY <1>13, BudgetStep DEF Decrement, TypeOK, BudgetOK
  <2>1. TypeOK'
    BY <2>0, <2>c, <2>a, <2>b, <1>13 DEF Decrement, RowFree, NewInDegree, dbVars,
        TypeOK, BudgetOK, Row, Phase
  <2>2. PositiveInDegree'
    BY <2>0, <2>c, <1>13 DEF Decrement, NoFault, Fault, RowFree, NewInDegree, budget, dbVars,
        TypeOK, Row, PositiveInDegree
  <2>3. ASSUME NEW v \in Worker PROVE VisitOK(v)'
    <3>1. CASE v = w
      BY <2>0, <2>c, <1>13, <3>1 DEF Decrement, NoFault, Fault, RowFree, NewInDegree, budget, dbVars,
          TypeOK, VisitOK, Downstream, InTransaction, Pcs, UpdatePcs, CompletionPcs, PositiveInDegree, Preds, Succs, Row
    <3>2. CASE v # w
      BY <2>0, <2>c, <1>13, <3>2 DEF Decrement, NoFault, Fault, RowFree, NewInDegree, budget, dbVars,
          TypeOK, VisitOK, Downstream, InTransaction, Pcs, UpdatePcs, CompletionPcs
    <3> QED
      BY <3>1, <3>2
  <2> QED
    BY <2>1, <2>2, <2>3 DEF TypeInv
<1>14. ASSUME NEW w \in Worker, Trigger(w) PROVE TypeInv'
  <2>0. down[w] \in Node /\ <<NodeOf[w], down[w]>> \in Edge
    BY <1>14 DEF Trigger, Succs, TypeOK, VisitOK, Downstream, InTransaction, Pcs, UpdatePcs, CompletionPcs
  <2>c. /\ etcd' \in [Node -> Phase \cup {None}] /\ readyPuts' \in [Node -> Nat]
        /\ lock' \in [Node -> Worker \cup {None}] /\ down' \in [Worker -> Node \cup {None}]
    BY <2>0, <1>14 DEF Trigger, PutReady, EndTransaction, TypeOK, Phase
  <2>a. pc' \in [Worker -> Pcs]
    BY <1>14 DEF Trigger, EndTransaction, TypeOK, Pcs, UpdatePcs, CompletionPcs
  <2>b. BudgetOK'
    BY <1>14, BudgetStep DEF Trigger, TypeOK, BudgetOK
  <2>1. TypeOK'
    BY <2>0, <2>c, <2>a, <2>b, <1>14 DEF Trigger, EndTransaction, dbVars,
        TypeOK, BudgetOK, Row, Phase
  <2>2. PositiveInDegree'
    BY <2>0, <2>c, <1>14 DEF Trigger, NoFault, Fault, PutReady, EndTransaction, budget, dbVars,
        TypeOK, Row, PositiveInDegree
  <2>3. ASSUME NEW v \in Worker PROVE VisitOK(v)'
    <3>1. CASE v = w
      BY <2>0, <2>c, <1>14, <3>1 DEF Trigger, NoFault, Fault, PutReady, EndTransaction, budget, dbVars,
          TypeOK, VisitOK, Downstream, InTransaction, Pcs, UpdatePcs, CompletionPcs, PositiveInDegree, Preds, Succs, Row
    <3>2. CASE v # w
      BY <2>0, <2>c, <1>14, <3>2 DEF Trigger, NoFault, Fault, PutReady, EndTransaction, budget, dbVars,
          TypeOK, VisitOK, Downstream, InTransaction, Pcs, UpdatePcs, CompletionPcs
    <3> QED
      BY <3>1, <3>2
  <2> QED
    BY <2>1, <2>2, <2>3 DEF TypeInv
<1>15. ASSUME NEW w \in Worker, Commit(w) PROVE TypeInv'
  <2>0. /\ down[w] \in Node
        /\ Written(w) \in Row
        /\ Preds(down[w]) # {} => Written(w).inDegree > 0
    <3>1. pc[w] = "commit" /\ down[w] \in Succs(NodeOf[w]) /\ read[w].inDegree > 0
      BY <1>15 DEF Commit, VisitOK, Downstream, InTransaction
    <3>2. down[w] \in Node /\ row[down[w]] \in Row /\ read[w] \in Row
      BY <3>1, SuccsInNode DEF TypeOK
    <3>3. /\ read[w].inDegree \in Nat /\ read[w].phase \in Phase /\ row[down[w]].inDegree \in Nat
          /\ Preds(down[w]) # {} => row[down[w]].inDegree > 0
      BY <3>2 DEF Row, PositiveInDegree
    <3>4. NewInDegree(w) \in Nat
      BY <3>1, <3>3 DEF NewInDegree
    <3> QED
      BY <3>2, <3>3, <3>4 DEF Written, Row, Phase
  <2>c. row' \in [Node -> Row] /\ \A k \in Node : Preds(k) # {} => row'[k].inDegree > 0
    BY <2>0, <1>15 DEF Commit, TypeOK, PositiveInDegree
  <2>a. pc' \in [Worker -> Pcs]
    BY <1>15 DEF Commit, EndTransaction, TypeOK, Pcs, UpdatePcs, CompletionPcs
  <2>b. BudgetOK'
    BY <1>15, BudgetStep DEF Commit, TypeOK, BudgetOK
  <2>1. TypeOK'
    BY <2>0, <2>c, <2>a, <2>b, <1>15 DEF Commit, EndTransaction, NewInDegree, history,
        TypeOK, BudgetOK, Row, Phase
  <2>2. PositiveInDegree'
    BY <2>0, <2>c, <1>15 DEF Commit, NoFault, Fault, EndTransaction, NewInDegree, budget, history,
        TypeOK, Row, PositiveInDegree
  <2>3. ASSUME NEW v \in Worker PROVE VisitOK(v)'
    <3>1. CASE v = w
      BY <2>0, <2>c, <1>15, <3>1 DEF Commit, NoFault, Fault, EndTransaction, Written, NewInDegree, budget, history,
          TypeOK, VisitOK, Downstream, InTransaction, Pcs, UpdatePcs, CompletionPcs, PositiveInDegree, Preds, Succs, Row
    <3>2. CASE v # w
      BY <2>0, <2>c, <1>15, <3>2 DEF Commit, NoFault, Fault, EndTransaction, Written, NewInDegree, budget, history,
          TypeOK, VisitOK, Downstream, InTransaction, Pcs, UpdatePcs, CompletionPcs
    <3> QED
      BY <3>1, <3>2
  <2> QED
    BY <2>1, <2>2, <2>3 DEF TypeInv
<1>16. ASSUME NEW w \in Worker, CheckCompletion(w) PROVE TypeInv'
  <2>a. pc' \in [Worker -> Pcs]
    BY <1>16 DEF CheckCompletion, Goto, TypeOK, Pcs, UpdatePcs, CompletionPcs
  <2>b. BudgetOK'
    BY <1>16, BudgetStep DEF CheckCompletion, TypeOK, BudgetOK
  <2>1. TypeOK'
    BY <2>a, <2>b, <1>16 DEF CheckCompletion, Goto, PipelineVerdict, dbVars, history,
        TypeOK, BudgetOK, Row, Phase
  <2>2. PositiveInDegree'
    BY <1>16 DEF CheckCompletion, Goto, NoFault, Fault, PipelineVerdict, budget, dbVars, history,
        TypeOK, Row, PositiveInDegree
  <2>3. ASSUME NEW v \in Worker PROVE VisitOK(v)'
    <3>1. CASE v = w
      BY <1>16, <3>1 DEF CheckCompletion, Goto, NoFault, Fault, PipelineVerdict, budget, dbVars, history,
          TypeOK, VisitOK, Downstream, InTransaction, Pcs, UpdatePcs, CompletionPcs, PositiveInDegree, Preds, Succs, Row
    <3>2. CASE v # w
      BY <1>16, <3>2 DEF CheckCompletion, Goto, NoFault, Fault, PipelineVerdict, budget, dbVars, history,
          TypeOK, VisitOK, Downstream, InTransaction, Pcs, UpdatePcs, CompletionPcs
    <3> QED
      BY <3>1, <3>2
  <2> QED
    BY <2>1, <2>2, <2>3 DEF TypeInv
<1>17. ASSUME NEW w \in Worker, UpdateStatus(w) PROVE TypeInv'
  BY <1>17 DEF UpdateStatus, Goto, NoFault, Fault, budget, localVars, history,
      TypeInv, TypeOK, PositiveInDegree, VisitOK, Downstream, InTransaction, Row, Phase, Terminal,
      Pcs, UpdatePcs, CompletionPcs
<1>18. ASSUME NEW w \in Worker, Cleanup(w) PROVE TypeInv'
  <2>1. /\ UNCHANGED <<dbVars, lock, runPc, pc, report, down, read, verdict, history>>
        /\ pc[w] = "cleanup" /\ (Fault \/ NoFault)
        /\ todo' \in [Worker -> SUBSET Node] /\ \A v \in Worker \ {w} : todo'[v] = todo[v]
        /\ etcd' \in [Node -> Phase \cup {None}]
    BY <1>18 DEF Cleanup, TypeOK
  <2>2. BudgetOK'
    BY <2>1, BudgetStep DEF TypeOK, BudgetOK
  <2>3. TypeOK'
    BY <2>1, <2>2 DEF dbVars, history, TypeOK, BudgetOK
  <2>4. ASSUME NEW v \in Worker PROVE VisitOK(v)'
    BY <2>1 DEF VisitOK, Downstream, InTransaction, UpdatePcs
  <2> QED
    BY <2>1, <2>3, <2>4 DEF TypeInv, PositiveInDegree, Preds, dbVars
<1>19. ASSUME NEW w \in Worker, CleanupEnd(w) PROVE TypeInv'
  BY <1>19 DEF CleanupEnd, Goto, NoFault, budget, dbVars, localVars, history,
      TypeInv, TypeOK, PositiveInDegree, VisitOK, Downstream, InTransaction, Row, Phase, Terminal,
      Pcs, UpdatePcs, CompletionPcs
<1>20. ASSUME NEW n \in Node, Delete(n) PROVE TypeInv'
  BY <1>20 DEF Delete, KeyGen, BuildObjectKey, localVars, history,
      TypeInv, TypeOK, PositiveInDegree, VisitOK, Downstream, InTransaction, Row, Phase, Terminal,
      Pcs, UpdatePcs, CompletionPcs
<1>21. CASE Crash
  BY <1>21 DEF Crash, dbVars, history,
      TypeInv, TypeOK, PositiveInDegree, VisitOK, Downstream, InTransaction, Row, Phase, Terminal,
      Pcs, UpdatePcs, CompletionPcs
<1>22. CASE UNCHANGED vars
  BY <1>22 DEF vars,
      TypeInv, TypeOK, PositiveInDegree, VisitOK, Downstream, InTransaction, Row, Phase, Terminal,
      Pcs, UpdatePcs, CompletionPcs
<1> QED
  BY <1>1, <1>2, <1>3, <1>4, <1>5, <1>6, <1>7, <1>8, <1>9, <1>10, <1>11, <1>12, <1>13, <1>14, <1>15, <1>16, <1>17, <1>18, <1>19, <1>20, <1>21, <1>22, <1>23
  DEF Next, Run, Operator, Update, Completion, LostAnswer, Stopped

(* The state keeps its types, and a decrement never goes below 0, on every  *)
(* graph, with any number of deliveries, failures, restarts and deletions.  *)
THEOREM TypeCorrect == Spec => []TypeOK
<1>1. TypeInv => TypeOK
  BY DEF TypeInv
<1> QED
  BY <1>1, TypeInit, TypeStep, PTL DEF Spec

----------------------------------------------------------------------------
(* Facts about steps. *)

(* A step of one worker does not move another.                              *)
Frame(v) ==
    /\ pc'[v] = pc[v] /\ report'[v] = report[v] /\ todo'[v] = todo[v]
    /\ down'[v] = down[v] /\ read'[v] = read[v]

(* A step of one worker leaves the others where they are.                   *)
LEMMA OthersStay ==
    ASSUME TypeInv, NEW w \in Worker, Operator(w) \/ Update(w) \/ Completion(w),
           NEW v \in Worker \ {w}
    PROVE  Frame(v)
<1> USE DEF TypeInv, TypeOK, Frame
<1>1. CASE Operator(w)
  BY <1>1 DEF Operator, Begin, Finish, Resend, Send, Goto
<1>2. CASE Update(w)
  BY <1>2 DEF Update, UpdateRead, UpdateWrite, UpdatePut, Goto, localVars
<1>3. CASE LoadDependencies(w) \/ ReadDownstream(w)
  BY <1>3 DEF LoadDependencies, ReadDownstream, Goto
<1>4. CASE Decrement(w) \/ Trigger(w) \/ Commit(w)
  BY <1>4 DEF Decrement, Trigger, Commit, EndTransaction
<1>5. CASE CheckCompletion(w) \/ UpdateStatus(w) \/ Cleanup(w) \/ CleanupEnd(w)
  BY <1>5 DEF CheckCompletion, UpdateStatus, Cleanup, CleanupEnd, Goto, localVars
<1> QED
  BY <1>1, <1>2, <1>3, <1>4, <1>5 DEF Completion

(* The steps of no worker leave them all, unless the server stops.          *)
LEMMA WorkersStay ==
    ASSUME Run \/ (\E n \in Node : Delete(n)) \/ UNCHANGED vars, NEW v \in Worker
    PROVE  Frame(v)
  BY DEF Run, RunPut, RunPutFails, RunWithoutNodes, RunCommit, RunCommitFails, Delete, localVars,
      vars, Frame

(* Every step is a step of a worker, of Run, a deletion, a restart or none. *)
LEMMA StepCases ==
    ASSUME [Next]_vars
    PROVE  \/ \E w \in Worker : Operator(w) \/ Update(w) \/ Completion(w)
           \/ Run \/ (\E n \in Node : Delete(n)) \/ UNCHANGED vars
           \/ LostAnswer \/ Crash
  BY DEF Next, Stopped

(* An answer that is lost sends a spare attempt of the operator to repeat   *)
(* the report; nothing else changes.                                        *)
LEMMA GiveUpStep ==
    ASSUME TypeInv, LostAnswer
    PROVE  /\ NoFault /\ UNCHANGED <<pipe, present, row, etcd, lock, runPc, verdict, readyPuts, decremented>>
           /\ \A v \in Worker : Frame(v) \/ (pc[v] = "idle" /\ pc'[v] = "retry")
<1>1. PICK u \in Worker, w \in Worker : GiveUp(u, w)
  BY DEF LostAnswer
<1>2. /\ NoFault /\ UNCHANGED <<pipe, present, row, etcd, lock, runPc, verdict, readyPuts, decremented>>
      /\ pc[w] = "idle" /\ pc' = [pc EXCEPT ![w] = "retry"]
      /\ report' = [report EXCEPT ![w] = report[u]] /\ UNCHANGED <<todo, down, read>>
  BY <1>1 DEF GiveUp, Send, Goto, dbVars, history
<1>3. pc \in [Worker -> Pcs] /\ report \in [Worker -> Phase]
  BY DEF TypeInv, TypeOK
<1>4. ASSUME NEW v \in Worker PROVE Frame(v) \/ (pc[v] = "idle" /\ pc'[v] = "retry")
  BY <1>2, <1>3 DEF Frame
<1> QED
  BY <1>2, <1>4

(* Nobody ever becomes idle again, so what was repeated stays repeated.     *)
LEMMA IdleStays ==
    ASSUME TypeInv, [Next]_vars, NEW v \in Worker, pc'[v] = "idle" PROVE pc[v] = "idle"
<1>1. pc \in [Worker -> Pcs]
  BY DEF TypeInv, TypeOK
<1>2. ASSUME NEW w \in Worker, Operator(w) \/ Update(w) PROVE pc[v] = "idle"
  BY <1>1, <1>2 DEF Operator, Begin, Finish, Resend, Goto, Update, UpdateRead, UpdateWrite,
      UpdatePut, AfterUpdate
<1>3. ASSUME NEW w \in Worker, Completion(w) PROVE pc[v] = "idle"
  BY <1>1, <1>3 DEF Completion, LoadDependencies, ReadDownstream, Decrement, Trigger, Commit,
      EndTransaction, CheckCompletion, UpdateStatus, Cleanup, CleanupEnd, Goto
<1>4. CASE Run \/ (\E n \in Node : Delete(n)) \/ UNCHANGED vars
  BY <1>4 DEF Run, RunPut, RunPutFails, RunWithoutNodes, RunCommit, RunCommitFails, Delete, vars
<1>5. CASE LostAnswer \/ Crash
  BY <1>1, <1>5 DEF LostAnswer, GiveUp, Goto, Crash
<1> QED
  BY <1>2, <1>3, <1>4, <1>5 DEF Next, Stopped

(* Ready events are never taken back.                                       *)
LEMMA PutsStay ==
    ASSUME TypeInv, [Next]_vars, NEW n \in Node, readyPuts[n] > 0 PROVE readyPuts'[n] > 0
<1>1. readyPuts' = readyPuts \/ \E S \in SUBSET Node : PutReady(S)
  BY SuccsInNode, WorkerAssumption, GiveUpStep
  DEF Next, Run, RunPut, RunPutFails, RunWithoutNodes, RunCommit, RunCommitFails,
      Operator, Begin, Finish, Resend, Send, Update, UpdateRead, UpdateWrite, UpdatePut,
      Completion, LoadDependencies, ReadDownstream, Decrement, Trigger, Commit,
      CheckCompletion, UpdateStatus, Cleanup, CleanupEnd, Delete, Crash, Stopped, vars, history,
      Roots, TypeInv, VisitOK, Downstream, InTransaction
<1> QED
  BY <1>1 DEF PutReady, TypeInv, TypeOK

----------------------------------------------------------------------------
(* Each report counts once.                                                 *)

(* A completion is past d when it has no visit of d ahead: it did it, it    *)
(* skipped it after a failed call, or it was cut off by a restart.          *)
Past(d) ==
    {w \in Worker :
        /\ NodeOf[w] \in Preds(d) /\ report[w] = "Succeeded"
        /\ \/ pc[w] \in {"status", "cleanup", "done"}
           \/ /\ pc[w] = "next" \/ Downstream(w)
              /\ d \notin todo[w] /\ ~(pc[w] = "decrement" /\ down[w] = d)}

(* The Ready events of d that were put, and one that is about to be.        *)
Starting(d) == \E w \in Worker : pc[w] = "trigger" /\ down[w] = d
Debt(d) == readyPuts[d] + (IF Starting(d) THEN 1 ELSE 0)

(* An in-degree that was stored, or read, or is about to be stored, is      *)
(* never below the number of predecessors less the completions that are     *)
(* past the node, of which each event already put has used up one.          *)
Covers(d, inDegree) == Cardinality(Preds(d)) + Debt(d) <= inDegree + Cardinality(Past(d))

CountOK(d) ==
    /\ Preds(d) # {} => Covers(d, row[d].inDegree) /\ (Debt(d) > 0 => Covers(d, 1))
    /\ Preds(d) = {} => readyPuts[d] <= 1 /\ (runPc = "put" => readyPuts[d] = 0)

TurnOK(w) ==
    /\ pc[w] \in CompletionPcs => report[w] = "Succeeded"
    /\ Downstream(w) => down[w] \notin todo[w]
    /\ InTransaction(w) => lock[down[w]] = w
    /\ pc[w] = "decrement" => Covers(down[w], read[w].inDegree)
    /\ pc[w] = "trigger" => NewInDegree(w) = 0
    /\ pc[w] = "commit" /\ NewInDegree(w) # 0 => Covers(down[w], NewInDegree(w))

CountInv == (\A d \in Node : CountOK(d)) /\ (\A w \in Worker : TurnOK(w))

(* Nothing is past any node initially, and nothing has been started. *)
LEMMA CountInit == Init => CountInv
<1> SUFFICES ASSUME Init PROVE CountInv
  OBVIOUS
<1>1. ASSUME NEW d \in Node PROVE CountOK(d)
  <2>1. Past(d) = {} /\ Debt(d) = 0
    BY DEF Init, Past, Downstream, InTransaction, Debt, Starting
  <2>2. ASSUME Preds(d) # {} PROVE row[d].inDegree = Cardinality(Preds(d))
    BY <2>2, InDegreeAssumption DEF Init, NewNodeExec
  <2>3. readyPuts[d] = 0 /\ Cardinality({}) = 0
    BY FS_EmptySet DEF Init
  <2>4. IsFiniteSet(Preds(d))
    BY FS_Subset, NodeAssumption DEF Preds
  <2>5. Cardinality(Preds(d)) \in Nat
    BY <2>4, FS_CardinalityType
  <2> QED
    BY <2>1, <2>2, <2>3, <2>5 DEF CountOK, Covers
<1>2. ASSUME NEW w \in Worker PROVE TurnOK(w)
  BY DEF Init, TurnOK, Downstream, InTransaction, CompletionPcs
<1> QED
  BY <1>1, <1>2 DEF CountInv

(* What is counted are numbers, in every state. *)
LEMMA CountTypes ==
    ASSUME TypeInv, NEW d \in Node
    PROVE  /\ Cardinality(Preds(d)) \in Nat /\ Debt(d) \in Nat
           /\ IsFiniteSet(Past(d)) /\ Cardinality(Past(d)) \in Nat
<1>1. IsFiniteSet(Preds(d)) /\ IsFiniteSet(Past(d))
  BY FS_Subset, NodeAssumption, WorkerAssumption DEF Preds, Past
<1>2. Debt(d) \in Nat
  BY DEF Debt, TypeInv, TypeOK
<1> QED
  BY <1>1, <1>2, FS_CardinalityType

(* Also in the next state. *)
LEMMA CountTypesNext ==
    ASSUME TypeInv', NEW d \in Node
    PROVE  Debt(d)' \in Nat /\ IsFiniteSet(Past(d)') /\ Cardinality(Past(d)') \in Nat
<1>1. IsFiniteSet(Past(d)')
  BY FS_Subset, WorkerAssumption DEF Past
<1>2. Debt(d)' \in Nat
  BY DEF Debt, TypeInv, TypeOK
<1> QED
  BY <1>1, <1>2, FS_CardinalityType

(* A completion that is past a node stays so.                               *)
LEMMA PastStays ==
    ASSUME TypeInv, CountInv, [Next]_vars, NEW d \in Node, NEW v \in Past(d) PROVE v \in Past(d)'
<1>0. /\ v \in Worker /\ pc \in [Worker -> Pcs] /\ todo \in [Worker -> SUBSET Node]
      /\ down \in [Worker -> Node \cup {None}] /\ report \in [Worker -> Phase]
  BY DEF Past, TypeInv, TypeOK
<1>1. CASE Frame(v)
  BY <1>1 DEF Past, Frame, Downstream, InTransaction
<1>2. CASE Operator(v) \/ Update(v)
  BY <1>2 DEF Past, Downstream, InTransaction, Operator, Begin, Finish, Resend, Goto, Update, UpdateRead,
      UpdateWrite, UpdatePut
<1>3. CASE ReadDownstream(v)
  <2>1. PICK e \in todo[v] : ReadDownstream(v)!(e)
    BY <1>3 DEF ReadDownstream
  <2>2. d \notin todo[v] /\ e # d
    BY <2>1 DEF Past, Downstream, InTransaction
  <2> QED
    BY <1>0, <2>1, <2>2 DEF Past, Downstream, InTransaction
<1>4. CASE Decrement(v) \/ Trigger(v) \/ Commit(v)
  <2>1. /\ d \notin todo[v] /\ todo' = todo /\ report' = report
        /\ pc'[v] \in {"next", "trigger", "commit"}
    BY <1>0, <1>4 DEF Past, Downstream, InTransaction, Decrement, Trigger, Commit, EndTransaction
  <2> QED
    BY <1>0, <2>1 DEF Past, Downstream, InTransaction
<1>5. CASE LoadDependencies(v) \/ CheckCompletion(v) \/ UpdateStatus(v) \/ Cleanup(v) \/ CleanupEnd(v)
  BY <1>0, <1>5 DEF Past, Downstream, InTransaction, LoadDependencies, CheckCompletion, UpdateStatus,
      Cleanup, CleanupEnd, Goto, localVars
<1>6. CASE Crash
  BY <1>0, <1>6 DEF Past, Downstream, InTransaction, Crash, UpdatePcs, CompletionPcs
<1>7. ASSUME NEW w \in Worker, w # v, Operator(w) \/ Update(w) \/ Completion(w) PROVE Frame(v)
  BY <1>0, <1>7, OthersStay
<1>8. CASE Run \/ (\E n \in Node : Delete(n)) \/ UNCHANGED vars
  BY <1>0, <1>1, <1>8, WorkersStay
<1>9. CASE LostAnswer
  BY <1>0, <1>1, <1>9, GiveUpStep DEF Past, Downstream, InTransaction
<1> QED
  BY <1>0, <1>1, <1>2, <1>3, <1>4, <1>5, <1>6, <1>7, <1>8, <1>9, StepCases DEF Completion

(* The events of a node, put or about to be, do not outgrow the completions *)
(* that are past it.                                                        *)
Keeps(d) == Cardinality(Past(d)) + Debt(d)' <= Cardinality(Past(d)') + Debt(d)

(* The steps that put Ready events. *)
LEMMA PutCases ==
    ASSUME TypeInv, [Next]_vars
    PROVE  /\ runPc' = "put" => runPc = "put"
           /\ \/ readyPuts' = readyPuts
              \/ runPc = "put" /\ runPc' # "put" /\ PutReady(Roots)
              \/ \E w \in Worker : Trigger(w) /\ PutReady({down[w]})
  BY GiveUpStep
  DEF Next, Run, RunPut, RunPutFails, RunWithoutNodes, RunCommit, RunCommitFails,
      Operator, Begin, Finish, Resend, Send, Update, UpdateRead, UpdateWrite, UpdatePut,
      Completion, LoadDependencies, ReadDownstream, Decrement, Trigger, Commit,
      CheckCompletion, UpdateStatus, Cleanup, CleanupEnd, Delete, Crash, Stopped, vars, history

(* Only a decrement brings a completion to start a node.                    *)
LEMMA TriggerCases ==
    ASSUME TypeInv, [Next]_vars, NEW v \in Worker, pc'[v] = "trigger"
    PROVE  down'[v] = down[v] /\ (pc[v] = "trigger" \/ (Decrement(v) /\ NewInDegree(v) = 0))
<1>0. pc \in [Worker -> Pcs] /\ down \in [Worker -> Node \cup {None}]
  BY DEF TypeInv, TypeOK
<1>1. CASE Frame(v)
  BY <1>1 DEF Frame
<1>2. CASE Operator(v) \/ Update(v)
  BY <1>0, <1>2 DEF Operator, Begin, Finish, Resend, Goto, Update, UpdateRead, UpdateWrite,
      UpdatePut, AfterUpdate
<1>3. CASE Completion(v)
  BY <1>0, <1>3 DEF Completion, LoadDependencies, ReadDownstream, Decrement, Trigger, Commit,
      EndTransaction, CheckCompletion, UpdateStatus, Cleanup, CleanupEnd, Goto, localVars
<1>4. ASSUME NEW w \in Worker, w # v, Operator(w) \/ Update(w) \/ Completion(w) PROVE Frame(v)
  BY <1>4, OthersStay
<1>5. CASE Run \/ (\E n \in Node : Delete(n)) \/ UNCHANGED vars
  BY <1>1, <1>5, WorkersStay
<1>6. CASE LostAnswer
  BY <1>1, <1>6, GiveUpStep
<1>7. CASE Crash
  BY <1>0, <1>7 DEF Crash, UpdatePcs, CompletionPcs
<1> QED
  BY <1>1, <1>2, <1>3, <1>4, <1>5, <1>6, <1>7, StepCases

(* Who visits a node, visits one that has predecessors. *)
LEMMA Visited ==
    ASSUME TypeInv, NEW w \in Worker, Downstream(w)
    PROVE  /\ down[w] \in Node /\ Preds(down[w]) # {} /\ NodeOf[w] \in Preds(down[w])
           /\ read[w] \in Row /\ read[w].inDegree \in Nat
<1>1. down[w] \in Succs(NodeOf[w]) /\ NodeOf[w] \in Node /\ read[w] \in Row
  BY WorkerAssumption DEF TypeInv, TypeOK, VisitOK
<1> QED
  BY <1>1 DEF Succs, Preds, Row

(* A decrement puts its completion past the node.                           *)
LEMMA DecrementCounts ==
    ASSUME TypeInv, TypeInv', CountInv, [Next]_vars, NEW w \in Worker, Decrement(w),
           pc'[w] \in {"trigger", "commit"}, NEW d \in Node, down[w] = d
    PROVE  Cardinality(Past(d)') >= Cardinality(Past(d)) + 1
<1>1. pc[w] = "decrement" /\ todo' = todo /\ report' = report /\ report[w] = "Succeeded" /\ d \notin todo[w]
  BY DEF Decrement, CountInv, TurnOK, CompletionPcs, Downstream
<1>2. NodeOf[w] \in Preds(d)
  BY <1>1, Visited DEF Downstream
<1>3. w \notin Past(d)
  BY <1>1 DEF Past, Downstream, InTransaction
<1>4. w \in Past(d)'
  BY <1>1, <1>2 DEF Past, Downstream, InTransaction, Preds
<1>5. Past(d) \cup {w} \subseteq Past(d)'
  BY <1>4, PastStays
<1>6. /\ IsFiniteSet(Past(d)) /\ Cardinality(Past(d)) \in Nat
      /\ IsFiniteSet(Past(d)') /\ Cardinality(Past(d)') \in Nat
  BY CountTypes, CountTypesNext
<1>7. Cardinality(Past(d) \cup {w}) = Cardinality(Past(d)) + 1
  BY <1>3, <1>6, FS_AddElement
<1>8. Cardinality(Past(d) \cup {w}) <= Cardinality(Past(d)')
  BY <1>5, <1>6, FS_Subset
<1> QED
  BY <1>6, <1>7, <1>8

(* A node is given at most one further event for each completion that gets  *)
(* past it: the one that counts its in-degree down to 0.                    *)
LEMMA KeepsStep ==
    ASSUME TypeInv, TypeInv', CountInv, [Next]_vars, NEW d \in Node, Preds(d) # {}
    PROVE  /\ Keeps(d)
           /\ \/ Debt(d)' <= Debt(d)
              \/ \E v \in Worker : /\ Decrement(v) /\ down[v] = d /\ pc'[v] = "trigger"
                                   /\ NewInDegree(v) = 0
<1>1. /\ Debt(d) \in Nat /\ IsFiniteSet(Past(d)) /\ Cardinality(Past(d)) \in Nat
      /\ Debt(d)' \in Nat /\ IsFiniteSet(Past(d)') /\ Cardinality(Past(d)') \in Nat
      /\ readyPuts[d] \in Nat /\ readyPuts'[d] \in Nat
  BY CountTypes, CountTypesNext DEF TypeInv, TypeOK
<1>2. Cardinality(Past(d)) <= Cardinality(Past(d)')
  BY <1>1, PastStays, FS_Subset
<1>3. CASE Debt(d)' <= Debt(d)
  BY <1>1, <1>2, <1>3 DEF Keeps
<1>4. CASE readyPuts'[d] = readyPuts[d]
  <2>1. CASE Starting(d)' => Starting(d)
    <3>1. Debt(d)' <= Debt(d)
      BY <1>1, <1>4, <2>1 DEF Debt
    <3> QED
      BY <1>3, <3>1
  <2>2. CASE Starting(d)' /\ ~Starting(d)
    <3>1. PICK v \in Worker : pc'[v] = "trigger" /\ down'[v] = d
      BY <2>2 DEF Starting
    <3>2. Decrement(v) /\ down[v] = d /\ NewInDegree(v) = 0
      BY <2>2, <3>1, TriggerCases DEF Starting
    <3>3. Cardinality(Past(d)') >= Cardinality(Past(d)) + 1
      BY <3>1, <3>2, DecrementCounts
    <3>4. Debt(d)' = Debt(d) + 1
      BY <1>1, <1>4, <2>2 DEF Debt
    <3> QED
      BY <1>1, <3>1, <3>2, <3>3, <3>4 DEF Keeps
  <2> QED
    BY <2>1, <2>2
<1>5. ASSUME NEW w \in Worker, Trigger(w), PutReady({down[w]}), down[w] = d PROVE Debt(d)' <= Debt(d)
  <2>1. Starting(d) /\ pc[w] = "trigger" /\ pc'[w] # "trigger"
    BY <1>5 DEF Trigger, EndTransaction, Starting, TypeInv, TypeOK
  <2>2. readyPuts'[d] = readyPuts[d] + 1
    BY <1>5 DEF PutReady
  <2>3. ASSUME NEW v \in Worker, pc'[v] = "trigger", down'[v] = d PROVE FALSE
    <3>1. v # w
      BY <2>1, <2>3
    <3>2. pc[v] = "trigger" /\ down[v] = d
      <4>1. Frame(v)
        BY <1>5, <3>1, OthersStay DEF Completion
      <4> QED
        BY <2>3, <4>1 DEF Frame
    <3>3. lock[d] = v /\ lock[d] = w
      BY <1>5, <2>1, <3>2 DEF CountInv, TurnOK, InTransaction
    <3> QED
      BY <3>1, <3>3
  <2>4. ~Starting(d)'
    BY <2>3 DEF Starting
  <2> QED
    BY <1>1, <2>1, <2>2, <2>4 DEF Debt
<1>6. CASE PutReady(Roots)
  <2>1. d \notin Roots
    BY InitialInDegree DEF Roots
  <2> QED
    BY <1>4, <1>6, <2>1 DEF PutReady
<1>7. ASSUME NEW w \in Worker, PutReady({down[w]}), down[w] # d PROVE readyPuts'[d] = readyPuts[d]
  BY <1>7 DEF PutReady
<1> QED
  BY <1>3, <1>4, <1>5, <1>6, <1>7, PutCases

(* What covered a node still does.                                          *)
LEMMA CoversStays ==
    ASSUME TypeInv, TypeInv', CountInv, [Next]_vars, NEW d \in Node, Preds(d) # {}
    PROVE  \A k \in Nat :
               Cardinality(Preds(d)) + Debt(d) <= k + Cardinality(Past(d))
                 => Cardinality(Preds(d)) + Debt(d)' <= k + Cardinality(Past(d)')
  BY KeepsStep, CountTypes, CountTypesNext DEF Keeps

(* Each step keeps the count of a node.                                     *)
LEMMA CountOKStep ==
    ASSUME TypeInv, TypeInv', CountInv, [Next]_vars, NEW d \in Node PROVE CountOK(d)'
<1>0. /\ row[d].inDegree \in Nat /\ readyPuts[d] \in Nat /\ CountOK(d)
      /\ Preds(d)' = Preds(d)
  BY DEF TypeInv, TypeOK, Row, CountInv, Preds
<1>1. ASSUME Preds(d) # {} PROVE Covers(d, row[d].inDegree)'
  <2>1. CASE row'[d].inDegree = row[d].inDegree
    BY <1>0, <1>1, <2>1, CoversStays DEF CountOK, Covers
  <2>2. ASSUME NEW w \in Worker, Commit(w), row'[d].inDegree # row[d].inDegree
        PROVE  Covers(d, row[d].inDegree)'
    <3>1. pc[w] = "commit" /\ (row' = row \/ row' = [row EXCEPT ![down[w]] = Written(w)])
      BY <2>2 DEF Commit
    <3>2. down[w] = d /\ row'[d] = Written(w)
      BY <2>2, <3>1 DEF TypeInv, TypeOK
    <3>3. NewInDegree(w) # 0 /\ row'[d].inDegree = NewInDegree(w)
      BY <2>2, <3>2 DEF Written
    <3>4. NewInDegree(w) \in Nat
      BY <3>3 DEF TypeInv, TypeOK, Row
    <3>5. Covers(d, NewInDegree(w))
      BY <3>1, <3>2, <3>3 DEF CountInv, TurnOK
    <3> QED
      BY <1>0, <1>1, <3>3, <3>4, <3>5, CoversStays DEF Covers
  <2>3. ASSUME NEW w \in Worker, UpdateWrite(w) PROVE row'[d].inDegree = row[d].inDegree
    <3>1. row' = row \/ row' = [row EXCEPT ![NodeOf[w]] = [row[NodeOf[w]] EXCEPT !.phase = report[w]]]
      BY <2>3 DEF UpdateWrite
    <3>2. row \in [Node -> Row] /\ report[w] \in Phase /\ NodeOf[w] \in Node
      BY WorkerAssumption DEF TypeInv, TypeOK
    <3>3. [row[NodeOf[w]] EXCEPT !.phase = report[w]].inDegree = row[NodeOf[w]].inDegree
      BY <3>2, SetPhaseType
    <3> QED
      BY <3>1, <3>2, <3>3
  <2>4. CASE row' = row
    BY <2>1, <2>4
  <2> QED
    BY <2>1, <2>2, <2>3, <2>4, GiveUpStep DEF Next, Run, RunPut, RunPutFails, RunWithoutNodes, RunCommit,
        RunCommitFails, Operator, Begin, Finish, Resend, Send, Update, UpdateRead, UpdatePut, Completion,
        LoadDependencies, ReadDownstream, Decrement, Trigger, CheckCompletion, UpdateStatus, Cleanup,
        CleanupEnd, Delete, Crash, Stopped, vars, dbVars
<1>2. ASSUME Preds(d) # {}, Debt(d)' > 0 PROVE Covers(d, 1)'
  <2>1. CASE Debt(d) > 0
    BY <1>0, <1>2, <2>1, CoversStays DEF CountOK, Covers
  <2>2. ASSUME NEW v \in Worker, Decrement(v), down[v] = d, NewInDegree(v) = 0 PROVE Covers(d, 1)'
    <3>1. pc[v] = "decrement"
      BY <2>2 DEF Decrement
    <3>2. read[v].inDegree \in Nat
      BY <3>1, Visited DEF Downstream
    <3>3. Covers(d, read[v].inDegree) /\ read[v].inDegree = 1
      BY <2>2, <3>1, <3>2 DEF CountInv, TurnOK, NewInDegree
    <3> QED
      BY <1>0, <1>2, <3>3, CoversStays DEF Covers
  <2>3. Debt(d) \in Nat /\ Debt(d)' \in Nat
    BY CountTypes, CountTypesNext
  <2> QED
    BY <1>2, <2>1, <2>2, <2>3, KeepsStep
<1>3. ASSUME Preds(d) = {} PROVE readyPuts'[d] <= 1 /\ (runPc' = "put" => readyPuts'[d] = 0)
  <2>1. ASSUME NEW w \in Worker, Trigger(w) PROVE down[w] # d
    BY <1>3, <2>1, Visited DEF Trigger, Downstream, InTransaction
  <2>2. \/ readyPuts'[d] = readyPuts[d]
        \/ runPc = "put" /\ runPc' # "put" /\ readyPuts'[d] \in {readyPuts[d], readyPuts[d] + 1}
    BY <2>1, PutCases DEF PutReady
  <2> QED
    BY <1>0, <1>3, <2>2, PutCases DEF CountOK
<1> QED
  BY <1>0, <1>1, <1>2, <1>3 DEF CountOK

(* The row of a node that a completion holds stays its own.                 *)
LEMMA LockStays ==
    ASSUME TypeInv, CountInv, [Next]_vars, NEW v \in Worker, InTransaction(v), Frame(v)
    PROVE  lock'[down[v]] = v
<1>1. /\ lock[down[v]] = v /\ v # None /\ lock \in [Node -> Worker \cup {None}] /\ down[v] \in Node
      /\ pc \in [Worker -> Pcs]
  BY WorkerAssumption, Visited DEF CountInv, TurnOK, TypeInv, TypeOK, Downstream
<1>2. ASSUME NEW w \in Worker, Decrement(w) PROVE lock'[down[v]] = v
  BY <1>1, <1>2 DEF Decrement, RowFree
<1>3. ASSUME NEW w \in Worker, Trigger(w) \/ Commit(w) PROVE lock'[down[v]] = v
  <2>1. InTransaction(w) /\ pc'[w] # pc[w]
    BY <1>1, <1>3 DEF Trigger, Commit, EndTransaction, InTransaction
  <2>2. w # v /\ lock[down[w]] = w
    BY <2>1 DEF Frame, CountInv, TurnOK
  <2> QED
    BY <1>1, <1>3, <2>2 DEF Trigger, Commit, EndTransaction
<1>4. ~Crash
  BY <1>1 DEF Crash, Frame, InTransaction, UpdatePcs, CompletionPcs
<1> QED
  BY <1>1, <1>2, <1>3, <1>4, GiveUpStep DEF Next, Run, RunPut, RunPutFails, RunWithoutNodes, RunCommit,
      RunCommitFails, Operator, Begin, Finish, Resend, Send, Update, UpdateRead, UpdateWrite, UpdatePut,
      Completion, LoadDependencies, ReadDownstream, CheckCompletion, UpdateStatus, Cleanup,
      CleanupEnd, Delete, Stopped, vars

(* Each step keeps where a completion is.                                   *)
LEMMA TurnStep ==
    ASSUME TypeInv, TypeInv', CountInv, [Next]_vars, NEW v \in Worker PROVE TurnOK(v)'
<1>0. /\ pc \in [Worker -> Pcs] /\ report \in [Worker -> Phase] /\ todo \in [Worker -> SUBSET Node]
      /\ down \in [Worker -> Node \cup {None}] /\ read \in [Worker -> Row]
      /\ lock \in [Node -> Worker \cup {None}] /\ TurnOK(v)
  BY DEF TypeInv, TypeOK, CountInv
<1> USE DEF CompletionPcs
<1>1. CASE Frame(v)
  <2>1. CASE Downstream(v)
    <3>1. down[v] \in Node /\ Preds(down[v]) # {} /\ read[v].inDegree \in Nat
      BY <2>1, Visited
    <3>2. NewInDegree(v)' = NewInDegree(v) /\ (NewInDegree(v) # 0 => NewInDegree(v) \in Nat)
      <4>1. read[v].inDegree > 0
        BY <2>1 DEF TypeInv, VisitOK
      <4> QED
        BY <1>1, <3>1, <4>1 DEF Frame, NewInDegree
    <3>3. pc[v] = "decrement" => Covers(down[v], read[v].inDegree)'
      BY <1>0, <1>1, <3>1, CoversStays DEF Frame, TurnOK, Covers, Preds
    <3>4. pc[v] = "commit" /\ NewInDegree(v) # 0 => Covers(down[v], NewInDegree(v))'
      BY <1>0, <1>1, <3>1, <3>2, CoversStays DEF Frame, TurnOK, Covers, Preds
    <3>5. InTransaction(v) => lock'[down[v]] = v
      BY <1>1, LockStays
    <3> QED
      BY <1>0, <1>1, <3>2, <3>3, <3>4, <3>5 DEF Frame, TurnOK, Downstream, InTransaction
  <2>2. CASE ~Downstream(v)
    BY <1>0, <1>1, <2>2 DEF Frame, TurnOK, Downstream, InTransaction
  <2> QED
    BY <2>1, <2>2
<1>2. CASE Operator(v) \/ Update(v)
  <2>1. pc'[v] \in {"read", "write", "put", "retry", "working", "load", "done"}
        /\ (pc'[v] = "load" => report'[v] = "Succeeded")
    BY <1>0, <1>2 DEF Operator, Begin, Finish, Resend, Goto, Update, UpdateRead, UpdateWrite,
        UpdatePut, AfterUpdate, localVars
  <2> QED
    BY <2>1 DEF TurnOK, Downstream, InTransaction
<1>3. CASE ReadDownstream(v)
  <2>1. PICK e \in todo[v] : ReadDownstream(v)!(e)
    BY <1>3 DEF ReadDownstream
  <2>2. CASE pc' = pc
    BY <1>0, <2>1, <2>2 DEF TurnOK, Downstream, InTransaction
  <2>3. CASE /\ pc' = [pc EXCEPT ![v] = "decrement"] /\ down' = [down EXCEPT ![v] = e]
             /\ read' = [read EXCEPT ![v] = row[e]]
    <3>1. pc[v] = "next" /\ e \in Succs(NodeOf[v]) /\ NodeOf[v] \in Node
      BY <2>1, WorkerAssumption DEF TypeInv, VisitOK
    <3>2. e \in Node /\ Preds(e) # {} /\ row[e].inDegree \in Nat
      BY <3>1 DEF Succs, Preds, TypeInv, TypeOK, Row
    <3>3. Covers(e, row[e].inDegree)
      BY <3>2 DEF CountInv, CountOK
    <3>4. Cardinality(Preds(e)) + Debt(e)' <= row[e].inDegree + Cardinality(Past(e)')
      BY <3>2, <3>3, CoversStays DEF Covers
    <3>5. /\ pc'[v] = "decrement" /\ down'[v] = e /\ read'[v] = row[e] /\ e \notin todo'[v]
          /\ report'[v] = "Succeeded"
      BY <1>0, <2>1, <2>3, <3>1 DEF TurnOK
    <3>6. Covers(down[v], read[v].inDegree)'
      BY <3>4, <3>5 DEF Covers, Preds
    <3> QED
      BY <3>5, <3>6 DEF TurnOK, Downstream, InTransaction
  <2> QED
    BY <2>1, <2>2, <2>3
<1>4. CASE Decrement(v)
  <2>0. PICK d \in Node : d = down[v]
    BY <1>4, Visited DEF Decrement, Downstream
  <2>1. /\ pc[v] = "decrement" /\ report'[v] = "Succeeded" /\ d \notin todo[v]
        /\ UNCHANGED <<todo, read>> /\ Covers(d, read[v].inDegree)
    BY <1>0, <1>4, <2>0 DEF Decrement, TurnOK, Downstream
  <2>2. d \in Node /\ Preds(d) # {} /\ read[v].inDegree \in Nat /\ read[v].inDegree > 0
    BY <2>0, <2>1, Visited DEF Downstream, TypeInv, VisitOK
  <2>3. CASE /\ lock' = [lock EXCEPT ![d] = v] /\ down' = down
             /\ pc' = [pc EXCEPT ![v] = IF NewInDegree(v) = 0 THEN "trigger" ELSE "commit"]
    <3>1. /\ pc'[v] = IF NewInDegree(v) = 0 THEN "trigger" ELSE "commit"
          /\ lock'[d] = v /\ NewInDegree(v)' = NewInDegree(v) /\ down'[v] = d
      BY <1>0, <2>0, <2>1, <2>2, <2>3 DEF NewInDegree
    <3>2. ASSUME NewInDegree(v) # 0 PROVE Covers(down[v], NewInDegree(v))'
      <4>1. Debt(d)' <= Debt(d)
        <5>1. ASSUME NEW u \in Worker, Decrement(u), pc'[u] = "trigger", NewInDegree(u) = 0 PROVE FALSE
          <6>1. u # v
            BY <3>2, <5>1
          <6>2. pc[u] = "decrement" /\ pc'[u] = pc[u]
            BY <1>0, <2>3, <5>1, <6>1 DEF Decrement
          <6> QED
            BY <5>1, <6>2
        <5> QED
          BY <2>2, <5>1, KeepsStep
      <4>2. Cardinality(Past(d)') >= Cardinality(Past(d)) + 1
        BY <1>4, <2>0, <3>1, DecrementCounts
      <4>3. /\ Debt(d) \in Nat /\ Cardinality(Past(d)) \in Nat /\ Cardinality(Preds(d)) \in Nat
            /\ Debt(d)' \in Nat /\ Cardinality(Past(d)') \in Nat
        BY <2>2, CountTypes, CountTypesNext
      <4>4. Cardinality(Preds(d)) + Debt(d)' <= NewInDegree(v) + Cardinality(Past(d)')
        BY <2>1, <2>2, <4>1, <4>2, <4>3 DEF Covers, NewInDegree
      <4> QED
        BY <3>1, <4>4 DEF Covers, Preds
    <3> QED
      BY <2>0, <2>1, <2>2, <3>1, <3>2 DEF TurnOK, Downstream, InTransaction
  <2>4. CASE pc' = [pc EXCEPT ![v] = "next"]
    BY <1>0, <2>1, <2>4 DEF TurnOK, Downstream, InTransaction
  <2> QED
    BY <1>4, <2>0, <2>3, <2>4 DEF Decrement, RowFree
<1>5. CASE Trigger(v) \/ Commit(v)
  <2>1. /\ InTransaction(v) /\ UNCHANGED <<todo, read, report>>
        /\ \/ pc' = [pc EXCEPT ![v] = "next"]
           \/ /\ pc[v] = "trigger" /\ pc' = [pc EXCEPT ![v] = "commit"] /\ UNCHANGED <<lock, down>>
    BY <1>5 DEF Trigger, Commit, EndTransaction, InTransaction
  <2>2. NewInDegree(v)' = NewInDegree(v)
    BY <2>1 DEF NewInDegree
  <2> QED
    BY <1>0, <2>1, <2>2 DEF TurnOK, Downstream, InTransaction
<1>6. CASE LoadDependencies(v) \/ CheckCompletion(v) \/ UpdateStatus(v) \/ Cleanup(v) \/ CleanupEnd(v)
  <2>1. /\ pc[v] \in {"load", "next", "status", "cleanup"} /\ report'[v] = report[v]
        /\ pc'[v] \in {"next", "status", "cleanup", "done"}
    BY <1>0, <1>6 DEF LoadDependencies, CheckCompletion, UpdateStatus, Cleanup, CleanupEnd, Goto, localVars
  <2> QED
    BY <1>0, <2>1 DEF TurnOK, Downstream, InTransaction
<1>7. CASE Crash
  BY <1>0, <1>7 DEF Crash, TurnOK, Downstream, InTransaction, UpdatePcs
<1>8. ASSUME NEW w \in Worker, w # v, Operator(w) \/ Update(w) \/ Completion(w) PROVE Frame(v)
  BY <1>8, OthersStay
<1>9. CASE Run \/ (\E n \in Node : Delete(n)) \/ UNCHANGED vars
  BY <1>1, <1>9, WorkersStay
<1>10. CASE LostAnswer
  BY <1>1, <1>10, GiveUpStep DEF TurnOK, Downstream, InTransaction
<1> QED
  BY <1>1, <1>2, <1>3, <1>4, <1>5, <1>6, <1>7, <1>8, <1>9, <1>10, StepCases DEF Completion

(* Each success report counts once, on every graph, with any number of      *)
(* failed calls, lost answers, repeated reports, restarts and deletions: a  *)
(* node gets its first Ready event after as many accepted reports as it has *)
(* predecessors, and every further event takes a further report.            *)
THEOREM EventsAreCounted == Spec => []StartsAreCounted
<1>1. TypeInv /\ CountInv /\ [Next]_vars => CountInv'
  <2> SUFFICES ASSUME TypeInv, CountInv, [Next]_vars PROVE CountInv'
    OBVIOUS
  <2>1. TypeInv'
    BY TypeStep
  <2> QED
    BY <2>1, CountOKStep, TurnStep DEF CountInv
<1>2. TypeInv /\ CountInv => StartsAreCounted
  <2> SUFFICES ASSUME TypeInv, CountInv, NEW n \in Node, readyPuts[n] > 0
               PROVE  IF Preds(n) = {} THEN readyPuts[n] = 1
                      ELSE Cardinality(Preds(n)) + readyPuts[n] - 1 <= Cardinality(Handled(n))
    BY DEF StartsAreCounted
  <2>1. readyPuts[n] \in Nat /\ CountOK(n)
    BY DEF TypeInv, TypeOK, CountInv
  <2>2. CASE Preds(n) = {}
    BY <2>1, <2>2 DEF CountOK
  <2>3. CASE Preds(n) # {}
    <3>1. Past(n) \subseteq Handled(n)
      BY DEF Past, Handled, Downstream, InTransaction, CompletionPcs
    <3>2. IsFiniteSet(Handled(n))
      BY FS_Subset, WorkerAssumption DEF Handled
    <3>3. /\ Cardinality(Past(n)) <= Cardinality(Handled(n)) /\ Cardinality(Handled(n)) \in Nat
          /\ Cardinality(Past(n)) \in Nat /\ Cardinality(Preds(n)) \in Nat
      BY <3>1, <3>2, FS_Subset, FS_CardinalityType, CountTypes
    <3>4. readyPuts[n] <= Debt(n) /\ Debt(n) \in Nat
      BY <2>1 DEF Debt
    <3>5. Covers(n, 1)
      BY <2>1, <2>3, <3>4 DEF CountOK
    <3> QED
      BY <2>1, <2>3, <3>3, <3>4, <3>5 DEF Covers
  <2> QED
    BY <2>2, <2>3
<1> QED
  BY <1>1, <1>2, TypeInit, TypeStep, CountInit, PTL DEF Spec

----------------------------------------------------------------------------
(* The inductive invariant.                                                 *)

(* The dependencies of d that may still decrement its in-degree. *)
Undone(d) == {m \in Preds(d) : <<m, d>> \notin decremented}

(* A lost update leaves an in-degree too high, never too low: what the row  *)
(* says, and what a completion has read, is at least the number of          *)
(* decrements still to come.                                                *)
RowBound == \A d \in Node : Preds(d) # {} => Cardinality(Undone(d)) <= row[d].inDegree

ReadBound(w) ==
    /\ pc[w] = "decrement" =>
         /\ <<NodeOf[w], down[w]>> \notin decremented
         /\ Cardinality(Undone(down[w])) <= read[w].inDegree
    /\ InTransaction(w) =>
         /\ <<NodeOf[w], down[w]>> \in decremented
         /\ Cardinality(Undone(down[w])) < read[w].inDegree
         /\ lock[down[w]] = w
    /\ pc[w] = "trigger" => NewInDegree(w) = 0 /\ readyPuts[down[w]] = 0
    /\ Downstream(w) => down[w] \notin todo[w] /\ read[w].phase = "Ready"

(* The operator of m reported success, and its Update went through. *)
EndedWell(m) ==
    \E w \in Worker : /\ NodeOf[w] = m /\ report[w] = "Succeeded"
                      /\ pc[w] \in CompletionPcs \cup {"done"}

(* A completion decrements each successor at most once, after its own node  *)
(* reported success.                                                        *)
EdgeOK(w) ==
    /\ pc[w] = "next" \/ Downstream(w) => \A d \in todo[w] : <<NodeOf[w], d>> \notin decremented
    /\ pc[w] \in {"working", "retry", "load"} \cup UpdatePcs
         => \A d \in Node : <<NodeOf[w], d>> \notin decremented
    /\ pc[w] \in CompletionPcs => report[w] = "Succeeded"

DecrementedOK == \A m, d \in Node : <<m, d>> \in decremented => EndedWell(m)

(* A node is started once, when no decrement is left; from its first report *)
(* on no transaction holds its row.                                         *)
StartOK ==
    \A d \in Node :
        /\ readyPuts[d] <= 1
        /\ readyPuts[d] > 0 => Undone(d) = {}
        /\ row[d].phase # "Ready" => readyPuts[d] > 0 /\ lock[d] = None

(* The operator of a node repeats its last report and adds none after a     *)
(* terminal one. A report that went through is what the row says, unless    *)
(* the row was deleted.                                                     *)
ReportOK(w) ==
    LET n == NodeOf[w] IN
    /\ pc[w] # "idle" => readyPuts[n] > 0
    /\ pc[w] = "working" => row[n].phase \notin Terminal
    /\ pc[w] \in UpdatePcs \cup {"retry"} => row[n].phase \notin Terminal \/ row[n].phase = report[w]
    /\ pc[w] \in {"put", "done"} \cup CompletionPcs /\ n \in present => row[n].phase = report[w]
    /\ pc[w] \in {"write", "put", "done"} \cup CompletionPcs => runPc = "done"

(* A row leaves Ready by the report of an operator. *)
TakenOK == \A n \in Node : row[n].phase # "Ready" => TakenUp(n)

PresentOK ==
    /\ runPc # "done" => present = {}
    /\ runPc = "put" => \A n \in Node : readyPuts[n] = 0

WorkerOK(w) == ReadBound(w) /\ EdgeOK(w) /\ ReportOK(w)

IInv ==
    /\ RowBound /\ DecrementedOK /\ StartOK /\ TakenOK /\ PresentOK
    /\ \A w \in Worker : WorkerOK(w)

----------------------------------------------------------------------------
(* Facts about the decrements still to come.                                *)

(* The decrements still to come for a node can be counted. *)
LEMMA UndoneFinite ==
    \A d \in Node : IsFiniteSet(Undone(d)) /\ Cardinality(Undone(d)) \in Nat
<1> SUFFICES ASSUME NEW d \in Node
             PROVE  IsFiniteSet(Undone(d)) /\ Cardinality(Undone(d)) \in Nat
  OBVIOUS
<1>1. IsFiniteSet(Undone(d))
  BY FS_Subset, NodeAssumption DEF Undone, Preds
<1> QED
  BY <1>1, FS_CardinalityType

(* Also in the next state. *)
LEMMA UndoneFiniteNext == \A d \in Node : Cardinality(Undone(d)') \in Nat
<1> SUFFICES ASSUME NEW d \in Node PROVE Cardinality(Undone(d)') \in Nat
  OBVIOUS
<1>1. IsFiniteSet(Undone(d)')
  BY FS_Subset, NodeAssumption DEF Undone, Preds
<1> QED
  BY <1>1, FS_CardinalityType

(* They change only when a decrement starts. *)
LEMMA UndoneSame == decremented' = decremented => \A d : Undone(d)' = Undone(d)
  BY DEF Undone, Preds

(* A decrement takes its own edge from the ones to come, and no other. *)
LEMMA UndoneStep ==
    ASSUME NEW m \in Node, NEW d \in Succs(m), <<m, d>> \notin decremented,
           decremented' = decremented \cup {<<m, d>>}
    PROVE  /\ Undone(d) # {}
           /\ Cardinality(Undone(d)') = Cardinality(Undone(d)) - 1
           /\ \A e \in Node : Cardinality(Undone(e)') <= Cardinality(Undone(e))
           /\ \A e \in Node : Undone(e)' \subseteq Undone(e)
<1>1. d \in Node /\ m \in Undone(d)
  BY DEF Succs, Undone, Preds
<1>2. Undone(d)' = Undone(d) \ {m}
  BY <1>1 DEF Undone, Preds
<1>3. Cardinality(Undone(d)') = Cardinality(Undone(d)) - 1
  BY <1>1, <1>2, FS_RemoveElement, UndoneFinite
<1>4. ASSUME NEW e \in Node PROVE Undone(e)' \subseteq Undone(e)
  BY DEF Undone, Preds
<1>5. ASSUME NEW e \in Node PROVE Cardinality(Undone(e)') <= Cardinality(Undone(e))
  BY <1>4, FS_Subset, UndoneFinite
<1> QED
  BY <1>1, <1>3, <1>4, <1>5

----------------------------------------------------------------------------
(* The invariant holds initially. *)
LEMMA InvInit == Init => IInv
<1> SUFFICES ASSUME Init PROVE IInv
  OBVIOUS
<1>1. RowBound
  <2> SUFFICES ASSUME NEW d \in Node, Preds(d) # {}
               PROVE  Cardinality(Undone(d)) <= row[d].inDegree
    BY DEF RowBound
  <2>1. Undone(d) = Preds(d)
    BY DEF Init, Undone, Preds
  <2>2. row[d].inDegree = Cardinality(Preds(d))
    BY InDegreeAssumption DEF Init, NewNodeExec
  <2> QED
    BY <2>1, <2>2, UndoneFinite
<1>2. DecrementedOK /\ StartOK /\ TakenOK /\ PresentOK
  BY DEF Init, DecrementedOK, StartOK, TakenOK, PresentOK, NewNodeExec
<1>3. \A w \in Worker : WorkerOK(w)
  BY WorkerAssumption DEF Init, WorkerOK, ReadBound, EdgeOK, ReportOK, Downstream, InTransaction,
      UpdatePcs, CompletionPcs, Terminal, NewNodeExec
<1> QED
  BY <1>1, <1>2, <1>3 DEF IInv

----------------------------------------------------------------------------
(* A success that was reported stays reported.                              *)
LEMMA EndedWellStays ==
    ASSUME TypeInv, [Next]_vars, NEW m \in Node, EndedWell(m) PROVE EndedWell(m)'
<1>1. PICK v \in Worker : /\ NodeOf[v] = m /\ report[v] = "Succeeded"
                          /\ pc[v] \in CompletionPcs \cup {"done"}
  BY DEF EndedWell
<1> DEFINE Stays == pc'[v] \in CompletionPcs \cup {"done"} /\ report'[v] = report[v]
<1>2. pc \in [Worker -> Pcs] /\ report \in [Worker -> Phase]
  BY DEF TypeInv, TypeOK
<1>3. ASSUME UNCHANGED <<pc, report>> PROVE Stays
  BY <1>1, <1>3
<1>4. ASSUME NEW w \in Worker, Operator(w) PROVE Stays
  BY <1>1, <1>2, <1>4 DEF Operator, Begin, Finish, Resend, Send, Goto, CompletionPcs
<1>5. ASSUME NEW w \in Worker, Update(w) PROVE Stays
  BY <1>1, <1>2, <1>5 DEF Update, UpdateRead, UpdateWrite, UpdatePut, Goto, localVars, CompletionPcs
<1>6. ASSUME NEW w \in Worker, Completion(w) PROVE Stays
  <2>1. report' = report /\ (\A u \in Worker \ {w} : pc'[u] = pc[u])
        /\ pc'[w] \in CompletionPcs \cup {"done"}
    BY <1>2, <1>6 DEF Completion, LoadDependencies, ReadDownstream, Decrement, Trigger, Commit,
        EndTransaction, CheckCompletion, UpdateStatus, Cleanup, CleanupEnd, Goto, localVars, CompletionPcs
  <2> QED
    BY <1>1, <2>1
<1>7. ASSUME LostAnswer \/ Crash PROVE Stays
  BY <1>1, <1>2, <1>7 DEF LostAnswer, GiveUp, Send, Goto, Crash, UpdatePcs, CompletionPcs
<1>8. ASSUME Run \/ (\E n \in Node : Delete(n)) \/ UNCHANGED vars PROVE Stays
  BY <1>3, <1>8 DEF Run, RunPut, RunPutFails, RunWithoutNodes, RunCommit, RunCommitFails, Delete,
      localVars, vars
<1>9. Stays
  BY <1>4, <1>5, <1>6, <1>7, <1>8 DEF Next, Stopped
<1> QED
  BY <1>1, <1>9 DEF EndedWell

(* What started a decrement reported success, as long as no other decrement *)
(* starts.                                                                  *)
LEMMA DecrementedStays ==
    ASSUME TypeInv, [Next]_vars, DecrementedOK, decremented' = decremented PROVE DecrementedOK'
  BY EndedWellStays DEF DecrementedOK

----------------------------------------------------------------------------
(* The first attempts.                                                      *)

(* A worker at work, when no node has had two attempts, is alone at its     *)
(* node.                                                                    *)
LEMMA AloneAtWork ==
    ASSUME Unrepeated, NEW w \in Worker, pc[w] # "idle", NEW v \in Worker \ {w}
    PROVE  NodeOf[v] # NodeOf[w] \/ pc[v] = "idle"
  BY DEF Unrepeated

(* A state without repetitions was reached without one. *)
LEMMA NoRepeat ==
    ASSUME TypeInv, [Next]_vars, Unrepeated' PROVE Unrepeated /\ ~LostAnswer
<1>1. Unrepeated
  BY IdleStays DEF Unrepeated
<1>2. ASSUME NEW v \in Worker, NEW w \in Worker, GiveUp(v, w) PROVE FALSE
  <2>1. v # w /\ pc'[v] # "idle" /\ pc'[w] # "idle" /\ NodeOf[v] = NodeOf[w]
    BY <1>2, IdleStays DEF GiveUp, Goto, TypeInv, TypeOK
  <2> QED
    BY <2>1 DEF Unrepeated
<1> QED
  BY <1>1, <1>2 DEF LostAnswer

----------------------------------------------------------------------------
(* Steps that leave rows, locks, decrements and started nodes alone only    *)
(* concern the worker that takes them.                                      *)

(* A node that was taken up stays so. *)
LEMMA TakenStays ==
    ASSUME TypeInv, [Next]_vars, TakenOK, \A n \in Node : row'[n].phase = row[n].phase
    PROVE  TakenOK'
  BY IdleStays DEF TakenOK, TakenUp

(* Nothing is asked of a worker that has not begun. *)
LEMMA IdleOK == ASSUME TypeInv', NEW v \in Worker, pc'[v] = "idle" PROVE WorkerOK(v)'
  BY DEF WorkerOK, ReadBound, EdgeOK, ReportOK, Downstream, InTransaction, UpdatePcs, CompletionPcs

(* A step of one worker that touches no shared row needs a look at that worker only. *)
LEMMA QuietStep ==
    ASSUME TypeInv, [Next]_vars, IInv, NEW w \in Worker,
           UNCHANGED <<row, lock, present, runPc, readyPuts, decremented>>,
           \A v \in Worker \ {w} : Frame(v),
           WorkerOK(w)'
    PROVE  IInv'
<1>1. \A d : Undone(d)' = Undone(d)
  BY DEF Undone, Preds
<1>2. RowBound' /\ DecrementedOK' /\ StartOK' /\ PresentOK'
  BY <1>1, DecrementedStays DEF IInv, RowBound, StartOK, PresentOK
<1>4. TakenOK'
  BY TakenStays DEF IInv
<1>3. ASSUME NEW v \in Worker \ {w} PROVE WorkerOK(v)'
  <2>1. WorkerOK(v) /\ Frame(v)
    BY <1>3 DEF IInv
  <2> QED
    BY <1>1, <2>1 DEF WorkerOK, Frame, ReadBound, EdgeOK, ReportOK, Downstream, InTransaction,
        NewInDegree, Succeeded
<1> QED
  BY <1>2, <1>3, <1>4 DEF IInv

(* Every step keeps the invariant, each action in turn. *)
LEMMA InvStep ==
    Unrepeated' /\ TypeInv /\ TypeInv' /\ IInv /\ [Next]_vars => IInv'
<1> SUFFICES ASSUME Unrepeated', TypeInv, TypeInv', IInv, [Next]_vars
             PROVE  IInv'
  OBVIOUS
<1>0. Unrepeated /\ ~LostAnswer
  BY NoRepeat
<1> USE DEF TypeInv
<1>1. ASSUME NEW w \in Worker, Begin(w) PROVE IInv'
  <2>1. UNCHANGED <<row, lock, present, runPc, readyPuts, decremented>>
    BY <1>1 DEF Begin, Goto, Send, NoFault, budget, dbVars, history
  <2>2. \A v \in Worker \ {w} : Frame(v)
    BY <1>1 DEF Begin, Goto, Send, NoFault, budget, dbVars, history, Frame, TypeOK
  <2>4. \A v \in Worker : NodeOf[v] = NodeOf[w] => pc[v] = "idle"
    <3>1. pc[w] = "idle" /\ pc'[w] # "idle" /\ \A v \in Worker \ {w} : pc'[v] = pc[v]
      BY <1>1 DEF Begin, Goto, TypeOK
    <3> QED
      BY <3>1 DEF Unrepeated
  <2>5. NodeOf[w] \in Node /\ row[NodeOf[w]].phase = "Ready"
    BY <2>4, WorkerAssumption DEF IInv, TakenOK, TakenUp
  <2>6. \A d \in Node : <<NodeOf[w], d>> \notin decremented
    BY <2>4, <2>5 DEF IInv, DecrementedOK, EndedWell, CompletionPcs
  <2>3. WorkerOK(w)'
    BY <1>1, <2>1, <2>5, <2>6, UndoneSame DEF Begin, Goto, Send, NoFault, budget, dbVars, history,
        IInv, WorkerOK, ReadBound, EdgeOK, ReportOK, Downstream, InTransaction,
        UpdatePcs, CompletionPcs,
        Succeeded, Terminal, NewInDegree, TypeOK
  <2> QED
    BY <2>1, <2>2, <2>3, QuietStep
<1>2. ASSUME NEW w \in Worker, Finish(w) PROVE IInv'
  <2>1. UNCHANGED <<row, lock, present, runPc, readyPuts, decremented>>
    BY <1>2 DEF Finish, Goto, Send, NoFault, budget, dbVars, history
  <2>2. \A v \in Worker \ {w} : Frame(v)
    BY <1>2 DEF Finish, Goto, Send, NoFault, budget, dbVars, history, Frame, TypeOK
  <2>3. PICK phase \in Outcome : Goto(w, "working", "read") /\ report' = [report EXCEPT ![w] = phase]
    BY <1>2 DEF Finish, Send
  <2>4. UNCHANGED <<todo, down, read>>
    BY <1>2 DEF Finish, Send
  <2>5. WorkerOK(w)'
    BY <2>1, <2>3, <2>4, UndoneSame DEF Goto,
        IInv, WorkerOK, ReadBound, EdgeOK, ReportOK, Downstream, InTransaction,
        UpdatePcs, CompletionPcs,
        Succeeded, Terminal, TypeOK
  <2> QED
    BY <2>1, <2>2, <2>5, QuietStep
<1>3. ASSUME NEW w \in Worker, Resend(w) PROVE IInv'
  <2>1. UNCHANGED <<row, lock, present, runPc, readyPuts, decremented>>
    BY <1>3 DEF Resend, Goto, Send, NoFault, budget, dbVars, history
  <2>2. \A v \in Worker \ {w} : Frame(v)
    BY <1>3 DEF Resend, Goto, Send, NoFault, budget, dbVars, history, Frame, TypeOK
  <2>3. WorkerOK(w)'
    BY <1>3, <2>1, UndoneSame DEF Resend, Goto, Send, NoFault, budget, dbVars, history,
        IInv, WorkerOK, ReadBound, EdgeOK, ReportOK, Downstream, InTransaction,
        UpdatePcs, CompletionPcs,
        Succeeded, Terminal, NewInDegree, TypeOK
  <2> QED
    BY <2>1, <2>2, <2>3, QuietStep
<1>4. ASSUME NEW w \in Worker, UpdateRead(w) PROVE IInv'
  <2>1. UNCHANGED <<row, lock, present, runPc, readyPuts, decremented>>
    BY <1>4 DEF UpdateRead, Goto, NoFault, Fault, budget, dbVars, localVars, history
  <2>2. \A v \in Worker \ {w} : Frame(v)
    BY <1>4 DEF UpdateRead, Goto, NoFault, Fault, budget, dbVars, localVars, history, Frame, TypeOK
  <2>3. runPc # "done" => present = {}
    BY DEF IInv, PresentOK
  <2>4. CASE NodeOf[w] \in present /\ pc' = [pc EXCEPT ![w] = "write"] /\ pc[w] = "read"
    <3>1. WorkerOK(w)'
      BY <1>4, <2>1, <2>3, <2>4, UndoneSame DEF UpdateRead, localVars,
          IInv, WorkerOK, ReadBound, EdgeOK, ReportOK, Downstream, InTransaction,
          UpdatePcs, CompletionPcs, TypeOK
    <3> QED
      BY <2>1, <2>2, <3>1, QuietStep
  <2>5. CASE pc' = [pc EXCEPT ![w] = "retry"] /\ pc[w] = "read"
    <3>1. WorkerOK(w)'
      BY <1>4, <2>1, <2>5, UndoneSame DEF UpdateRead, localVars,
          IInv, WorkerOK, ReadBound, EdgeOK, ReportOK, Downstream, InTransaction,
          UpdatePcs, CompletionPcs, TypeOK
    <3> QED
      BY <2>1, <2>2, <3>1, QuietStep
  <2> QED
    BY <1>4, <2>4, <2>5 DEF UpdateRead, Goto
<1>5. ASSUME NEW w \in Worker, UpdatePut(w) PROVE IInv'
  <2>1. UNCHANGED <<row, lock, present, runPc, readyPuts, decremented>>
    BY <1>5 DEF UpdatePut, Goto, NoFault, Fault, AfterUpdate, budget, dbVars, localVars, history
  <2>2. \A v \in Worker \ {w} : Frame(v)
    BY <1>5 DEF UpdatePut, Goto, NoFault, Fault, AfterUpdate, budget, dbVars, localVars, history, Frame, TypeOK
  <2>3. WorkerOK(w)'
    BY <1>5, <2>1, UndoneSame DEF UpdatePut, Goto, NoFault, Fault, AfterUpdate, budget, dbVars, localVars, history,
        IInv, WorkerOK, ReadBound, EdgeOK, ReportOK, Downstream, InTransaction,
        UpdatePcs, CompletionPcs,
        Succeeded, Terminal, NewInDegree, TypeOK
  <2> QED
    BY <2>1, <2>2, <2>3, QuietStep
<1>6. ASSUME NEW w \in Worker, LoadDependencies(w) PROVE IInv'
  <2>1. UNCHANGED <<row, lock, present, runPc, readyPuts, decremented>>
    BY <1>6 DEF LoadDependencies, Goto, NoFault, Fault, budget, dbVars, history
  <2>2. \A v \in Worker \ {w} : Frame(v)
    BY <1>6 DEF LoadDependencies, Goto, NoFault, Fault, budget, dbVars, history, Frame, TypeOK
  <2>3. WorkerOK(w)'
    BY <1>6, <2>1, UndoneSame DEF LoadDependencies, Goto, NoFault, Fault, budget, dbVars, history,
        IInv, WorkerOK, ReadBound, EdgeOK, ReportOK, Downstream, InTransaction,
        UpdatePcs, CompletionPcs,
        Succeeded, Terminal, NewInDegree, TypeOK, VisitOK
  <2> QED
    BY <2>1, <2>2, <2>3, QuietStep
<1>7. ASSUME NEW w \in Worker, ReadDownstream(w) PROVE IInv'
  <2>1. UNCHANGED <<row, lock, present, runPc, readyPuts, decremented>>
    BY <1>7 DEF ReadDownstream, NoFault, Fault, budget, dbVars, history
  <2>2. \A v \in Worker \ {w} : Frame(v)
    BY <1>7 DEF ReadDownstream, NoFault, Fault, budget, dbVars, history, Frame, TypeOK
  <2>3. PICK d \in todo[w] : ReadDownstream(w)!(d)
    BY <1>7 DEF ReadDownstream
  <2>4. /\ d \in Node /\ Preds(d) # {} /\ todo[w] \subseteq Succs(NodeOf[w])
        /\ <<NodeOf[w], d>> \notin decremented /\ NodeOf[w] \in Undone(d)
    BY <2>3, SuccsInNode, WorkerAssumption DEF IInv, WorkerOK, EdgeOK, VisitOK, Succs, Preds, Undone, TypeOK
  <2>5. Cardinality(Undone(d)) <= row[d].inDegree /\ row[d].phase = "Ready"
    BY <2>4 DEF IInv, RowBound, StartOK, TypeOK
  <2>6. WorkerOK(w)'
    <3>1. CASE pc' = pc /\ down' = down /\ read' = read
      BY <1>7, <2>1, <2>3, <3>1, UndoneSame DEF IInv, WorkerOK, ReadBound, EdgeOK, ReportOK, Downstream, InTransaction,
        UpdatePcs, CompletionPcs, Succeeded, TypeOK, NoFault, Fault, budget, dbVars, history
    <3>2. CASE /\ pc' = [pc EXCEPT ![w] = "decrement"]
               /\ down' = [down EXCEPT ![w] = d]
               /\ read' = [read EXCEPT ![w] = row[d]]
      BY <2>1, <2>3, <2>4, <2>5, <3>2, UndoneSame DEF IInv, WorkerOK, ReadBound, EdgeOK, ReportOK, Downstream, InTransaction,
        UpdatePcs, CompletionPcs, Succeeded, TypeOK
    <3> QED
      BY <2>3, <3>1, <3>2
  <2> QED
    BY <2>1, <2>2, <2>6, QuietStep
<1>8. ASSUME NEW w \in Worker, CheckCompletion(w) PROVE IInv'
  <2>1. UNCHANGED <<row, lock, present, runPc, readyPuts, decremented>>
    BY <1>8 DEF CheckCompletion, Goto, NoFault, Fault, PipelineVerdict, budget, dbVars, history
  <2>2. \A v \in Worker \ {w} : Frame(v)
    BY <1>8 DEF CheckCompletion, Goto, NoFault, Fault, PipelineVerdict, budget, dbVars, history, Frame, TypeOK
  <2>3. WorkerOK(w)'
    BY <1>8, <2>1, UndoneSame DEF CheckCompletion, Goto, NoFault, Fault, PipelineVerdict, budget, dbVars, history,
        IInv, WorkerOK, ReadBound, EdgeOK, ReportOK, Downstream, InTransaction,
        UpdatePcs, CompletionPcs,
        Succeeded, Terminal, NewInDegree, TypeOK
  <2> QED
    BY <2>1, <2>2, <2>3, QuietStep
<1>9. ASSUME NEW w \in Worker, UpdateStatus(w) PROVE IInv'
  <2>1. UNCHANGED <<row, lock, present, runPc, readyPuts, decremented>>
    BY <1>9 DEF UpdateStatus, Goto, NoFault, Fault, budget, localVars, history
  <2>2. \A v \in Worker \ {w} : Frame(v)
    BY <1>9 DEF UpdateStatus, Goto, NoFault, Fault, budget, localVars, history, Frame, TypeOK
  <2>3. WorkerOK(w)'
    BY <1>9, <2>1, UndoneSame DEF UpdateStatus, Goto, NoFault, Fault, budget, localVars, history,
        IInv, WorkerOK, ReadBound, EdgeOK, ReportOK, Downstream, InTransaction,
        UpdatePcs, CompletionPcs,
        Succeeded, Terminal, NewInDegree, TypeOK
  <2> QED
    BY <2>1, <2>2, <2>3, QuietStep
<1>10. ASSUME NEW w \in Worker, Cleanup(w) PROVE IInv'
  <2>1. UNCHANGED <<row, lock, present, runPc, readyPuts, decremented>>
    BY <1>10 DEF Cleanup, NoFault, Fault, budget, dbVars, history
  <2>2. \A v \in Worker \ {w} : Frame(v)
    BY <1>10 DEF Cleanup, NoFault, Fault, budget, dbVars, history, Frame, TypeOK
  <2>3. WorkerOK(w)'
    BY <1>10, <2>1, UndoneSame DEF Cleanup, NoFault, Fault, budget, dbVars, history,
        IInv, WorkerOK, ReadBound, EdgeOK, ReportOK, Downstream, InTransaction,
        UpdatePcs, CompletionPcs,
        Succeeded, Terminal, NewInDegree, TypeOK
  <2> QED
    BY <2>1, <2>2, <2>3, QuietStep
<1>11. ASSUME NEW w \in Worker, CleanupEnd(w) PROVE IInv'
  <2>1. UNCHANGED <<row, lock, present, runPc, readyPuts, decremented>>
    BY <1>11 DEF CleanupEnd, Goto, NoFault, budget, dbVars, localVars, history
  <2>2. \A v \in Worker \ {w} : Frame(v)
    BY <1>11 DEF CleanupEnd, Goto, NoFault, budget, dbVars, localVars, history, Frame, TypeOK
  <2>3. WorkerOK(w)'
    BY <1>11, <2>1, UndoneSame DEF CleanupEnd, Goto, NoFault, budget, dbVars, localVars, history,
        IInv, WorkerOK, ReadBound, EdgeOK, ReportOK, Downstream, InTransaction,
        UpdatePcs, CompletionPcs,
        Succeeded, Terminal, NewInDegree, TypeOK
  <2> QED
    BY <2>1, <2>2, <2>3, QuietStep
<1>12. CASE RunPut \/ RunPutFails
  <2>1. (\A n \in Node : readyPuts[n] = 0) /\ (\A v \in Worker : pc[v] = "idle")
    BY <1>12, WorkerAssumption DEF RunPut, RunPutFails, IInv, PresentOK, WorkerOK, ReportOK
  <2>2. \A n \in Roots : Undone(n) = {}
    BY InitialInDegree DEF Roots, Undone
  <2>3. /\ UNCHANGED <<row, lock, present, decremented, pc, report, todo, down, read>>
        /\ \A n \in Node : \/ readyPuts'[n] = readyPuts[n]
                           \/ n \in Roots /\ readyPuts'[n] = readyPuts[n] + 1
        /\ runPc' # "put"
    BY <1>12 DEF RunPut, RunPutFails, PutReady, dbVars, localVars, TypeOK, Roots
  <2>4. RowBound' /\ DecrementedOK' /\ PresentOK' /\ TakenOK'
    BY <1>12, <2>3, UndoneSame, DecrementedStays, TakenStays
    DEF RunPut, RunPutFails, IInv, RowBound, PresentOK
  <2>5. StartOK'
    BY <2>1, <2>2, <2>3, UndoneSame DEF IInv, StartOK, TypeOK
  <2>6. ASSUME NEW v \in Worker PROVE WorkerOK(v)'
    BY <2>1, <2>3, UndoneSame DEF IInv, WorkerOK, ReadBound, EdgeOK, ReportOK, Downstream,
        InTransaction, UpdatePcs, CompletionPcs
  <2> QED
    BY <2>4, <2>5, <2>6 DEF IInv
<1>13. CASE RunCommit \/ RunCommitFails \/ RunWithoutNodes
  <2>1. /\ UNCHANGED <<row, lock, decremented, readyPuts, pc, report, todo, down, read>>
        /\ runPc # "done" /\ runPc' # "put" /\ (runPc' # "done" => present' = present)
    BY <1>13 DEF RunCommit, RunCommitFails, RunWithoutNodes, NewPipeExec, dbVars, localVars, history
  <2>2. RowBound' /\ DecrementedOK' /\ PresentOK' /\ StartOK' /\ TakenOK'
    BY <2>1, UndoneSame, DecrementedStays, TakenStays DEF IInv, RowBound, PresentOK, StartOK
  <2>3. ASSUME NEW v \in Worker PROVE WorkerOK(v)'
    <3>1. WorkerOK(v) /\ pc[v] \notin {"write", "put", "done"} \cup CompletionPcs
      BY <2>1 DEF IInv, WorkerOK, ReportOK
    <3> QED
      BY <2>1, <3>1, UndoneSame DEF WorkerOK, ReadBound, EdgeOK, ReportOK, Downstream,
          InTransaction, NewInDegree
  <2> QED
    BY <2>2, <2>3 DEF IInv
<1>14. ASSUME NEW w \in Worker, UpdateWrite(w) PROVE IInv'
  <2> DEFINE n == NodeOf[w]
  <2>1. /\ UNCHANGED <<lock, present, runPc, readyPuts, decremented, report, todo, down, read>>
        /\ pc[w] = "write" /\ n \in Node
        /\ \A v \in Worker \ {w} : pc'[v] = pc[v] /\ (NodeOf[v] # n \/ pc[v] = "idle")
    <3>1. pc[w] = "write" /\ n \in Node
      BY <1>14, WorkerAssumption DEF UpdateWrite, Goto
    <3>2. \A v \in Worker \ {w} : NodeOf[v] # n \/ pc[v] = "idle"
      BY <1>0, <3>1, AloneAtWork
    <3> QED
      BY <1>14, <3>1, <3>2 DEF UpdateWrite, Goto, localVars, history, TypeOK
  <2>2. CASE /\ lock[n] = None /\ n \in present
             /\ pc' = [pc EXCEPT ![w] = "put"] \/ pc' = [pc EXCEPT ![w] = "retry"]
             /\ row' = [row EXCEPT ![n].phase = report[w]]
    <3>1. /\ \A k \in Node : row'[k].inDegree = row[k].inDegree
          /\ \A k \in Node \ {n} : row'[k] = row[k]
          /\ row'[n].phase = report[w]
      <4>1. row[n] \in Row /\ row \in [Node -> Row]
        BY <2>1 DEF TypeOK
      <4>2. [row[n] EXCEPT !.phase = report[w]].phase = report[w]
        BY <4>1 DEF Row
      <4> QED
        BY <2>1, <2>2, <4>1, <4>2, SetPhaseType DEF TypeOK
    <3>2. readyPuts[n] > 0 /\ \A e \in Node : <<n, e>> \notin decremented
      BY <2>1 DEF IInv, WorkerOK, ReportOK, EdgeOK, UpdatePcs
    <3>3. RowBound' /\ PresentOK'
      BY <2>1, <3>1, UndoneSame DEF IInv, RowBound, PresentOK
    <3>4. DecrementedOK'
      BY <2>1, DecrementedStays DEF IInv
    <3>5. StartOK'
      BY <2>1, <2>2, <3>1, <3>2, UndoneSame DEF IInv, StartOK
    <3>8. TakenOK'
      <4>1. TakenUp(n)'
        BY <2>1, <2>2 DEF TakenUp, TypeOK
      <4>2. \A k \in Node : TakenUp(k) => TakenUp(k)'
        BY IdleStays DEF TakenUp
      <4> QED
        BY <2>1, <3>1, <4>1, <4>2 DEF IInv, TakenOK
    <3>6. ASSUME NEW v \in Worker \ {w} PROVE WorkerOK(v)'
      <4>1. CASE pc[v] = "idle"
        BY <2>1, <4>1, IdleOK
      <4>2. CASE NodeOf[v] # n
       <5>1. row'[NodeOf[v]] = row[NodeOf[v]]
        BY <2>1, <3>1, <4>2, WorkerAssumption
       <5> QED
        BY <2>1, <5>1, UndoneSame DEF IInv, WorkerOK, ReadBound, EdgeOK, ReportOK, Downstream,
            InTransaction, NewInDegree, Succeeded
      <4> QED
        BY <2>1, <4>1, <4>2
    <3>7. WorkerOK(w)'
      <4>1. WorkerOK(w) /\ pc'[w] \in {"put", "retry"}
        BY <2>1, <2>2 DEF IInv, TypeOK
      <4>2. ReadBound(w)' /\ EdgeOK(w)'
        BY <2>1, <4>1, <3>2 DEF WorkerOK, ReadBound, EdgeOK, Downstream, InTransaction, UpdatePcs, CompletionPcs
      <4>3. ReportOK(w)'
        BY <2>1, <4>1, <3>1, <3>2 DEF WorkerOK, ReportOK, UpdatePcs, CompletionPcs
      <4> QED
        BY <4>2, <4>3 DEF WorkerOK
    <3> QED
      BY <3>3, <3>4, <3>5, <3>6, <3>7, <3>8 DEF IInv
  <2>3. CASE pc' = [pc EXCEPT ![w] = "retry"] /\ row' = row
    <3>1. WorkerOK(w)'
      BY <2>1, <2>3, UndoneSame DEF IInv, WorkerOK, ReadBound, EdgeOK, ReportOK, Downstream,
          InTransaction, UpdatePcs, CompletionPcs, TypeOK
    <3> QED
      BY <2>1, <2>3, <3>1, QuietStep DEF Frame
  <2>4. CASE pc' = [pc EXCEPT ![w] = "put"] /\ row' = row /\ n \notin present
    <3>1. WorkerOK(w)'
      BY <2>1, <2>4, UndoneSame DEF IInv, WorkerOK, ReadBound, EdgeOK, ReportOK, Downstream,
          InTransaction, UpdatePcs, CompletionPcs, TypeOK
    <3> QED
      BY <2>1, <2>4, <3>1, QuietStep DEF Frame
  <2> QED
    BY <1>14, <2>1, <2>2, <2>3, <2>4 DEF UpdateWrite, Goto, RowFree
<1>15. ASSUME NEW w \in Worker, Decrement(w) PROVE IInv'
  <2> DEFINE m == NodeOf[w]
             d == down[w]
  <2>1. /\ UNCHANGED <<row, present, runPc, readyPuts, report, todo, read>>
        /\ pc[w] = "decrement" /\ m \in Node /\ d \in Succs(m) /\ d \in Node
        /\ WorkerOK(w) /\ <<m, d>> \notin decremented /\ report[w] = "Succeeded"
        /\ \A v \in Worker \ {w} : /\ pc'[v] = pc[v] /\ down'[v] = down[v]
                                   /\ NodeOf[v] # m \/ pc[v] = "idle"
    <3>1. /\ UNCHANGED <<row, present, runPc, readyPuts, report, todo, read>>
          /\ pc[w] = "decrement" /\ m \in Node
          /\ \A v \in Worker \ {w} : pc'[v] = pc[v] /\ down'[v] = down[v]
      BY <1>15, WorkerAssumption DEF Decrement, dbVars, TypeOK
    <3>3. \A v \in Worker \ {w} : NodeOf[v] # m \/ pc[v] = "idle"
      BY <1>0, <3>1, AloneAtWork
    <3>2. WorkerOK(w) /\ VisitOK(w)
      BY DEF IInv
    <3> QED
      BY <3>1, <3>2, <3>3, SuccsInNode DEF VisitOK, Downstream, WorkerOK, ReadBound, EdgeOK, CompletionPcs
  <2>2. CASE /\ lock[d] = None /\ lock' = [lock EXCEPT ![d] = w] /\ down' = down
             /\ pc' = [pc EXCEPT ![w] = IF NewInDegree(w) = 0 THEN "trigger" ELSE "commit"]
             /\ decremented' = decremented \cup {<<m, d>>}
    <3>1. /\ Undone(d) # {}
          /\ Cardinality(Undone(d)') = Cardinality(Undone(d)) - 1
          /\ \A e \in Node : Cardinality(Undone(e)') <= Cardinality(Undone(e))
          /\ \A e \in Node : Undone(e)' \subseteq Undone(e)
      BY <2>1, <2>2, UndoneStep
    <3>2. readyPuts[d] = 0 /\ row[d].phase = "Ready"
      BY <2>1, <3>1 DEF IInv, StartOK, TypeOK
    <3>3. RowBound'
      <4> SUFFICES ASSUME NEW e \in Node, Preds(e) # {}
                   PROVE  Cardinality(Undone(e)') <= row'[e].inDegree
        BY DEF RowBound
      <4>1. Cardinality(Undone(e)) <= row[e].inDegree /\ row[e].inDegree \in Nat
        BY DEF IInv, RowBound, TypeOK, Row
      <4>2. Cardinality(Undone(e)) \in Nat /\ Cardinality(Undone(e)') <= Cardinality(Undone(e))
        BY <3>1, UndoneFinite
      <4>3. Cardinality(Undone(e)') \in Nat
        BY UndoneFiniteNext
      <4> QED
        BY <2>1, <4>1, <4>2, <4>3
    <3>8. TakenOK'
      BY <2>1, TakenStays DEF IInv
    <3>4. DecrementedOK' /\ PresentOK'
      <4>1. EndedWell(m)'
        BY <2>1, <2>2 DEF EndedWell, CompletionPcs, TypeOK
      <4>2. \A k \in Node : EndedWell(k) => EndedWell(k)'
        BY EndedWellStays
      <4> QED
        BY <2>1, <2>2, <4>1, <4>2 DEF IInv, DecrementedOK, PresentOK
    <3>5. StartOK'
      BY <2>1, <2>2, <3>1, <3>2 DEF IInv, StartOK, TypeOK
    <3>6. ASSUME NEW v \in Worker \ {w}, pc[v] # "idle" PROVE WorkerOK(v)'
      <4>1. EdgeOK(v)' /\ ReportOK(v)'
        BY <3>6, <2>1, <2>2 DEF IInv, WorkerOK, EdgeOK, ReportOK, Downstream, InTransaction, Succeeded
      <4>2. ASSUME Downstream(v)
            PROVE  /\ down[v] \in Node /\ read[v].inDegree \in Nat
                   /\ Cardinality(Undone(down[v])) \in Nat /\ Cardinality(Undone(down[v])') \in Nat
                   /\ Cardinality(Undone(down[v])') <= Cardinality(Undone(down[v]))
        <5>1. down[v] \in Node /\ read[v] \in Row
          BY <4>2, SuccsInNode, WorkerAssumption DEF VisitOK, TypeOK
        <5> QED
          BY <2>2, <3>1, <5>1, UndoneFinite, UndoneFiniteNext DEF Row
      <4>3. ReadBound(v)'
        <5>1. /\ ReadBound(v) /\ v # None /\ v # w /\ v \in Worker /\ w \in Worker
              /\ pc'[v] = pc[v] /\ down'[v] = down[v] /\ NodeOf[v] # m
              /\ UNCHANGED <<read, todo, readyPuts>>
          BY <2>1, <3>6, WorkerAssumption DEF IInv, WorkerOK
        <5>2. CASE pc[v] = "decrement"
          BY <2>2, <4>2, <5>1, <5>2 DEF ReadBound, Downstream, InTransaction
        <5>3. CASE InTransaction(v)
          <6>1. down[v] \in Node /\ down[v] # d /\ lock[down[v]] = v
            BY <2>2, <4>2, <5>1, <5>3 DEF ReadBound, Downstream
          <6>2. lock'[down[v]] = v
            BY <2>2, <6>1 DEF TypeOK
          <6> QED
            BY <2>2, <4>2, <5>1, <5>3, <6>2 DEF ReadBound, Downstream, InTransaction, NewInDegree
        <5>4. CASE ~Downstream(v)
          BY <5>1, <5>4 DEF ReadBound, Downstream, InTransaction
        <5> QED
          BY <5>2, <5>3, <5>4 DEF Downstream
      <4> QED
        BY <4>1, <4>3 DEF WorkerOK
    <3>7. WorkerOK(w)'
      <4>1. read[w].inDegree \in Nat /\ Cardinality(Undone(d)) \in Nat
        BY <2>1, UndoneFinite DEF TypeOK, Row
      <4>2. ReadBound(w)'
        BY <2>1, <2>2, <3>1, <3>2, <4>1 DEF WorkerOK, ReadBound, Downstream, InTransaction, NewInDegree, TypeOK
      <4>3. EdgeOK(w)' /\ ReportOK(w)'
        BY <2>1, <2>2 DEF WorkerOK, ReadBound, EdgeOK, ReportOK, Downstream, InTransaction, UpdatePcs,
            CompletionPcs, TypeOK, Succeeded
      <4> QED
        BY <4>2, <4>3 DEF WorkerOK
    <3>9. \A v \in Worker : pc[v] = "idle" /\ v # w => WorkerOK(v)'
      BY <2>1, IdleOK
    <3> QED
      BY <3>3, <3>4, <3>5, <3>6, <3>7, <3>8, <3>9 DEF IInv
  <2>3. CASE /\ pc' = [pc EXCEPT ![w] = "next"] /\ down' = [down EXCEPT ![w] = None]
             /\ UNCHANGED <<lock, decremented>>
    <3>1. WorkerOK(w)'
      BY <2>1, <2>3, UndoneSame DEF WorkerOK, ReadBound, EdgeOK, ReportOK, Downstream,
          InTransaction, UpdatePcs, CompletionPcs, TypeOK, Succeeded
    <3> QED
      BY <2>1, <2>3, <3>1, QuietStep DEF Frame
  <2> QED
    BY <1>15, <2>2, <2>3 DEF Decrement, RowFree
<1>16. ASSUME NEW w \in Worker, Trigger(w) PROVE IInv'
  <2> DEFINE d == down[w]
  <2>1. /\ UNCHANGED <<row, present, runPc, report, todo, read, decremented>>
        /\ pc[w] = "trigger" /\ d \in Node /\ d \in Succs(NodeOf[w]) /\ WorkerOK(w) /\ lock[d] = w
        /\ \A v \in Worker \ {w} : pc'[v] = pc[v] /\ down'[v] = down[v]
    BY <1>16, WorkerAssumption, SuccsInNode DEF Trigger, EndTransaction, dbVars, TypeOK, VisitOK,
        Downstream, InTransaction, IInv, WorkerOK, ReadBound
  <2>2. Undone(d) = {} /\ readyPuts[d] = 0 /\ row[d].phase = "Ready" /\ runPc # "put"
    <3>1. Cardinality(Undone(d)) = 0
      BY <2>1, UndoneFinite DEF WorkerOK, ReadBound, InTransaction, NewInDegree, TypeOK, Row
    <3>2. readyPuts[NodeOf[w]] > 0
      BY <2>1 DEF WorkerOK, ReportOK
    <3> QED
      BY <2>1, <3>1, <3>2, UndoneFinite, FS_EmptySet, WorkerAssumption
      DEF WorkerOK, ReadBound, IInv, StartOK, PresentOK
  <2>3. /\ \A n \in Node \ {d} : readyPuts'[n] = readyPuts[n] /\ lock'[n] = lock[n]
        /\ readyPuts'[d] \in {0, 1} /\ lock'[d] \in {w, None}
    BY <1>16, <2>1, <2>2 DEF Trigger, PutReady, EndTransaction, TypeOK
  <2>4. RowBound' /\ DecrementedOK' /\ PresentOK' /\ TakenOK'
    BY <2>1, <2>2, UndoneSame, DecrementedStays, TakenStays DEF IInv, RowBound, PresentOK
  <2>5. StartOK'
    BY <2>1, <2>2, <2>3, UndoneSame DEF IInv, StartOK
  <2>6. ASSUME NEW v \in Worker \ {w} PROVE WorkerOK(v)'
    <3>1. WorkerOK(v) /\ VisitOK(v) /\ NodeOf[v] \in Node /\ readyPuts'[NodeOf[v]] >= readyPuts[NodeOf[v]]
      BY <2>2, <2>3, WorkerAssumption DEF IInv, TypeOK
    <3>2. InTransaction(v) => down[v] \in Node /\ down[v] # d
      BY <2>1, <3>1, SuccsInNode DEF WorkerOK, ReadBound, VisitOK, Downstream
    <3>3. ReadBound(v)'
      BY <2>1, <2>3, <3>1, <3>2, UndoneSame DEF WorkerOK, ReadBound, Downstream, InTransaction, NewInDegree
    <3>4. EdgeOK(v)' /\ ReportOK(v)'
      BY <2>1, <3>1 DEF WorkerOK, EdgeOK, ReportOK, Downstream, InTransaction, Succeeded, TypeOK
    <3> QED
      BY <3>3, <3>4 DEF WorkerOK
  <2>7. WorkerOK(w)'
    <3>1. NodeOf[w] \in Node /\ readyPuts'[NodeOf[w]] >= readyPuts[NodeOf[w]]
      BY <2>2, <2>3, WorkerAssumption DEF TypeOK
    <3>2. CASE pc' = [pc EXCEPT ![w] = "commit"] /\ lock' = lock /\ down' = down
      BY <2>1, <3>1, <3>2, UndoneSame DEF WorkerOK, ReadBound, EdgeOK, ReportOK, Downstream,
          InTransaction, UpdatePcs, CompletionPcs, TypeOK, Succeeded
    <3>3. CASE pc' = [pc EXCEPT ![w] = "next"]
      BY <2>1, <3>1, <3>3 DEF WorkerOK, ReadBound, EdgeOK, ReportOK, Downstream,
          InTransaction, UpdatePcs, CompletionPcs, TypeOK, Succeeded
    <3> QED
      BY <1>16, <3>2, <3>3 DEF Trigger, EndTransaction
  <2> QED
    BY <2>4, <2>5, <2>6, <2>7 DEF IInv
<1>17. ASSUME NEW w \in Worker, Commit(w) PROVE IInv'
  <2> DEFINE d == down[w]
  <2>1. /\ UNCHANGED <<present, runPc, report, todo, read, readyPuts, decremented>>
        /\ pc[w] = "commit" /\ d \in Node /\ d \in Succs(NodeOf[w]) /\ WorkerOK(w) /\ lock[d] = w
        /\ pc' = [pc EXCEPT ![w] = "next"] /\ lock' = [lock EXCEPT ![d] = None]
        /\ \A v \in Worker \ {w} : pc'[v] = pc[v] /\ down'[v] = down[v]
    <3>1. /\ UNCHANGED <<present, runPc, report, todo, read, readyPuts, decremented>>
          /\ pc[w] = "commit"
          /\ pc' = [pc EXCEPT ![w] = "next"] /\ lock' = [lock EXCEPT ![d] = None]
          /\ down' = [down EXCEPT ![w] = None]
      BY <1>17 DEF Commit, EndTransaction, history
    <3>2. WorkerOK(w) /\ VisitOK(w)
      BY DEF IInv
    <3>3. d \in Succs(NodeOf[w]) /\ lock[d] = w
      BY <3>1, <3>2 DEF WorkerOK, ReadBound, VisitOK, Downstream, InTransaction
    <3> QED
      BY <3>1, <3>2, <3>3, SuccsInNode, WorkerAssumption DEF TypeOK
  <2>2. row[d].phase = "Ready"
    BY <2>1, WorkerAssumption DEF IInv, StartOK
  <2>3. /\ Cardinality(Undone(d)) <= row[d].inDegree /\ Cardinality(Undone(d)) < read[w].inDegree
        /\ read[w].inDegree \in Nat /\ Cardinality(Undone(d)) \in Nat /\ read[w].phase = "Ready"
    <3>1. /\ Cardinality(Undone(d)) < read[w].inDegree /\ read[w].phase = "Ready"
          /\ read[w] \in Row
      BY <2>1 DEF WorkerOK, ReadBound, InTransaction, Downstream, TypeOK
    <3>2. Preds(d) # {}
      BY <2>1, WorkerAssumption DEF Succs, Preds
    <3> QED
      BY <2>1, <3>1, <3>2, UndoneFinite DEF IInv, RowBound, Row
  <2>4. Written(w).phase = "Ready" /\ Cardinality(Undone(d)) <= Written(w).inDegree
    BY <2>3 DEF Written, NewInDegree
  <2>5. /\ \A n \in Node : row'[n].phase = row[n].phase
        /\ \A n \in Node \ {d} : row'[n] = row[n]
        /\ Cardinality(Undone(d)) <= row'[d].inDegree
    BY <1>17, <2>1, <2>2, <2>3, <2>4 DEF Commit, TypeOK
  <2>6. RowBound'
    BY <2>1, <2>5, UndoneSame DEF IInv, RowBound
  <2>7. DecrementedOK' /\ PresentOK' /\ TakenOK'
    BY <2>1, <2>5, DecrementedStays, TakenStays DEF IInv, PresentOK
  <2>8. StartOK'
    BY <2>1, <2>5, UndoneSame DEF IInv, StartOK, TypeOK
  <2>9. ASSUME NEW v \in Worker \ {w} PROVE WorkerOK(v)'
    <3>1. WorkerOK(v) /\ VisitOK(v) /\ NodeOf[v] \in Node /\ row'[NodeOf[v]].phase = row[NodeOf[v]].phase
      BY <2>5, WorkerAssumption DEF IInv
    <3>2. InTransaction(v) => down[v] \in Node /\ down[v] # d
      BY <2>1, <3>1, SuccsInNode DEF WorkerOK, ReadBound, VisitOK, Downstream
    <3>3. ReadBound(v)'
      <4>1. InTransaction(v) => lock'[down[v]] = lock[down[v]]
        BY <2>1, <3>2 DEF TypeOK
      <4> QED
        BY <2>1, <3>1, <4>1, UndoneSame DEF WorkerOK, ReadBound, Downstream, InTransaction, NewInDegree
    <3>4. EdgeOK(v)' /\ ReportOK(v)'
      BY <2>1, <3>1 DEF WorkerOK, EdgeOK, ReportOK, Downstream, InTransaction, Succeeded
    <3> QED
      BY <3>3, <3>4 DEF WorkerOK
  <2>10. WorkerOK(w)'
    <3>1. NodeOf[w] \in Node /\ row'[NodeOf[w]].phase = row[NodeOf[w]].phase
      BY <2>5, WorkerAssumption
    <3> QED
      BY <2>1, <3>1 DEF WorkerOK, ReadBound, EdgeOK, ReportOK, Downstream, InTransaction, UpdatePcs,
          CompletionPcs, TypeOK, Succeeded
  <2> QED
    BY <2>6, <2>7, <2>8, <2>9, <2>10 DEF IInv
<1>18. ASSUME NEW n \in Node, Delete(n) PROVE IInv'
  <2>1. /\ UNCHANGED <<row, lock, runPc, pc, report, todo, down, read, readyPuts, decremented>>
        /\ present' \subseteq present
    BY <1>18 DEF Delete, localVars, history
  <2>2. RowBound' /\ DecrementedOK' /\ StartOK' /\ PresentOK' /\ TakenOK'
    BY <2>1, UndoneSame, DecrementedStays, TakenStays DEF IInv, RowBound, StartOK, PresentOK
  <2>3. ASSUME NEW v \in Worker PROVE WorkerOK(v)'
    BY <2>1, UndoneSame DEF IInv, WorkerOK, ReadBound, EdgeOK, ReportOK, Downstream,
        InTransaction, NewInDegree
  <2> QED
    BY <2>2, <2>3 DEF IInv
<1>19. CASE Crash
  <2>1. /\ UNCHANGED <<row, present, decremented, readyPuts, report>> /\ runPc' # "put"
        /\ lock' = [n \in Node |-> None]
        /\ (runPc' = "done" <=> runPc = "done")
        /\ \A v \in Worker : pc'[v] = IF pc[v] \in UpdatePcs THEN "retry"
                                      ELSE IF pc[v] \in CompletionPcs THEN "done" ELSE pc[v]
    BY <1>19 DEF Crash, dbVars, history
  <2>2. RowBound' /\ DecrementedOK' /\ StartOK' /\ PresentOK' /\ TakenOK'
    BY <2>1, UndoneSame, DecrementedStays, TakenStays DEF IInv, RowBound, StartOK, PresentOK
  <2>3. ASSUME NEW v \in Worker PROVE WorkerOK(v)'
    BY <2>1 DEF IInv, WorkerOK, ReadBound, EdgeOK, ReportOK, Downstream, InTransaction,
        UpdatePcs, CompletionPcs
  <2> QED
    BY <2>2, <2>3 DEF IInv
<1>20. CASE UNCHANGED vars
  <2>1. RowBound' /\ DecrementedOK' /\ StartOK' /\ PresentOK' /\ TakenOK'
    BY <1>20, UndoneSame, DecrementedStays, TakenStays DEF vars, IInv, RowBound, StartOK, PresentOK
  <2>2. ASSUME NEW v \in Worker PROVE WorkerOK(v)'
    BY <1>20, UndoneSame DEF vars, IInv, WorkerOK, ReadBound, EdgeOK, ReportOK, Downstream,
        InTransaction, NewInDegree, Succeeded
  <2> QED
    BY <2>1, <2>2 DEF IInv
<1> QED
  BY <1>0, <1>1, <1>2, <1>3, <1>4, <1>5, <1>6, <1>7, <1>8, <1>9, <1>10, <1>11, <1>12, <1>13, <1>14,
     <1>15, <1>16, <1>17, <1>18, <1>19, <1>20
  DEF Next, Run, Operator, Update, Completion, Stopped

----------------------------------------------------------------------------
(* The theorems.                                                            *)

(* The invariant holds for ever. *)
LEMMA Invariance == Spec => [](TypeInv /\ (Unrepeated => IInv))
<1>1. Init => TypeInv /\ (Unrepeated => IInv)
  BY TypeInit, InvInit
<1>2. TypeInv /\ (Unrepeated => IInv) /\ [Next]_vars => (TypeInv /\ (Unrepeated => IInv))'
  <2> SUFFICES ASSUME TypeInv, Unrepeated => IInv, [Next]_vars
               PROVE  TypeInv' /\ (Unrepeated' => IInv')
    OBVIOUS
  <2>1. TypeInv'
    BY TypeStep
  <2>2. ASSUME Unrepeated' PROVE IInv'
    BY <2>1, <2>2, NoRepeat, InvStep
  <2> QED
    BY <2>1, <2>2
<1> QED
  BY <1>1, <1>2, PTL DEF Spec

(* Until a report is repeated a node's Ready event is put once, on every    *)
(* graph, whatever calls fail, whatever rows are deleted and wherever the   *)
(* server stops, and only after the operators of all the nodes it depends   *)
(* on reported success, also when the row of one of them has been deleted.  *)
StartsWell ==
    Unrepeated =>
        \A n \in Node : /\ readyPuts[n] <= 1
                        /\ readyPuts[n] > 0 => \A m \in Preds(n) : EndedWell(m)

THEOREM StartsAfterReports == Spec => []StartsWell
<1>1. (Unrepeated => IInv) => StartsWell
  BY DEF IInv, StartOK, DecrementedOK, Undone, Preds, StartsWell
<1> QED
  BY <1>1, Invariance, PTL

----------------------------------------------------------------------------
(* The outcome of the pipeline, when no row is deleted.                     *)

(* The rows are all there or not at all, and a worker whose Update found    *)
(* its row found them all.                                                  *)
KeptOK ==
    /\ present \in {{}, Node}
    /\ \A w \in Worker : pc[w] \in {"write", "put", "done"} \cup CompletionPcs => present = Node

(* Before Run ends there is no pipeline. *)
RunOK == runPc # "done" => pipe = "absent"

(* An outcome, stored or about to be, is what the rows say, all of which    *)
(* are final.                                                               *)
OutcomeOK ==
    /\ pipe \in {"Success", "Failed"} => present = Node /\ AllCompleted /\ pipe = PipelineVerdict
    /\ \A w \in Worker : pc[w] = "status" => AllCompleted /\ verdict[w] = PipelineVerdict

(* An operator reports Running before it reports an end. *)
OrderOK(w) ==
    /\ pc[w] # "idle" => report[w] # "Ready"
    /\ pc[w] = "working" => row[NodeOf[w]].phase = "Running"
    /\ pc[w] \in UpdatePcs \cup {"retry"} /\ report[w] \in Terminal => row[NodeOf[w]].phase # "Ready"

(* A worker that is going to remove the key of n. *)
WillClean(w, n) ==
    \/ pc[w] \in {"put", "load", "next", "decrement", "trigger", "commit"}
    \/ pc[w] \in {"status", "cleanup"} /\ n \in todo[w]

(* When every node succeeded and no call failed, somebody is going to       *)
(* remove each key that is left.                                            *)
CleanOK ==
    faults = 0 /\ crashes = 0 /\ (\A n \in Node : Succeeded(n))
      => \A n \in Node : etcd[n] # None => \E w \in Worker : WillClean(w, n)

OutcomeInv == KeptOK /\ RunOK /\ OutcomeOK /\ CleanOK /\ \A w \in Worker : OrderOK(w)

(* The invariant of outcomes holds initially. *)
LEMMA OutcomeInit == Init => OutcomeInv
<1> SUFFICES ASSUME Init PROVE OutcomeInv
  OBVIOUS
<1>1. KeptOK /\ RunOK /\ OutcomeOK /\ CleanOK
  BY DEF Init, KeptOK, RunOK, OutcomeOK, CleanOK, CompletionPcs
<1>2. ASSUME NEW w \in Worker PROVE OrderOK(w)
  BY DEF Init, OrderOK, UpdatePcs
<1> QED
  BY <1>1, <1>2 DEF OutcomeInv

(* The phase of a row changes only when the operator of its node reports,   *)
(* and never once it is terminal: a completion that writes back its copy of *)
(* the row writes the phase that is there.                                  *)
LEMMA PhaseStep ==
    ASSUME TypeInv, IInv, [Next]_vars, NEW n \in Node
    PROVE  \/ row'[n].phase = row[n].phase
           \/ /\ row[n].phase \notin Terminal
              /\ \E w \in Worker : /\ NodeOf[w] = n /\ UpdateWrite(w)
                                   /\ pc[w] = "write" /\ row'[n].phase = report[w]
<1> DEFINE Claim == \/ row'[n].phase = row[n].phase
                    \/ /\ row[n].phase \notin Terminal
                       /\ \E w \in Worker : /\ NodeOf[w] = n /\ UpdateWrite(w)
                                            /\ pc[w] = "write" /\ row'[n].phase = report[w]
<1>1. ASSUME NEW w \in Worker, UpdateWrite(w) PROVE Claim
  <2> DEFINE m == NodeOf[w]
  <2>1. pc[w] = "write" /\ (row' = row \/ row' = [row EXCEPT ![m].phase = report[w]])
    BY <1>1 DEF UpdateWrite, Goto
  <2>2. CASE n = m /\ row' = [row EXCEPT ![m].phase = report[w]]
    <3>1. row[n] \in Row /\ row \in [Node -> Row]
      BY DEF TypeInv, TypeOK
    <3>2. row'[n].phase = report[w]
      BY <2>2, <3>1 DEF Row
    <3>3. row[n].phase \notin Terminal \/ row[n].phase = report[w]
      BY <2>1, <2>2 DEF IInv, WorkerOK, ReportOK, UpdatePcs
    <3> QED
      BY <1>1, <2>1, <2>2, <3>2, <3>3
  <2>3. CASE n # m \/ row' = row
    BY <2>1, <2>3 DEF TypeInv, TypeOK
  <2> QED
    BY <2>1, <2>2, <2>3
<1>2. ASSUME NEW w \in Worker, Commit(w) PROVE row'[n].phase = row[n].phase
  <2>1. row' = row \/ row' = [row EXCEPT ![down[w]] = Written(w)]
    BY <1>2 DEF Commit
  <2>2. /\ down[w] \in Node /\ row[down[w]].phase = "Ready"
        /\ Written(w).phase = "Ready"
    <3>1. down[w] \in Succs(NodeOf[w]) /\ read[w].phase = "Ready" /\ lock[down[w]] = w
      BY <1>2 DEF Commit, Downstream, InTransaction, TypeInv, VisitOK, IInv, WorkerOK, ReadBound
    <3>2. down[w] \in Node /\ lock[down[w]] # None
      BY <3>1, SuccsInNode, WorkerAssumption
    <3> QED
      BY <3>1, <3>2 DEF IInv, StartOK, Written
  <2> QED
    BY <2>1, <2>2 DEF TypeInv, TypeOK
<1>3. CASE UNCHANGED row
  BY <1>3
<1> QED
  BY <1>1, <1>2, <1>3, GiveUpStep DEF Next, Run, RunPut, RunPutFails, RunWithoutNodes, RunCommit, RunCommitFails,
      Operator, Begin, Finish, Resend, Send, Update, UpdateRead, UpdatePut, Completion,
      LoadDependencies, ReadDownstream, Decrement, Trigger, CheckCompletion, UpdateStatus, Cleanup,
      CleanupEnd, Delete, Crash, Stopped, vars, dbVars

(* Rows that are all final stay so. *)
LEMMA FinalStays ==
    ASSUME TypeInv, IInv, [Next]_vars, present' = present, AllCompleted
    PROVE  AllCompleted' /\ PipelineVerdict' = PipelineVerdict
<1>1. \A n \in present : row'[n].phase = row[n].phase
  BY PhaseStep DEF AllCompleted, TypeInv, TypeOK
<1> QED
  BY <1>1 DEF AllCompleted, PipelineVerdict

(* A worker on the server found its row, so Run has ended. *)
LEMMA RowsFound ==
    ASSUME IInv, KeptOK, NEW w \in Worker, pc[w] \in {"write", "put"} \cup CompletionPcs
    PROVE  present = Node /\ runPc = "done"
  BY DEF KeptOK, IInv, WorkerOK, ReportOK

(* What an operator reported is what the row says.                          *)
LEMMA Reported ==
    ASSUME IInv, KeptOK
    PROVE  /\ \A w \in Worker : pc[w] \in {"put"} \cup CompletionPcs => row[NodeOf[w]].phase = report[w]
           /\ \A m \in Node : EndedWell(m) => Succeeded(m)
<1>1. ASSUME NEW w \in Worker, pc[w] \in {"put", "done"} \cup CompletionPcs
      PROVE  row[NodeOf[w]].phase = report[w]
  <2>1. NodeOf[w] \in present
    BY <1>1, WorkerAssumption DEF KeptOK
  <2> QED
    BY <1>1, <2>1 DEF IInv, WorkerOK, ReportOK
<1> QED
  BY <1>1 DEF EndedWell, Succeeded

(* Each step keeps the rows all there or not at all.                        *)
LEMMA KeptStep ==
    ASSUME MaxDeletes = 0, TypeInv, IInv, KeptOK, [Next]_vars PROVE KeptOK'
<1> DEFINE Found == {"write", "put", "done"} \cup CompletionPcs
<1>1. CASE present' = present /\ \A w \in Worker : pc'[w] \in Found => pc[w] \in Found
  BY <1>1 DEF KeptOK
<1>2. CASE Run
  <2>1. pc' = pc /\ present' \in {present, Node}
    BY <1>2 DEF Run, RunPut, RunPutFails, RunWithoutNodes, RunCommit, RunCommitFails, dbVars, localVars
  <2> QED
    BY <2>1 DEF KeptOK
<1>3. ASSUME NEW w \in Worker, Operator(w) PROVE KeptOK'
  <2>1. present' = present /\ pc'[w] = "read" /\ \A v \in Worker \ {w} : pc'[v] = pc[v]
    BY <1>3 DEF Operator, Begin, Finish, Resend, Send, Goto, dbVars, TypeInv, TypeOK
  <2> QED
    BY <1>1, <2>1 DEF CompletionPcs
<1>4. ASSUME NEW w \in Worker, UpdateRead(w) PROVE KeptOK'
  <2>1. CASE NodeOf[w] \in present
    BY <1>4, <2>1 DEF UpdateRead, dbVars, KeptOK
  <2>2. CASE pc' = [pc EXCEPT ![w] = "retry"]
    BY <1>1, <1>4, <2>2 DEF UpdateRead, dbVars, TypeInv, TypeOK, CompletionPcs
  <2> QED
    BY <1>4, <2>1, <2>2 DEF UpdateRead, Goto
<1>5. ASSUME NEW w \in Worker, UpdateWrite(w) \/ UpdatePut(w) PROVE KeptOK'
  BY <1>1, <1>5 DEF UpdateWrite, UpdatePut, AfterUpdate, Goto, dbVars, TypeInv, TypeOK, CompletionPcs
<1>6. ASSUME NEW w \in Worker, Completion(w) PROVE KeptOK'
  <2>1. pc[w] \in Found /\ present' = present /\ \A v \in Worker \ {w} : pc'[v] = pc[v]
    BY <1>6 DEF Completion, LoadDependencies, ReadDownstream, Decrement, Trigger, Commit,
        EndTransaction, CheckCompletion, UpdateStatus, Cleanup, CleanupEnd, Goto, dbVars, CompletionPcs,
        TypeInv, TypeOK
  <2> QED
    BY <1>1, <2>1
<1>7. CASE Crash
  BY <1>1, <1>7 DEF Crash, dbVars, UpdatePcs, CompletionPcs
<1>8. ASSUME NEW n \in Node, Delete(n) PROVE KeptOK'
  BY <1>8 DEF Delete, TypeInv, TypeOK
<1>9. CASE UNCHANGED vars
  BY <1>1, <1>9 DEF vars
<1>10. CASE LostAnswer
  BY <1>1, <1>10, GiveUpStep DEF Frame, CompletionPcs
<1> QED
  BY <1>2, <1>3, <1>4, <1>5, <1>6, <1>7, <1>8, <1>9, <1>10 DEF Next, Update, Stopped

(* Each step keeps what precedes Run's end. *)
LEMMA RunStep ==
    ASSUME MaxDeletes = 0, TypeInv, IInv, OutcomeInv, [Next]_vars PROVE RunOK'
<1> USE DEF OutcomeInv
<1>1. CASE Run
  BY <1>1 DEF Run, RunPut, RunPutFails, RunWithoutNodes, RunCommit, RunCommitFails, RunOK, dbVars
<1>2. ASSUME NEW w \in Worker, UpdateStatus(w) PROVE RunOK'
  <2>1. runPc = "done"
    BY <1>2, RowsFound DEF UpdateStatus, Goto, CompletionPcs
  <2> QED
    BY <1>2, <2>1 DEF UpdateStatus, RunOK
<1>3. CASE UNCHANGED <<runPc, present, pipe>>
  BY <1>3 DEF RunOK
<1>4. CASE Crash
  BY <1>4 DEF Crash, dbVars, RunOK
<1>5. ASSUME NEW n \in Node, Delete(n) PROVE RunOK'
  BY <1>5 DEF Delete, TypeInv, TypeOK
<1>6. CASE LostAnswer
  BY <1>3, <1>6, GiveUpStep
<1> QED
  BY <1>1, <1>2, <1>3, <1>4, <1>5, <1>6 DEF Next,
      Operator, Begin, Finish, Resend, Send, Update, UpdateRead, UpdateWrite, UpdatePut, Completion,
      LoadDependencies, ReadDownstream, Decrement, Trigger, Commit, CheckCompletion, Cleanup,
      CleanupEnd, Stopped, vars, dbVars

(* Each step keeps the outcomes right. *)
LEMMA OutcomeStep ==
    ASSUME MaxDeletes = 0, TypeInv, IInv, OutcomeInv, [Next]_vars PROVE OutcomeOK'
<1> USE DEF OutcomeInv
<1>1. CASE Run
  <2>1. RunOK /\ pipe' \in {pipe, "Running"} /\ pc' = pc /\ verdict' = verdict /\ runPc # "done"
    BY <1>1 DEF Run, RunPut, RunPutFails, RunWithoutNodes, RunCommit, RunCommitFails, dbVars,
        localVars, NewPipeExec
  <2>2. pipe' \notin {"Success", "Failed"}
    BY <2>1 DEF RunOK
  <2>3. ASSUME NEW w \in Worker PROVE pc'[w] # "status"
    BY <2>1, RowsFound DEF CompletionPcs
  <2> QED
    BY <2>2, <2>3 DEF OutcomeOK
<1>2. ASSUME NEW w \in Worker, CheckCompletion(w) PROVE OutcomeOK'
  <2>1. /\ UNCHANGED <<present, row, pipe>> /\ \A v \in Worker \ {w} : pc'[v] = pc[v] /\ verdict'[v] = verdict[v]
        /\ pc'[w] = "status" => AllCompleted /\ verdict'[w] = PipelineVerdict
    BY <1>2 DEF CheckCompletion, Goto, dbVars, TypeInv, TypeOK
  <2>2. AllCompleted' = AllCompleted /\ PipelineVerdict' = PipelineVerdict
    BY <2>1 DEF AllCompleted, PipelineVerdict
  <2> QED
    BY <2>1, <2>2 DEF OutcomeOK
<1>3. ASSUME NEW w \in Worker, UpdateStatus(w) PROVE OutcomeOK'
  <2>1. /\ UNCHANGED <<present, row, verdict>> /\ \A v \in Worker : pc'[v] = "status" => pc[v] = "status"
        /\ pipe' \in {pipe, verdict[w]} /\ pc[w] = "status"
    BY <1>3 DEF UpdateStatus, Goto, localVars, TypeInv, TypeOK
  <2>2. AllCompleted' = AllCompleted /\ PipelineVerdict' = PipelineVerdict
    BY <2>1 DEF AllCompleted, PipelineVerdict
  <2>3. present = Node
    BY <2>1, RowsFound DEF CompletionPcs
  <2> QED
    BY <2>1, <2>2, <2>3 DEF OutcomeOK
<1>4. CASE /\ UNCHANGED <<present, pipe, verdict>>
           /\ \A v \in Worker : pc'[v] = "status" => pc[v] = "status"
  <2>1. AllCompleted => AllCompleted' /\ PipelineVerdict' = PipelineVerdict
    BY <1>4, FinalStays
  <2> QED
    BY <1>4, <2>1 DEF OutcomeOK
<1>5. CASE Crash
  BY <1>4, <1>5 DEF Crash, dbVars, UpdatePcs, CompletionPcs
<1>6. ASSUME NEW n \in Node, Delete(n) PROVE OutcomeOK'
  BY <1>6 DEF Delete, TypeInv, TypeOK
<1>7. ASSUME NEW w \in Worker, Operator(w) \/ Update(w) PROVE OutcomeOK'
  BY <1>4, <1>7 DEF Operator, Begin, Finish, Resend, Send, Update, UpdateRead, UpdateWrite,
      UpdatePut, AfterUpdate, Goto, dbVars, localVars, TypeInv, TypeOK
<1>8. ASSUME NEW w \in Worker,
             \/ LoadDependencies(w) \/ ReadDownstream(w) \/ Decrement(w) \/ Trigger(w) \/ Commit(w)
             \/ Cleanup(w) \/ CleanupEnd(w)
      PROVE  OutcomeOK'
  BY <1>4, <1>8 DEF LoadDependencies, ReadDownstream, Decrement, Trigger, Commit, EndTransaction,
      Cleanup, CleanupEnd, Goto, dbVars, localVars, TypeInv, TypeOK
<1>9. CASE UNCHANGED vars
  BY <1>4, <1>9 DEF vars
<1>10. CASE LostAnswer
  BY <1>4, <1>10, GiveUpStep DEF Frame
<1> QED
  BY <1>1, <1>2, <1>3, <1>5, <1>6, <1>7, <1>8, <1>9, <1>10 DEF Next, Completion, Stopped

(* Each step keeps the order of reports. *)
LEMMA OrderStep ==
    ASSUME Unrepeated', MaxDeletes = 0, TypeInv, IInv, OutcomeInv, [Next]_vars, NEW v \in Worker
    PROVE  OrderOK(v)'
<1> USE DEF OutcomeInv
<1> DEFINE n == NodeOf[v]
<1>0. /\ n \in Node /\ pc \in [Worker -> Pcs] /\ report \in [Worker -> Phase]
      /\ Unrepeated /\ ~LostAnswer
  BY WorkerAssumption, NoRepeat DEF TypeInv, TypeOK
<1>1. CASE pc'[v] = pc[v] /\ report'[v] = report[v] /\ row'[n].phase = row[n].phase
  BY <1>1 DEF OrderOK
<1>2. ASSUME pc'[v] = pc[v] /\ report'[v] = report[v], row'[n].phase # row[n].phase PROVE OrderOK(v)'
  <2>1. PICK w \in Worker :
            /\ NodeOf[w] = n /\ UpdateWrite(w) /\ row'[n].phase = report[w] /\ pc[w] = "write"
    BY <1>0, <1>2, PhaseStep
  <2>2. CASE w = v
    BY <1>0, <1>2, <2>1, <2>2 DEF UpdateWrite, Goto
  <2>3. CASE w # v
    <3>1. pc[v] = "idle"
      BY <1>0, <2>1, <2>3, AloneAtWork
    <3> QED
      BY <1>2, <3>1 DEF OrderOK, UpdatePcs
  <2> QED
    BY <2>2, <2>3
<1>3. CASE Operator(v)
  <2>1. row' = row
    BY <1>3 DEF Operator, Begin, Finish, Resend, Send, dbVars
  <2> QED
    BY <1>0, <1>3, <2>1, OutcomeAssumption DEF Operator, Begin, Finish, Resend, Send, Goto, OrderOK,
        UpdatePcs, Terminal
<1>4. CASE UpdateRead(v) \/ UpdatePut(v)
  <2>1. row' = row /\ report' = report
    BY <1>4 DEF UpdateRead, UpdatePut, dbVars, localVars
  <2>2. pc[v] = "put" => row[n].phase = report[v]
    BY Reported
  <2>3. report[v] \in {"Ready", "Running", "Succeeded", "Failed"}
    BY <1>0 DEF Phase
  <2> QED
    BY <1>0, <1>4, <2>1, <2>2, <2>3 DEF UpdateRead, UpdatePut, AfterUpdate, Goto, OrderOK,
        UpdatePcs, Terminal
<1>5. CASE UpdateWrite(v)
  <2>1. report' = report /\ pc[v] = "write" /\ pc'[v] \in {"put", "retry"}
    BY <1>0, <1>5 DEF UpdateWrite, Goto, localVars
  <2>2. row'[n].phase = row[n].phase \/ row'[n].phase = report[v]
    <3>1. row' = row \/ row' = [row EXCEPT ![n].phase = report[v]]
      BY <1>5 DEF UpdateWrite
    <3> QED
      BY <1>0, <3>1 DEF TypeInv, TypeOK, Row
  <2> QED
    BY <2>1, <2>2 DEF OrderOK, UpdatePcs, Terminal
<1>6. CASE Completion(v)
  <2>1. pc[v] \in CompletionPcs /\ pc'[v] \in CompletionPcs \cup {"done"} /\ report' = report
    BY <1>0, <1>6 DEF Completion, LoadDependencies, ReadDownstream, Decrement, Trigger, Commit,
        EndTransaction, CheckCompletion, UpdateStatus, Cleanup, CleanupEnd, Goto, localVars, CompletionPcs
  <2> QED
    BY <2>1 DEF OrderOK, CompletionPcs, UpdatePcs
<1>7. CASE Crash
  BY <1>0, <1>7 DEF Crash, OrderOK, dbVars, UpdatePcs, CompletionPcs
<1>8. CASE Run \/ \E k \in Node : Delete(k)
  BY <1>1, <1>2, <1>8 DEF Run, RunPut, RunPutFails, RunWithoutNodes, RunCommit, RunCommitFails,
      Delete, localVars
<1>9. ASSUME NEW w \in Worker, w # v, Operator(w) \/ Update(w) \/ Completion(w)
      PROVE  pc'[v] = pc[v] /\ report'[v] = report[v]
  <2>1. CASE Operator(w)
    BY <1>9, <2>1 DEF Operator, Begin, Finish, Resend, Send, Goto, TypeInv, TypeOK
  <2>2. CASE Update(w)
    BY <1>9, <2>2 DEF Update, UpdateRead, UpdateWrite, UpdatePut, Goto, localVars, TypeInv, TypeOK
  <2>3. CASE Completion(w)
    BY <1>9, <2>3 DEF Completion, LoadDependencies, ReadDownstream, Decrement, Trigger, Commit,
        EndTransaction, CheckCompletion, UpdateStatus, Cleanup, CleanupEnd, Goto, localVars, TypeInv, TypeOK
  <2> QED
    BY <1>9, <2>1, <2>2, <2>3
<1>10. CASE UNCHANGED vars
  BY <1>1, <1>10 DEF vars
<1>11. ASSUME NEW w \in Worker, Operator(w) \/ Update(w) \/ Completion(w) PROVE OrderOK(v)'
  BY <1>1, <1>2, <1>3, <1>4, <1>5, <1>6, <1>9, <1>11 DEF Update
<1> QED
  BY <1>0, <1>7, <1>8, <1>10, <1>11 DEF Next, Stopped

(* Once every node succeeded, a worker that is going to remove a key does   *)
(* so or is still going to, unless a call fails.                            *)
LEMMA CleanerStep ==
    ASSUME TypeInv, IInv, OutcomeInv, \A n \in Node : Succeeded(n), NEW w \in Worker,
           Update(w) \/ Completion(w), faults = 0, faults' = 0, NEW n \in Node, WillClean(w, n)
    PROVE  WillClean(w, n)' \/ etcd'[n] = None
<1> USE DEF OutcomeInv
<1>1. ~Fault /\ pc \in [Worker -> Pcs] /\ todo \in [Worker -> SUBSET Node] /\ etcd \in [Node -> Phase \cup {None}]
  BY DEF Fault, TypeInv, TypeOK
<1>2. CASE Update(w)
  <2>1. pc[w] = "put" /\ UpdatePut(w)
    BY <1>2 DEF WillClean, Update, UpdateRead, UpdateWrite, UpdatePut, Goto
  <2>2. report[w] = "Succeeded"
    BY <2>1, Reported, WorkerAssumption DEF Succeeded
  <2> QED
    BY <1>1, <2>1, <2>2 DEF UpdatePut, Goto, AfterUpdate, WillClean
<1>3. CASE LoadDependencies(w) \/ ReadDownstream(w) \/ Decrement(w) \/ Trigger(w) \/ Commit(w)
  BY <1>1, <1>3 DEF LoadDependencies, ReadDownstream, Decrement, Trigger, Commit, EndTransaction,
      Goto, WillClean
<1>4. CASE CheckCompletion(w)
  <2>1. AllCompleted /\ n \in present
    <3>1. present = Node
      BY <1>4, RowsFound DEF CheckCompletion, Goto, CompletionPcs
    <3> QED
      BY <3>1 DEF AllCompleted, Succeeded, Terminal
  <2> QED
    BY <1>1, <1>4, <2>1 DEF CheckCompletion, Goto, WillClean
<1>5. CASE UpdateStatus(w) \/ CleanupEnd(w)
  BY <1>1, <1>5 DEF UpdateStatus, CleanupEnd, Goto, localVars, WillClean
<1>6. CASE Cleanup(w)
  BY <1>1, <1>6 DEF Cleanup, WillClean
<1> QED
  BY <1>2, <1>3, <1>4, <1>5, <1>6 DEF Completion

(* Once every node succeeded, who puts a key is going to remove it.         *)
LEMMA PutterCleans ==
    ASSUME MaxDeletes = 0, TypeInv, IInv, OutcomeInv, [Next]_vars, \A n \in Node : Succeeded(n),
           faults = 0, faults' = 0, crashes' = 0,
           NEW n \in Node, etcd[n] = None, etcd'[n] # None
    PROVE  \E w \in Worker : WillClean(w, n)'
<1>1. ~Fault /\ ~Crash /\ pc \in [Worker -> Pcs]
  BY BoundAssumption DEF Fault, Crash, TypeInv, TypeOK
<1>2. CASE Run
  <2>1. runPc = "put"
    BY <1>2 DEF Run, RunPut, RunPutFails, RunWithoutNodes, RunCommit, RunCommitFails
  <2>2. readyPuts[n] = 0 /\ row[n].phase = "Succeeded"
    BY <2>1 DEF IInv, PresentOK, Succeeded
  <2> QED
    BY <2>2 DEF IInv, StartOK
<1>3. ASSUME NEW w \in Worker, UpdatePut(w) PROVE WillClean(w, n)'
  <2>1. report[w] = "Succeeded"
    BY <1>3, Reported, WorkerAssumption DEF OutcomeInv, UpdatePut, Goto, Succeeded
  <2> QED
    BY <1>1, <1>3, <2>1 DEF UpdatePut, Goto, AfterUpdate, WillClean
<1>4. ASSUME NEW w \in Worker, Trigger(w) PROVE WillClean(w, n)'
  BY <1>1, <1>4 DEF Trigger, WillClean
<1>5. ASSUME NEW w \in Worker, Cleanup(w) PROVE FALSE
  BY <1>5 DEF Cleanup, TypeInv, TypeOK
<1>6. ASSUME NEW k \in Node, Delete(k) PROVE FALSE
  BY <1>6 DEF Delete, TypeInv, TypeOK
<1>7. CASE LostAnswer
  BY <1>7, GiveUpStep
<1> QED
  BY <1>1, <1>2, <1>3, <1>4, <1>5, <1>6, <1>7 DEF Next, Operator, Begin, Finish, Resend, Send, Update,
      UpdateRead, UpdateWrite, Completion, LoadDependencies, ReadDownstream, Decrement, Commit,
      CheckCompletion, UpdateStatus, CleanupEnd, Stopped, vars

(* Each step keeps the keys left in somebody's care. *)
LEMMA CleanStep ==
    ASSUME MaxDeletes = 0, TypeInv, IInv, OutcomeInv, [Next]_vars PROVE CleanOK'
<1> SUFFICES ASSUME faults' = 0, crashes' = 0, (\A n \in Node : Succeeded(n))', NEW n \in Node, etcd'[n] # None
             PROVE  \E w \in Worker : WillClean(w, n)'
  BY DEF CleanOK
<1>1. faults = 0 /\ crashes = 0 /\ ~Crash /\ ~Fault
  <2>1. faults \in Nat /\ crashes \in Nat /\ faults' >= faults /\ crashes' >= crashes
    <3>1. faults \in Nat /\ crashes \in Nat
      BY BoundAssumption DEF TypeInv, TypeOK
    <3>2. (Fault \/ NoFault \/ Crash \/ (\E k \in Node : Delete(k)) \/ UNCHANGED vars)
      BY GiveUpStep DEF Next, Run, RunPut, RunPutFails, RunWithoutNodes, RunCommit, RunCommitFails,
          Operator, Begin, Finish, Resend, Send, Update, UpdateRead, UpdateWrite, UpdatePut,
          Completion, LoadDependencies, ReadDownstream, Decrement, Trigger, Commit,
          CheckCompletion, UpdateStatus, Cleanup, CleanupEnd, Stopped
    <3> QED
      BY <3>1, <3>2 DEF Fault, NoFault, Crash, Delete, budget, vars
  <2> QED
    BY <2>1 DEF Crash, Fault
<1>2. CASE \E m \in Node : ~Succeeded(m)
  <2>1. PICK m \in Node : ~Succeeded(m)
    BY <1>2
  <2>2. PICK w \in Worker : UpdateWrite(w) /\ row' # row
    <3>1. row'[m].phase # row[m].phase
      BY <2>1 DEF Succeeded
    <3> QED
      BY <3>1, PhaseStep
  <2>3. pc'[w] = "put"
    BY <1>1, <2>2 DEF UpdateWrite, Goto, TypeInv, TypeOK
  <2> QED
    BY <2>3 DEF WillClean
<1>3. CASE \A m \in Node : Succeeded(m)
  <2>1. CASE etcd[n] = None
    BY <1>1, <1>3, <2>1, PutterCleans
  <2>2. CASE etcd[n] # None
    <3>1. PICK w \in Worker : WillClean(w, n)
      BY <1>1, <1>3, <2>2 DEF OutcomeInv, CleanOK
    <3>2. CASE Update(w) \/ Completion(w)
      BY <1>1, <1>3, <3>1, <3>2, CleanerStep
    <3>3. CASE pc'[w] = pc[w] /\ todo'[w] = todo[w]
      BY <3>1, <3>3 DEF WillClean
    <3>4. ASSUME NEW v \in Worker, Operator(v) PROVE pc'[w] = pc[w] /\ todo'[w] = todo[w]
      BY <3>1, <3>4 DEF Operator, Begin, Finish, Resend, Send, Goto, WillClean, TypeInv, TypeOK
    <3>5. ASSUME NEW v \in Worker \ {w}, Update(v) PROVE pc'[w] = pc[w] /\ todo'[w] = todo[w]
      BY <3>5 DEF Update, UpdateRead, UpdateWrite, UpdatePut, Goto, localVars, TypeInv, TypeOK
    <3>6. ASSUME NEW v \in Worker \ {w}, Completion(v) PROVE pc'[w] = pc[w] /\ todo'[w] = todo[w]
      BY <3>6 DEF Completion, LoadDependencies, ReadDownstream, Decrement, Trigger, Commit,
          EndTransaction, CheckCompletion, UpdateStatus, Cleanup, CleanupEnd, Goto, localVars, TypeInv, TypeOK
    <3>7. CASE Run \/ (\E k \in Node : Delete(k)) \/ UNCHANGED vars
      BY <3>7 , <3>3 DEF Run, RunPut, RunPutFails, RunWithoutNodes, RunCommit, RunCommitFails, Delete,
          localVars, vars
    <3>8. CASE LostAnswer
      BY <3>1, <3>3, <3>8, GiveUpStep DEF Frame, WillClean
    <3> QED
      BY <1>1, <3>2, <3>3, <3>4, <3>5, <3>6, <3>7, <3>8 DEF Next, Stopped
  <2> QED
    BY <2>1, <2>2
<1> QED
  BY <1>2, <1>3

(* The invariants together hold until a report is repeated. *)
LEMMA FullInvariance ==
    MaxDeletes = 0 => (Spec => [](TypeInv /\ (Unrepeated => IInv /\ OutcomeInv)))
<1> SUFFICES ASSUME MaxDeletes = 0
             PROVE  Spec => [](TypeInv /\ (Unrepeated => IInv /\ OutcomeInv))
  OBVIOUS
<1>1. Init => TypeInv /\ (Unrepeated => IInv /\ OutcomeInv)
  BY TypeInit, InvInit, OutcomeInit
<1>2. TypeInv /\ (Unrepeated => IInv /\ OutcomeInv) /\ [Next]_vars
        => (TypeInv /\ (Unrepeated => IInv /\ OutcomeInv))'
  <2> SUFFICES ASSUME TypeInv, Unrepeated => IInv /\ OutcomeInv, [Next]_vars
               PROVE  TypeInv' /\ (Unrepeated' => IInv' /\ OutcomeInv')
    OBVIOUS
  <2>1. TypeInv'
    BY TypeStep
  <2>2. ASSUME Unrepeated' PROVE IInv' /\ OutcomeInv'
    <3>1. IInv /\ OutcomeInv
      BY <2>2, NoRepeat
    <3>2. IInv'
      BY <2>1, <2>2, <3>1, InvStep
    <3>3. KeptOK' /\ RunOK' /\ OutcomeOK' /\ CleanOK'
      BY <3>1, KeptStep, RunStep, OutcomeStep, CleanStep DEF OutcomeInv
    <3>4. ASSUME NEW w \in Worker PROVE OrderOK(w)'
      BY <2>2, <3>1, OrderStep
    <3> QED
      BY <3>2, <3>3, <3>4 DEF OutcomeInv
  <2> QED
    BY <2>1, <2>2
<1> QED
  BY <1>1, <1>2, PTL DEF Spec

(* Until a report is repeated, on every graph, whatever calls fail and      *)
(* wherever the server stops, a node's Ready event is put only after all it *)
(* depends on succeeded.                                                    *)
THEOREM StartsInOrder == MaxDeletes = 0 => (Spec => []NoPrematureStart)
<1>1. (Unrepeated => IInv /\ OutcomeInv) => NoPrematureStart
  BY Reported DEF IInv, OutcomeInv, StartOK, DecrementedOK, NoPrematureStart, Undone, Preds
<1> QED
  BY <1>1, FullInvariance, PTL

(* Until a report is repeated, the pipeline is stored as succeeded only     *)
(* when every node has, though the check of the rows and the store of its   *)
(* verdict are two calls.                                                   *)
THEOREM SuccessIsTrue == MaxDeletes = 0 => (Spec => []SuccessMeansAllSucceeded)
<1>1. TypeInv /\ (Unrepeated => IInv /\ OutcomeInv) => SuccessMeansAllSucceeded
  BY DEF OutcomeInv, OutcomeOK, AllCompleted, PipelineVerdict, Terminal, Succeeded,
      SuccessMeansAllSucceeded
<1> QED
  BY <1>1, FullInvariance, PTL

(* Without failed calls or repeated reports a successful execution ends     *)
(* with no key in etcd.                                                     *)
THEOREM EndsClean == MaxDeletes = 0 => (Spec => []CleanAfterSuccess)
<1>1. (Unrepeated => IInv /\ OutcomeInv) => CleanAfterSuccess
  <2> SUFFICES ASSUME OutcomeInv, faults = 0, crashes = 0, Quiescent, pipe = "Success",
                      NEW n \in Node
               PROVE  etcd[n] = None
    BY DEF CleanAfterSuccess
  <2>1. \A m \in Node : Succeeded(m)
    BY DEF OutcomeInv, OutcomeOK, AllCompleted, PipelineVerdict, Terminal, Succeeded
  <2>2. \A w \in Worker : ~WillClean(w, n)
    BY DEF Quiescent, WillClean
  <2> QED
    BY <2>1, <2>2 DEF OutcomeInv, CleanOK
<1> QED
  BY <1>1, FullInvariance, PTL

(* Until a report is repeated no write, and no stale copy of a row, takes a *)
(* node out of a terminal phase.                                            *)
THEOREM EndsStay == Spec => TerminalPhaseStays
<1>1. TypeInv /\ (Unrepeated => IInv) /\ [Next]_vars
        => [Unrepeated' => \A n \in Node : row[n].phase \in Terminal
                                             => row'[n].phase = row[n].phase]_vars
  BY PhaseStep, NoRepeat
<1> QED
  BY <1>1, Invariance, PTL DEF Spec, TerminalPhaseStays

(* The step behind the next theorem.                                        *)
LEMMA OutcomeKept ==
    ASSUME TypeInv, IInv, OutcomeInv, [Next]_vars, pipe \in {"Success", "Failed"}
    PROVE  pipe' = pipe
<1>1. CASE Run
  BY <1>1 DEF OutcomeInv, RunOK, Run, RunPut, RunPutFails, RunWithoutNodes, RunCommit, RunCommitFails
<1>2. ASSUME NEW w \in Worker, UpdateStatus(w) PROVE pipe' = pipe
  BY <1>2 DEF OutcomeInv, OutcomeOK, UpdateStatus, Goto
<1> QED
  BY <1>1, <1>2, GiveUpStep DEF Next, Operator, Begin, Finish, Resend, Send, Update, UpdateRead, UpdateWrite,
      UpdatePut, Completion, LoadDependencies, ReadDownstream, Decrement, Trigger, Commit,
      CheckCompletion, Cleanup, CleanupEnd, Delete, Crash, Stopped, vars, dbVars

(* Until a report is repeated the stored outcome never changes: two         *)
(* completions may both store theirs, and they agree.                       *)
THEOREM OutcomeStays == MaxDeletes = 0 => (Spec => VerdictStays)
<1> SUFFICES ASSUME MaxDeletes = 0 PROVE Spec => VerdictStays
  OBVIOUS
<1>1. TypeInv /\ (Unrepeated => IInv /\ OutcomeInv) /\ [Next]_vars
        => [Unrepeated' /\ pipe \in {"Success", "Failed"} => pipe' = pipe]_vars
  BY OutcomeKept, NoRepeat
<1> QED
  BY <1>1, FullInvariance, PTL DEF Spec, VerdictStays

----------------------------------------------------------------------------
(* What gets done, when no row is deleted.                                  *)

(* A node that waits for at most one other. *)
Single(d) == \A a, b \in Preds(d) : a = b

(* The in-degree of such a node is never lowered in the database, and every *)
(* completion that reads it is the one that brings it to 0.                 *)
SingleOK ==
    /\ \A d \in Node : Single(d) /\ Preds(d) # {} => row[d].inDegree = 1
    /\ \A w \in Worker : Downstream(w) /\ Single(down[w]) => read[w].inDegree = 1

(* No call failed and the server never stopped. *)
AllWell == faults = 0 /\ crashes = 0

(* A completion that has looked up what follows its node still has to visit *)
(* it, is about to start it, or has started it.                             *)
HandledOK ==
    AllWell => \A w \in Worker :
        report[w] = "Succeeded" /\ pc[w] \in (CompletionPcs \ {"load"}) \cup {"done"}
          => \A d \in Succs(NodeOf[w]) : Single(d) =>
                \/ d \in todo[w] /\ (pc[w] = "next" \/ Downstream(w))
                \/ down[w] = d /\ pc[w] \in {"decrement", "trigger"}
                \/ readyPuts[d] > 0

(* The last report of an operator is terminal. *)
EndOK == \A w \in Worker : pc[w] = "done" => report[w] \in Terminal

(* Without failures Run starts its roots and then stores its rows. *)
StartedOK ==
    AllWell => /\ runPc # "failed"
               /\ runPc # "put" => \A n \in Roots : readyPuts[n] > 0

(* Once every node succeeded, somebody is going to store it. *)
WillConclude(w) == pc[w] \in {"put", "load", "next", "decrement", "trigger", "commit", "status"}
ConcludeOK ==
    AllWell /\ Node # {} /\ (\A n \in Node : Succeeded(n)) /\ pipe # "Success"
      => \E w \in Worker : WillConclude(w)

ProgressInv == SingleOK /\ HandledOK /\ EndOK /\ StartedOK /\ ConcludeOK

(* A step after which no call has failed and the server has not stopped is  *)
(* neither, and starts in such a state.                                     *)
LEMMA CalmStep == ASSUME TypeInv, [Next]_vars, AllWell' PROVE AllWell /\ ~Fault /\ ~Crash
<1>1. faults \in Nat /\ crashes \in Nat
  BY BoundAssumption DEF TypeInv, TypeOK
<1>2. (Fault \/ NoFault \/ Crash \/ (\E k \in Node : Delete(k)) \/ UNCHANGED vars)
  BY GiveUpStep DEF Next, Run, RunPut, RunPutFails, RunWithoutNodes, RunCommit, RunCommitFails,
      Operator, Begin, Finish, Resend, Send, Update, UpdateRead, UpdateWrite, UpdatePut,
      Completion, LoadDependencies, ReadDownstream, Decrement, Trigger, Commit,
      CheckCompletion, UpdateStatus, Cleanup, CleanupEnd, Stopped
<1> QED
  BY <1>1, <1>2 DEF AllWell, Fault, NoFault, Crash, Delete, budget, vars

(* Nothing has been done initially.                                         *)
LEMMA ProgressInit == Init => ProgressInv
<1> SUFFICES ASSUME Init PROVE ProgressInv
  OBVIOUS
<1>1. ASSUME NEW d \in Node, Single(d), Preds(d) # {} PROVE row[d].inDegree = 1
  <2>1. PICK m \in Preds(d) : Preds(d) = {m}
    BY <1>1 DEF Single
  <2>2. row[d].inDegree = Cardinality({m})
    BY <1>1, <2>1, InDegreeAssumption DEF Init, NewNodeExec
  <2> QED
    BY <2>2, FS_Singleton
<1>2. \A w \in Worker : pc[w] = "idle"
  BY DEF Init
<1>3. \A n \in Node : row[n].phase = "Ready"
  BY DEF Init, NewNodeExec
<1>4. StartedOK
  BY DEF Init, StartedOK
<1> QED
  BY <1>1, <1>2, <1>3, <1>4 DEF ProgressInv, SingleOK, HandledOK, EndOK, ConcludeOK, Downstream,
      InTransaction, CompletionPcs, Succeeded

(* The in-degree of a node that waits for one other stays 1.                *)
LEMMA SingleStep == ASSUME TypeInv, SingleOK, [Next]_vars PROVE SingleOK'
<1>0. row \in [Node -> Row] /\ read \in [Worker -> Row] /\ down \in [Worker -> Node \cup {None}] /\ pc \in [Worker -> Pcs]
  BY DEF TypeInv, TypeOK
<1>1. ASSUME NEW d \in Node, Single(d), Preds(d) # {} PROVE row'[d].inDegree = 1
  <2>1. row[d].inDegree = 1
    BY <1>1 DEF SingleOK
  <2>2. ASSUME NEW w \in Worker, UpdateWrite(w) PROVE row'[d].inDegree = 1
    <3>1. row' = row \/ row' = [row EXCEPT ![NodeOf[w]].phase = report[w]]
      BY <2>2 DEF UpdateWrite
    <3> QED
      BY <1>0, <2>1, <3>1 DEF Row
  <2>3. ASSUME NEW w \in Worker, Commit(w) PROVE row'[d].inDegree = 1
    <3>1. Downstream(w) /\ (row' = row \/ row' = [row EXCEPT ![down[w]] = Written(w)])
      BY <2>3 DEF Commit, Downstream, InTransaction
    <3>2. down[w] = d => Written(w).inDegree = 1
      BY <1>1, <2>1, <3>1 DEF SingleOK, Written, NewInDegree
    <3> QED
      BY <1>0, <2>1, <3>1, <3>2
  <2>4. CASE row' = row
    BY <2>1, <2>4
  <2> QED
    BY <2>2, <2>3, <2>4, GiveUpStep DEF Next, Run, RunPut, RunPutFails, RunWithoutNodes, RunCommit, RunCommitFails,
        Operator, Begin, Finish, Resend, Send, Update, UpdateRead, UpdatePut, Completion,
        LoadDependencies, ReadDownstream, Decrement, Trigger, CheckCompletion, UpdateStatus, Cleanup,
        CleanupEnd, Delete, Crash, Stopped, vars, dbVars
<1>2. ASSUME NEW v \in Worker, Downstream(v)', Single(down'[v]) PROVE read'[v].inDegree = 1
  <2>1. CASE Frame(v)
    BY <1>2, <2>1 DEF Frame, SingleOK, Downstream, InTransaction
  <2>2. CASE Operator(v) \/ Update(v)
    BY <1>0, <1>2, <2>2 DEF Operator, Begin, Finish, Resend, Update, UpdateRead, UpdateWrite, UpdatePut,
        AfterUpdate, Goto, Downstream, InTransaction
  <2>3. CASE ReadDownstream(v)
    <3>1. PICK d \in todo[v] : ReadDownstream(v)!(d)
      BY <2>3 DEF ReadDownstream
    <3>2. d \in Succs(NodeOf[v]) /\ pc[v] = "next"
      BY <3>1 DEF TypeInv, VisitOK
    <3>3. d \in Node /\ Preds(d) # {}
      BY <3>2, WorkerAssumption DEF Succs, Preds
    <3>4. down'[v] = d /\ read'[v] = row[d]
      BY <1>0, <1>2, <3>1, <3>2 DEF Downstream, InTransaction
    <3> QED
      BY <1>2, <3>3, <3>4 DEF SingleOK
  <2>4. CASE Decrement(v) \/ Trigger(v) \/ Commit(v)
    <3>1. Downstream(v) /\ read' = read /\ down'[v] = down[v]
      BY <1>0, <1>2, <2>4 DEF Decrement, Trigger, Commit, EndTransaction, Downstream, InTransaction
    <3> QED
      BY <1>2, <3>1 DEF SingleOK
  <2>5. CASE LoadDependencies(v) \/ CheckCompletion(v) \/ UpdateStatus(v) \/ Cleanup(v) \/ CleanupEnd(v)
    BY <1>0, <1>2, <2>5 DEF LoadDependencies, CheckCompletion, UpdateStatus, Cleanup, CleanupEnd, Goto,
        Downstream, InTransaction
  <2>6. CASE Crash
    BY <1>2, <2>6 DEF Crash, Downstream, InTransaction, CompletionPcs
  <2>7. ASSUME NEW w \in Worker, w # v, Operator(w) \/ Update(w) \/ Completion(w) PROVE Frame(v)
    BY <2>7, OthersStay
  <2>8. CASE Run \/ (\E n \in Node : Delete(n)) \/ UNCHANGED vars
    BY <2>1, <2>8, WorkersStay
  <2>9. CASE LostAnswer
    BY <1>2, <2>1, <2>9, GiveUpStep DEF Downstream, InTransaction
  <2> QED
    BY <2>1, <2>2, <2>3, <2>4, <2>5, <2>6, <2>7, <2>8, <2>9, StepCases DEF Completion
<1> QED
  BY <1>1, <1>2 DEF SingleOK, Single, Preds

(* A worker that is done reported an end.                                   *)
LEMMA EndStep == ASSUME TypeInv, IInv, EndOK, [Next]_vars PROVE EndOK'
<1>0. pc \in [Worker -> Pcs] /\ report \in [Worker -> Phase]
  BY DEF TypeInv, TypeOK
<1>1. ASSUME NEW v \in Worker, pc'[v] = "done" PROVE report'[v] \in Terminal
  <2>1. CASE Frame(v)
    BY <1>1, <2>1 DEF Frame, EndOK
  <2>2. CASE Operator(v)
    BY <1>0, <1>1, <2>2 DEF Operator, Begin, Finish, Resend, Goto
  <2>3. CASE Update(v)
    BY <1>0, <1>1, <2>3 DEF Update, UpdateRead, UpdateWrite, UpdatePut, AfterUpdate, Goto, localVars, Terminal
  <2>4. CASE Completion(v)
    <3>1. pc[v] \in CompletionPcs /\ report' = report
      BY <1>0, <2>4 DEF Completion, LoadDependencies, ReadDownstream, Decrement, Trigger, Commit,
          EndTransaction, CheckCompletion, UpdateStatus, Cleanup, CleanupEnd, Goto, localVars, CompletionPcs
    <3> QED
      BY <3>1 DEF IInv, WorkerOK, EdgeOK, Terminal
  <2>5. CASE Crash
    <3>1. pc[v] \in CompletionPcs => report[v] \in Terminal
      BY DEF IInv, WorkerOK, EdgeOK, Terminal
    <3> QED
      BY <1>1, <2>5, <3>1 DEF Crash, EndOK
  <2>6. ASSUME NEW w \in Worker, w # v, Operator(w) \/ Update(w) \/ Completion(w) PROVE Frame(v)
    BY <2>6, OthersStay
  <2>7. CASE Run \/ (\E n \in Node : Delete(n)) \/ UNCHANGED vars
    BY <2>1, <2>7, WorkersStay
  <2>8. CASE LostAnswer
    BY <1>1, <2>1, <2>8, GiveUpStep
  <2> QED
    BY <2>1, <2>2, <2>3, <2>4, <2>5, <2>6, <2>7, <2>8, StepCases
<1> QED
  BY <1>1 DEF EndOK

(* Run starts the roots before it ends well.                                *)
LEMMA StartedStep == ASSUME TypeInv, StartedOK, [Next]_vars PROVE StartedOK'
<1> SUFFICES ASSUME AllWell' PROVE runPc' # "failed" /\ (runPc' # "put" => \A n \in Roots : readyPuts'[n] > 0)
  BY DEF StartedOK, Roots
<1>1. AllWell /\ ~Fault /\ ~Crash /\ Roots \subseteq Node
  BY CalmStep DEF Roots
<1>2. CASE RunPut
  BY <1>1, <1>2 DEF RunPut, PutReady, TypeInv, TypeOK
<1>3. CASE RunCommit
  BY <1>1, <1>3, PutsStay DEF RunCommit, history, StartedOK
<1>4. CASE runPc' = runPc
  BY <1>1, <1>4, PutsStay DEF StartedOK
<1> QED
  BY <1>1, <1>2, <1>3, <1>4, GiveUpStep DEF Next, Run, RunPutFails, RunWithoutNodes, RunCommitFails,
      Operator, Begin, Finish, Resend, Send, Update, UpdateRead, UpdateWrite, UpdatePut,
      Completion, LoadDependencies, ReadDownstream, Decrement, Trigger, Commit,
      CheckCompletion, UpdateStatus, Cleanup, CleanupEnd, Delete, Stopped, vars

(* A completion either has the visit of a node still ahead or has put its   *)
(* Ready event.                                                             *)
Attended(w, d) ==
    \/ d \in todo[w] /\ (pc[w] = "next" \/ Downstream(w))
    \/ down[w] = d /\ pc[w] \in {"decrement", "trigger"}
    \/ readyPuts[d] > 0

(* It keeps that for each node which waits for one other.                   *)
LEMMA CompletionAttends ==
    ASSUME TypeInv, IInv, KeptOK, SingleOK, NEW v \in Worker, Completion(v), ~Fault, [Next]_vars,
           NEW d \in Succs(NodeOf[v]), Single(d), pc[v] # "load" => Attended(v, d)
    PROVE  Attended(v, d)'
<1>0. /\ pc \in [Worker -> Pcs] /\ todo \in [Worker -> SUBSET Node]
      /\ down \in [Worker -> Node \cup {None}] /\ d \in Node
  BY SuccsInNode, WorkerAssumption DEF TypeInv, TypeOK
<1>1. CASE readyPuts[d] > 0
  BY <1>0, <1>1, PutsStay DEF Attended
<1>2. CASE LoadDependencies(v)
  BY <1>0, <1>2 DEF LoadDependencies, Goto, Attended
<1>3. CASE ReadDownstream(v)
  <2>1. PICK e \in todo[v] : ReadDownstream(v)!(e)
    BY <1>3 DEF ReadDownstream
  <2>2. e \in present
    BY <1>0, <2>1, RowsFound DEF CompletionPcs
  <2>3. /\ todo' = [todo EXCEPT ![v] = @ \ {e}] /\ pc' = [pc EXCEPT ![v] = "decrement"]
        /\ down' = [down EXCEPT ![v] = e] /\ pc[v] = "next"
    BY <2>1, <2>2
  <2> QED
    BY <1>0, <1>1, <2>3 DEF Attended, Downstream, InTransaction
<1>4. CASE Decrement(v)
  <2>1. /\ pc[v] = "decrement" /\ todo' = todo /\ down' = down
        /\ pc' = [pc EXCEPT ![v] = IF NewInDegree(v) = 0 THEN "trigger" ELSE "commit"]
    BY <1>4 DEF Decrement
  <2>2. down[v] = d => NewInDegree(v) = 0
    BY <2>1 DEF SingleOK, Downstream, NewInDegree
  <2> QED
    BY <1>0, <1>1, <2>1, <2>2 DEF Attended, Downstream, InTransaction
<1>5. CASE Trigger(v)
  <2>1. pc[v] = "trigger" /\ todo' = todo /\ PutReady({down[v]}) /\ pc' = [pc EXCEPT ![v] = "commit"]
    BY <1>5 DEF Trigger
  <2>2. down[v] = d => readyPuts'[d] > 0
    BY <1>0, <2>1 DEF PutReady, TypeInv, TypeOK
  <2> QED
    BY <1>0, <1>1, <2>1, <2>2 DEF Attended, Downstream, InTransaction
<1>6. CASE Commit(v)
  <2>1. pc[v] = "commit" /\ todo' = todo /\ pc' = [pc EXCEPT ![v] = "next"]
    BY <1>6 DEF Commit, EndTransaction
  <2> QED
    BY <1>0, <1>1, <2>1 DEF Attended, Downstream, InTransaction
<1>7. CASE CheckCompletion(v) \/ UpdateStatus(v) \/ Cleanup(v) \/ CleanupEnd(v)
  <2>1. pc[v] \in {"next", "status", "cleanup"} /\ (pc[v] = "next" => todo[v] = {})
    BY <1>7 DEF CheckCompletion, UpdateStatus, Cleanup, CleanupEnd, Goto
  <2> QED
    BY <1>1, <2>1 DEF Attended, Downstream, InTransaction
<1> QED
  BY <1>2, <1>3, <1>4, <1>5, <1>6, <1>7 DEF Completion

(* So does every step.                                                      *)
LEMMA HandledStep ==
    ASSUME TypeInv, IInv, KeptOK, SingleOK, HandledOK, [Next]_vars PROVE HandledOK'
<1> DEFINE Later == (CompletionPcs \ {"load"}) \cup {"done"}
<1> SUFFICES ASSUME AllWell', NEW v \in Worker, report'[v] = "Succeeded", pc'[v] \in Later,
                    NEW d \in Succs(NodeOf[v]), Single(d)
             PROVE  Attended(v, d)'
  BY DEF HandledOK, Attended, Single, Preds, Succs
<1>0. AllWell /\ ~Fault /\ ~Crash /\ pc \in [Worker -> Pcs] /\ d \in Node
  BY CalmStep, SuccsInNode, WorkerAssumption DEF TypeInv, TypeOK
<1>1. report[v] = "Succeeded" /\ pc[v] \in Later => Attended(v, d)
  BY <1>0 DEF HandledOK, Attended
<1>2. CASE Frame(v)
  BY <1>0, <1>1, <1>2, PutsStay DEF Frame, Attended, Downstream, InTransaction
<1>3. CASE Operator(v) \/ Update(v)
  BY <1>0, <1>3 DEF Operator, Begin, Finish, Resend, Update, UpdateRead, UpdateWrite, UpdatePut,
      AfterUpdate, Goto, localVars, CompletionPcs
<1>4. CASE Completion(v)
  <2>1. pc[v] \in CompletionPcs
    BY <1>4 DEF Completion, LoadDependencies, ReadDownstream, Decrement, Trigger, Commit,
        CheckCompletion, UpdateStatus, Cleanup, CleanupEnd, Goto, CompletionPcs
  <2>2. report[v] = "Succeeded"
    BY <2>1 DEF IInv, WorkerOK, EdgeOK
  <2> QED
    BY <1>0, <1>1, <1>4, <2>1, <2>2, CompletionAttends
<1>5. ASSUME NEW w \in Worker, w # v, Operator(w) \/ Update(w) \/ Completion(w) PROVE Frame(v)
  BY <1>5, OthersStay
<1>6. CASE Run \/ (\E n \in Node : Delete(n)) \/ UNCHANGED vars
  BY <1>2, <1>6, WorkersStay
<1>7. CASE LostAnswer
  BY <1>2, <1>7, GiveUpStep DEF CompletionPcs
<1> QED
  BY <1>0, <1>2, <1>3, <1>4, <1>5, <1>6, <1>7, StepCases

(* Who is going to store the success does so, or is still going to.         *)
LEMMA ConcluderStep ==
    ASSUME TypeInv, IInv, OutcomeInv, \A n \in Node : Succeeded(n), NEW w \in Worker,
           Update(w) \/ Completion(w), ~Fault, WillConclude(w)
    PROVE  WillConclude(w)' \/ pipe' = "Success"
<1>1. pc \in [Worker -> Pcs] /\ present \subseteq Node
  BY DEF TypeInv, TypeOK
<1>2. CASE Update(w)
  <2>1. pc[w] = "put" /\ UpdatePut(w)
    BY <1>2 DEF WillConclude, Update, UpdateRead, UpdateWrite, UpdatePut, Goto
  <2>2. report[w] = "Succeeded"
    BY <2>1, Reported, WorkerAssumption DEF OutcomeInv, Succeeded
  <2> QED
    BY <1>1, <2>1, <2>2 DEF UpdatePut, Goto, AfterUpdate, WillConclude
<1>3. CASE LoadDependencies(w) \/ ReadDownstream(w) \/ Decrement(w) \/ Trigger(w) \/ Commit(w)
  BY <1>1, <1>3 DEF LoadDependencies, ReadDownstream, Decrement, Trigger, Commit, EndTransaction,
      Goto, WillConclude
<1>4. CASE CheckCompletion(w)
  <2>1. AllCompleted
    BY <1>1 DEF AllCompleted, Succeeded, Terminal
  <2> QED
    BY <1>1, <1>4, <2>1 DEF CheckCompletion, Goto, WillConclude
<1>5. CASE UpdateStatus(w)
  <2>1. pc[w] = "status" /\ pipe' = verdict[w]
    BY <1>5 DEF UpdateStatus, Goto
  <2>2. verdict[w] = PipelineVerdict
    BY <2>1 DEF OutcomeInv, OutcomeOK
  <2>3. PipelineVerdict = "Success"
    BY <1>1 DEF PipelineVerdict, Succeeded
  <2> QED
    BY <2>1, <2>2, <2>3
<1>6. CASE Cleanup(w) \/ CleanupEnd(w)
  BY <1>6 DEF Cleanup, CleanupEnd, Goto, WillConclude
<1> QED
  BY <1>2, <1>3, <1>4, <1>5, <1>6 DEF Completion

(* Each step leaves somebody who is going to store a success that is due.   *)
LEMMA ConcludeStep ==
    ASSUME TypeInv, IInv, OutcomeInv, ConcludeOK, [Next]_vars PROVE ConcludeOK'
<1> SUFFICES ASSUME AllWell', Node # {}, (\A n \in Node : Succeeded(n))', pipe' # "Success"
             PROVE  \E w \in Worker : WillConclude(w)'
  BY DEF ConcludeOK
<1>0. AllWell /\ ~Fault /\ ~Crash /\ pipe # "Success"
  BY CalmStep, OutcomeKept
<1>1. CASE \E m \in Node : ~Succeeded(m)
  <2>1. PICK m \in Node : row'[m].phase # row[m].phase
    BY <1>1 DEF Succeeded
  <2>2. PICK w \in Worker : UpdateWrite(w) /\ row' # row
    BY <2>1, PhaseStep
  <2>3. pc'[w] = "put"
    BY <1>0, <2>2 DEF UpdateWrite, Goto, TypeInv, TypeOK
  <2> QED
    BY <2>3 DEF WillConclude
<1>2. CASE \A m \in Node : Succeeded(m)
  <2>1. PICK w \in Worker : WillConclude(w)
    BY <1>0, <1>2 DEF ConcludeOK
  <2>2. CASE Update(w) \/ Completion(w)
    BY <1>0, <1>2, <2>1, <2>2, ConcluderStep
  <2>3. CASE Frame(w)
    BY <2>1, <2>3 DEF Frame, WillConclude
  <2>4. ~Operator(w)
    BY <2>1 DEF Operator, Begin, Finish, Resend, Goto, WillConclude
  <2>5. ASSUME NEW v \in Worker, v # w, Operator(v) \/ Update(v) \/ Completion(v) PROVE Frame(w)
    BY <2>5, OthersStay
  <2>6. CASE Run \/ (\E n \in Node : Delete(n)) \/ UNCHANGED vars
    BY <2>3, <2>6, WorkersStay
  <2>7. CASE LostAnswer
    BY <2>1, <2>3, <2>7, GiveUpStep DEF WillConclude
  <2> QED
    BY <1>0, <2>2, <2>3, <2>4, <2>5, <2>6, <2>7, StepCases
<1> QED
  BY <1>1, <1>2

(* All the invariants hold until a report is repeated.                      *)
LEMMA ProgressInvariance ==
    MaxDeletes = 0 => (Spec => [](TypeInv /\ (Unrepeated => IInv /\ OutcomeInv /\ ProgressInv)))
<1> SUFFICES ASSUME MaxDeletes = 0
             PROVE  Spec => [](TypeInv /\ (Unrepeated => IInv /\ OutcomeInv /\ ProgressInv))
  OBVIOUS
<1>1. TypeInv /\ (Unrepeated => IInv /\ OutcomeInv) /\ (Unrepeated => ProgressInv) /\ [Next]_vars
        => (Unrepeated => ProgressInv)'
  <2> SUFFICES ASSUME TypeInv, Unrepeated => IInv /\ OutcomeInv, Unrepeated => ProgressInv,
                      [Next]_vars, Unrepeated'
               PROVE  ProgressInv'
    OBVIOUS
  <2>1. IInv /\ OutcomeInv /\ ProgressInv
    BY NoRepeat
  <2> QED
    BY <2>1, SingleStep, HandledStep, EndStep, StartedStep, ConcludeStep DEF ProgressInv, OutcomeInv
<1> QED
  BY <1>1, ProgressInit, FullInvariance, PTL DEF Spec

----------------------------------------------------------------------------
(* What is started, and what is concluded, once nothing more can happen.    *)

(* On any graph a node that waits for one other is started once that one    *)
(* succeeded: what may be lost are updates of the in-degree of a join.      *)
LEMMA SingleStarts ==
    ASSUME TypeInv, IInv, OutcomeInv, ProgressInv, AllWell, Quiescent,
           NEW n \in Node, Single(n), Preds(n) # {}, \A m \in Preds(n) : Succeeded(m)
    PROVE  readyPuts[n] > 0
<1>1. PICK m \in Preds(n) : Succeeded(m)
  OBVIOUS
<1>2. m \in Node /\ n \in Succs(m)
  BY DEF Preds, Succs
<1>3. PICK w \in Worker : NodeOf[w] = m /\ pc[w] # "idle"
  BY <1>1, <1>2 DEF Succeeded, IInv, TakenOK, TakenUp
<1>4. pc[w] = "done"
  BY <1>3 DEF Quiescent
<1>5. report[w] = "Succeeded"
  <2>1. m \in present
    BY <1>2, <1>4 DEF OutcomeInv, KeptOK
  <2> QED
    BY <1>1, <1>3, <1>4, <2>1 DEF IInv, WorkerOK, ReportOK, Succeeded
<1> QED
  BY <1>2, <1>3, <1>4, <1>5 DEF ProgressInv, HandledOK, Downstream, InTransaction

(* Every node waits for at most one other. *)
NoJoins == \A n \in Node : Single(n)

(* Unless a call fails, the server stops or a report is repeated, no node   *)
(* of a graph without joins is left behind; on a join of two the run that   *)
(* expects a violation shows one that is.                                   *)
THEOREM TreesStart ==
    MaxDeletes = 0 /\ NoJoins => (Spec => [](Unrepeated => JoinStarts))
<1> SUFFICES ASSUME MaxDeletes = 0, NoJoins PROVE Spec => [](Unrepeated => JoinStarts)
  OBVIOUS
<1>1. TypeInv /\ (Unrepeated => IInv /\ OutcomeInv /\ ProgressInv) => (Unrepeated => JoinStarts)
  BY SingleStarts DEF JoinStarts, AllWell, NoJoins
<1> QED
  BY <1>1, ProgressInvariance, PTL

(* On any graph, once every node succeeded and nothing more can happen, the *)
(* success is stored: of the completions that end together the last to look *)
(* sees all rows final.                                                     *)
SuccessIsStored ==
    faults = 0 /\ crashes = 0 /\ Quiescent /\ (\A n \in Node : Succeeded(n)) => pipe = "Success"

THEOREM SuccessStored ==
    MaxDeletes = 0 /\ Node # {} => (Spec => [](Unrepeated => SuccessIsStored))
<1> SUFFICES ASSUME MaxDeletes = 0, Node # {} PROVE Spec => [](Unrepeated => SuccessIsStored)
  OBVIOUS
<1>1. TypeInv /\ (Unrepeated => IInv /\ OutcomeInv /\ ProgressInv) => (Unrepeated => SuccessIsStored)
  BY DEF ProgressInv, ConcludeOK, AllWell, Quiescent, WillConclude, SuccessIsStored
<1> QED
  BY <1>1, ProgressInvariance, PTL

(* Every node's event reaches an operator. *)
Delivered == \A n \in Node : \E w \in Worker : NodeOf[w] = n

(* Every set of nodes has one that waits for none of the others. *)
Acyclic == \A S \in SUBSET Node : S # {} => \E n \in S : Preds(n) \cap S = {}

(* No node that is on no edge was sent with an in-degree. *)
IsolatedStart == \A n \in Node : Preds(n) \cup Succs(n) = {} => InDegree[n] = 0

(* The pipeline completed: it is stored as succeeded and its keys are gone. *)
StopsDone ==
    faults = 0 /\ crashes = 0 /\ Quiescent /\ (\A n \in Node : row[n].phase # "Failed")
      => pipe = "Success" /\ \A n \in Node : etcd[n] = None

(* A pipeline without joins never gets stuck: unless a call fails, the      *)
(* server stops, a report is repeated or a node fails, it stops only when   *)
(* it has completed.                                                        *)
THEOREM TreesComplete ==
    MaxDeletes = 0 /\ NoJoins /\ Acyclic /\ IsolatedStart /\ Delivered /\ Node # {}
      => (Spec => [](Unrepeated => StopsDone))
<1> SUFFICES ASSUME MaxDeletes = 0, NoJoins, Acyclic, IsolatedStart, Delivered, Node # {}
             PROVE  Spec => [](Unrepeated => StopsDone)
  OBVIOUS
<1>1. TypeInv /\ (Unrepeated => IInv /\ OutcomeInv /\ ProgressInv) => (Unrepeated => StopsDone)
  <2> SUFFICES ASSUME TypeInv, IInv, OutcomeInv, ProgressInv, AllWell, Quiescent,
                      \A n \in Node : row[n].phase # "Failed"
               PROVE  pipe = "Success" /\ \A n \in Node : etcd[n] = None
    BY DEF StopsDone, AllWell
  <2>1. ASSUME NEW n \in Node, \A m \in Preds(n) : Succeeded(m) PROVE readyPuts[n] > 0
    <3>1. CASE Preds(n) # {}
      BY <2>1, <3>1, SingleStarts DEF NoJoins
    <3>2. CASE Preds(n) = {}
      <4>1. InDegree[n] = 0
        BY <3>2, InDegreeAssumption, FS_EmptySet DEF IsolatedStart
      <4>2. n \in Roots /\ runPc # "put"
        BY <4>1 DEF Roots, Quiescent
      <4> QED
        BY <4>2 DEF ProgressInv, StartedOK
    <3> QED
      BY <3>1, <3>2
  <2>2. ASSUME NEW n \in Node, readyPuts[n] > 0 PROVE Succeeded(n)
    <3>1. PICK w \in Worker : NodeOf[w] = n /\ pc[w] # "idle"
      BY <2>2 DEF Delivered, Quiescent, TakenUp
    <3>2. pc[w] = "done"
      BY <3>1 DEF Quiescent
    <3>3. report[w] \in Terminal /\ n \in present
      BY <3>2 DEF ProgressInv, EndOK, OutcomeInv, KeptOK
    <3>4. row[n].phase = report[w]
      BY <3>1, <3>2, <3>3 DEF IInv, WorkerOK, ReportOK
    <3> QED
      BY <3>3, <3>4 DEF Terminal, Succeeded
  <2>3. \A n \in Node : Succeeded(n)
    <3> DEFINE S == {n \in Node : ~Succeeded(n)}
    <3>1. ASSUME S # {} PROVE FALSE
      <4>1. PICK n \in S : Preds(n) \cap S = {}
        BY <3>1 DEF Acyclic
      <4>2. \A m \in Preds(n) : Succeeded(m)
        BY <4>1 DEF Preds
      <4> QED
        BY <4>1, <4>2, <2>1, <2>2
    <3> QED
      BY <3>1
  <2>4. pipe = "Success"
    BY <2>3 DEF ProgressInv, ConcludeOK, Quiescent, WillConclude
  <2>5. ASSUME NEW n \in Node PROVE etcd[n] = None
    BY <2>3 DEF OutcomeInv, CleanOK, AllWell, Quiescent, WillClean
  <2> QED
    BY <2>4, <2>5
<1> QED
  BY <1>1, ProgressInvariance, PTL

----------------------------------------------------------------------------
(* The refinement.                                                          *)

DagState == [n \in Node |-> AbstractState(n)]

(* Initially every node waits and the outcome is open. *)
LEMMA DagInit == Init => Dag!Init
<1> SUFFICES ASSUME Init PROVE Dag!Init
  OBVIOUS
<1>1. ASSUME NEW n \in Node PROVE AbstractState(n) = "waiting"
  BY DEF Init, AbstractState, NewNodeExec
<1>2. AbstractOutcome = "open"
  BY DEF Init, AbstractOutcome
<1>3. Unrepeated
  BY DEF Init, Unrepeated
<1> QED
  BY <1>1, <1>2, <1>3 DEF Dag!Init

(* A node whose row has left Ready was started. *)
LEMMA StateOfStarted ==
    ASSUME TypeInv, IInv, NEW n \in Node
    PROVE  /\ row[n].phase = "Running" => AbstractState(n) = "running"
           /\ row[n].phase = "Succeeded" => AbstractState(n) = "succeeded"
           /\ row[n].phase = "Failed" => AbstractState(n) = "failed"
           /\ row[n].phase = "Ready" => AbstractState(n) \in {"waiting", "ready"}
           /\ readyPuts[n] = 0 => AbstractState(n) = "waiting"
<1>1. row[n].phase # "Ready" => readyPuts[n] # 0
  BY DEF IInv, StartOK, TypeInv, TypeOK
<1> QED
  BY <1>1 DEF AbstractState

(* Putting the Ready keys of nodes that may start is a step of DagExecution.*)
LEMMA PutStarts ==
    ASSUME TypeInv, IInv, Unrepeated, Unrepeated', NEW S \in SUBSET Node, PutReady(S), row' = row, pipe' = pipe,
           \A n \in S : readyPuts[n] = 0 /\ \A m \in Preds(n) : Succeeded(m)
    PROVE  [Dag!Next]_(Dag!vars)
<1>1. \A n \in Node \ S : AbstractState(n)' = AbstractState(n)
  BY DEF PutReady, AbstractState
<1>2. ASSUME NEW n \in S PROVE AbstractState(n) = "waiting" /\ AbstractState(n)' = "ready"
  <2>1. row[n].phase = "Ready" /\ readyPuts'[n] = 1
    BY DEF PutReady, IInv, StartOK, TypeInv, TypeOK
  <2> QED
    BY <2>1 DEF AbstractState
<1>3. \A n \in S : \A m \in Preds(n) : AbstractState(m) = "succeeded"
  BY StateOfStarted DEF Preds, Succeeded
<1>4. DagState' = [n \in Node |-> IF n \in S THEN "ready" ELSE DagState[n]]
  BY <1>1, <1>2 DEF DagState
<1>5. AbstractOutcome' = AbstractOutcome
  BY DEF AbstractOutcome
<1>6. CASE S = {}
  BY <1>1, <1>5, <1>6 DEF Dag!vars
<1>7. CASE S # {}
  <2>1. S \in SUBSET Dag!Startable
    BY <1>2, <1>3 DEF Dag!Startable, Dag!Preds, Preds
  <2>2. Dag!Start(S)
    BY <1>4, <1>5, <1>7 DEF Dag!Start, DagState
  <2> QED
    BY <2>1, <2>2 DEF Dag!Next
<1> QED
  BY <1>6, <1>7

(* A report that changes a row is a step of its node.                       *)
LEMMA ReportRuns ==
    ASSUME TypeInv, IInv, OutcomeInv, Unrepeated, Unrepeated', NEW w \in Worker, UpdateWrite(w),
           row'[NodeOf[w]].phase # row[NodeOf[w]].phase, row[NodeOf[w]].phase \notin Terminal
    PROVE  Dag!Next
<1> DEFINE n == NodeOf[w]
<1>1. n \in Node /\ row \in [Node -> Row] /\ row[n] \in Row /\ report[w] \in Phase
  BY WorkerAssumption DEF TypeInv, TypeOK
<1>2. pc[w] = "write" /\ row' = [row EXCEPT ![n].phase = report[w]] /\ UNCHANGED <<readyPuts, pipe>>
  BY DEF UpdateWrite, Goto, history
<1>3. row'[n].phase = report[w]
  BY <1>1, <1>2 DEF Row
<1>4. \A m \in Node \ {n} : AbstractState(m)' = AbstractState(m)
  BY <1>1, <1>2 DEF AbstractState
<1>5. /\ readyPuts[n] # 0 /\ readyPuts'[n] # 0
      /\ report[w] # "Ready"
      /\ report[w] \in Terminal => row[n].phase # "Ready"
  BY <1>1, <1>2 DEF IInv, WorkerOK, ReportOK, OutcomeInv, OrderOK, UpdatePcs
<1>6. AbstractOutcome' = AbstractOutcome
  BY <1>2 DEF AbstractOutcome
<1>7. CASE report[w] = "Running"
  <2>1. row[n].phase = "Ready"
    BY <1>1, <1>3, <1>7 DEF Row, Phase, Terminal
  <2>2. AbstractState(n) = "ready" /\ AbstractState(n)' = "running"
    BY <1>3, <1>5, <1>7, <2>1 DEF AbstractState
  <2>3. DagState' = [DagState EXCEPT ![n] = "running"]
    BY <1>4, <2>2 DEF DagState
  <2>4. Dag!Execute(n)
    BY <1>1, <1>6, <2>2, <2>3 DEF Dag!Execute, DagState
  <2> QED
    BY <1>1, <2>4 DEF Dag!Next
<1>8. CASE report[w] \in Terminal
  <2>1. row[n].phase = "Running"
    BY <1>1, <1>5, <1>8 DEF Row, Phase, Terminal
  <2>2. AbstractState(n) = "running" /\ AbstractState(n)' \in {"succeeded", "failed"}
    BY <1>3, <1>5, <1>8, <2>1 DEF AbstractState, Terminal
  <2>3. DagState' = [DagState EXCEPT ![n] = AbstractState(n)']
    BY <1>4 DEF DagState
  <2>4. Dag!End(n)
    BY <1>1, <1>6, <2>2, <2>3 DEF Dag!End, DagState
  <2> QED
    BY <1>1, <2>4 DEF Dag!Next
<1> QED
  BY <1>1, <1>5, <1>7, <1>8 DEF Phase, Terminal

(* The first outcome stored is right, the others repeat it.                 *)
LEMMA StatusConcludes ==
    ASSUME TypeInv, IInv, OutcomeInv, Unrepeated, Unrepeated', NEW w \in Worker, UpdateStatus(w)
    PROVE  [Dag!Next]_(Dag!vars)
<1>1. /\ pc[w] = "status" /\ UNCHANGED <<row, readyPuts>> /\ pipe' \in {pipe, verdict[w]}
      /\ AllCompleted /\ verdict[w] = PipelineVerdict
  BY DEF UpdateStatus, Goto, history, OutcomeInv, OutcomeOK
<1>2. present = Node
  BY <1>1, RowsFound DEF OutcomeInv, CompletionPcs
<1>3. \A n \in Node : AbstractState(n)' = AbstractState(n)
  BY <1>1 DEF AbstractState
<1>4. CASE pipe' = pipe
  BY <1>3, <1>4 DEF Dag!vars, AbstractOutcome
<1>5. CASE pipe' = verdict[w] /\ pipe' # pipe
  <2>1. pipe \notin {"Success", "Failed"}
    BY <1>1, <1>5 DEF OutcomeInv, OutcomeOK
  <2>2. \A n \in Node : AbstractState(n) \in {"succeeded", "failed"}
    BY <1>1, <1>2, StateOfStarted DEF AllCompleted, Terminal
  <2>3. (\E n \in Node : row[n].phase = "Failed") <=> (\E n \in Node : AbstractState(n) = "failed")
    BY <1>1, <1>2, StateOfStarted DEF AllCompleted, Terminal
  <2>4. AbstractOutcome = "open"
    BY <2>1 DEF AbstractOutcome
  <2>5. AbstractOutcome' = IF \E n \in Node : row[n].phase = "Failed" THEN "failed" ELSE "succeeded"
    BY <1>1, <1>2, <1>5 DEF AbstractOutcome, PipelineVerdict
  <2>6. Dag!Conclude
    BY <1>3, <2>2, <2>3, <2>4, <2>5 DEF Dag!Conclude
  <2> QED
    BY <2>6 DEF Dag!Next
<1> QED
  BY <1>1, <1>4, <1>5

(* Every step is a step of DagExecution or changes nothing it sees.         *)
LEMMA DagStep ==
    ASSUME MaxDeletes = 0, TypeInv, IInv, OutcomeInv, [Next]_vars, Unrepeated'
    PROVE  [Dag!Next]_(Dag!vars)
<1>0. Unrepeated /\ ~LostAnswer
  BY NoRepeat
<1>1. ASSUME UNCHANGED readyPuts, AbstractOutcome' = AbstractOutcome,
             \A n \in Node : row'[n].phase = row[n].phase
      PROVE  [Dag!Next]_(Dag!vars)
  <2>1. \A n \in Node : AbstractState(n)' = AbstractState(n)
    BY <1>1 DEF AbstractState
  <2> QED
    BY <1>0, <1>1, <2>1 DEF Dag!vars
<1>2. CASE RunPut \/ RunPutFails
  <2>1. runPc = "put" /\ row' = row /\ pipe' = pipe /\ (PutReady(Roots) \/ UNCHANGED readyPuts)
    BY <1>2 DEF RunPut, RunPutFails, dbVars
  <2>2. ASSUME NEW n \in Roots PROVE readyPuts[n] = 0 /\ Preds(n) = {}
    BY <2>1, InitialInDegree DEF Roots, IInv, PresentOK
  <2>3. Roots \in SUBSET Node
    BY DEF Roots
  <2>4. CASE PutReady(Roots)
    BY <1>0, <2>1, <2>2, <2>3, <2>4, PutStarts
  <2>5. CASE UNCHANGED readyPuts
    BY <1>1, <2>1, <2>5 DEF AbstractOutcome
  <2> QED
    BY <2>1, <2>4, <2>5
<1>3. CASE RunWithoutNodes \/ RunCommit \/ RunCommitFails
  <2>1. UNCHANGED <<row, readyPuts>> /\ runPc # "done" /\ pipe' \in {pipe, "Running"}
    BY <1>3 DEF RunWithoutNodes, RunCommit, RunCommitFails, NewPipeExec, dbVars, history
  <2>2. pipe = "absent"
    BY <2>1 DEF OutcomeInv, RunOK
  <2>3. AbstractOutcome' = AbstractOutcome
    BY <2>1, <2>2 DEF AbstractOutcome
  <2> QED
    BY <1>1, <2>1, <2>3
<1>4. ASSUME NEW w \in Worker, Trigger(w) PROVE [Dag!Next]_(Dag!vars)
  <2>1. row' = row /\ pipe' = pipe /\ (PutReady({down[w]}) \/ UNCHANGED readyPuts) /\ pc[w] = "trigger"
    BY <1>4 DEF Trigger, dbVars
  <2>2. /\ down[w] \in Node /\ readyPuts[down[w]] = 0 /\ NewInDegree(w) = 0
        /\ Cardinality(Undone(down[w])) < read[w].inDegree
    BY <2>1, SuccsInNode, WorkerAssumption DEF TypeInv, VisitOK, IInv, WorkerOK, ReadBound,
        Downstream, InTransaction
  <2>3. Undone(down[w]) = {}
    <3>1. Cardinality(Undone(down[w])) = 0
      BY <2>2, UndoneFinite DEF NewInDegree, TypeInv, TypeOK, Row
    <3> QED
      BY <2>2, <3>1, UndoneFinite, FS_EmptySet
  <2>4. \A m \in Preds(down[w]) : Succeeded(m)
    BY <2>2, <2>3, Reported DEF Undone, IInv, OutcomeInv, DecrementedOK, Preds
  <2>5. CASE PutReady({down[w]})
    BY <1>0, <2>1, <2>2, <2>4, <2>5, PutStarts
  <2>6. CASE UNCHANGED readyPuts
    BY <1>1, <2>1, <2>6 DEF AbstractOutcome
  <2> QED
    BY <2>1, <2>5, <2>6
<1>5. ASSUME NEW w \in Worker, UpdateWrite(w) PROVE [Dag!Next]_(Dag!vars)
  <2>1. UNCHANGED <<readyPuts, pipe>> /\ \A n \in Node \ {NodeOf[w]} : row'[n] = row[n]
    BY <1>5 DEF UpdateWrite, history, TypeInv, TypeOK
  <2>2. CASE row'[NodeOf[w]].phase = row[NodeOf[w]].phase
    <3>1. \A n \in Node : row'[n].phase = row[n].phase
      BY <2>1, <2>2
    <3> QED
      BY <1>1, <2>1, <3>1 DEF AbstractOutcome
  <2>3. CASE row'[NodeOf[w]].phase # row[NodeOf[w]].phase
    <3>1. row[NodeOf[w]].phase \notin Terminal
      BY <2>3, PhaseStep, WorkerAssumption
    <3> QED
      BY <1>0, <1>5, <2>3, <3>1, ReportRuns
  <2> QED
    BY <2>2, <2>3
<1>6. ASSUME NEW w \in Worker, UpdateStatus(w) PROVE [Dag!Next]_(Dag!vars)
  BY <1>0, <1>6, StatusConcludes
<1>7. ASSUME NEW w \in Worker, Commit(w) PROVE [Dag!Next]_(Dag!vars)
  <2>1. UNCHANGED <<readyPuts, pipe>> /\ pc[w] = "commit"
    BY <1>7 DEF Commit, history
  <2>2. \A n \in Node : row'[n].phase = row[n].phase
    <3>1. ASSUME NEW n \in Node, NEW v \in Worker, UpdateWrite(v), pc[v] = "write" PROVE FALSE
      BY <1>7, <3>1 DEF Commit, EndTransaction, UpdateWrite, Goto, localVars, TypeInv, TypeOK
    <3> QED
      BY <3>1, PhaseStep
  <2> QED
    BY <1>1, <2>1, <2>2 DEF AbstractOutcome
<1>8. CASE UNCHANGED <<row, pipe, readyPuts>>
  BY <1>1, <1>8 DEF AbstractOutcome
<1>9. ASSUME NEW n \in Node, Delete(n) PROVE [Dag!Next]_(Dag!vars)
  BY <1>9 DEF Delete, TypeInv, TypeOK
<1> QED
  BY <1>0, <1>2, <1>3, <1>4, <1>5, <1>6, <1>7, <1>8, <1>9 DEF Next, Run, Operator, Begin, Finish, Resend,
      Send, Update, UpdateRead, UpdatePut, Completion, LoadDependencies, ReadDownstream, Decrement,
      CheckCompletion, Cleanup, CleanupEnd, Crash, Stopped, vars, dbVars, history

(* The server implements the abstract execution of a graph: with any graph, *)
(* failed calls and restarts, until a report is repeated nodes start after  *)
(* those they depend on, run once and end once, and the pipeline has one    *)
(* outcome, the right one.                                                  *)
THEOREM Implements == MaxDeletes = 0 => (Spec => ImplementsDag)
<1> SUFFICES ASSUME MaxDeletes = 0 PROVE Spec => Dag!Spec
  BY DEF ImplementsDag
<1>1. TypeInv /\ (Unrepeated => IInv /\ OutcomeInv) /\ [Next]_vars => [Dag!Next]_(Dag!vars)
  <2> SUFFICES ASSUME TypeInv, Unrepeated => IInv /\ OutcomeInv, [Next]_vars
               PROVE  [Dag!Next]_(Dag!vars)
    OBVIOUS
  <2>1. CASE Unrepeated'
    BY <2>1, NoRepeat, DagStep
  <2>2. CASE ~Unrepeated'
    BY <2>2 DEF Dag!Next, Dag!Repeat
  <2> QED
    BY <2>1, <2>2
<1> QED
  BY <1>1, DagInit, FullInvariance, PTL DEF Spec, Dag!Spec
=============================================================================

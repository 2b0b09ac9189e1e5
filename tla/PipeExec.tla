------------------------------ MODULE PipeExec ------------------------------
(***************************************************************************)
(* One execution of a pipeline by the server of service/pipe_exec:         *)
(* Run creates the rows and hands the in-degree-0 nodes to the operators   *)
(* through etcd; operators report phases with Update; the goroutine        *)
(* handleNodeCompletion decrements the in-degree of the nodes downstream,  *)
(* triggers those that reach 0, and closes the pipeline.                   *)
(*                                                                         *)
(* A worker is one attempt of an operator at a node: the program that      *)
(* takes a Ready event, or repeats an Update whose answer was lost, and     *)
(* sends Update calls, then the completion goroutine that its last Update  *)
(* starts on the server. So one node's report may be handled several times.*)
(* The database is read and written at READ COMMITTED grain (a plain read  *)
(* takes no lock; a write inside a transaction locks the row until commit).*)
(***************************************************************************)
EXTENDS Integers, FiniteSets

CONSTANTS
    Node,        \* the node executions of the pipeline
    Edge,        \* pipeCfg.Graph.Edges as pairs <<From, To>>
    InDegree,    \* node_cfg.in_degree of each node, as Create stored it
    Worker,      \* attempts of the operators
    NodeOf,      \* the node each attempt is about
    Outcome,     \* the terminal phases operators may report
    None,        \* no value: a missing etcd key, a free row lock
    MaxFaults,   \* bound: failed database or etcd calls
    MaxCrashes,  \* bound: server restarts
    MaxDeletes   \* bound: calls of the Delete endpoint

Phase == {"Ready", "Running", "Succeeded", "Failed"}
Terminal == {"Succeeded", "Failed"}
Preds(n) == {m \in Node : <<m, n>> \in Edge}
Succs(n) == {m \in Node : <<n, m>> \in Edge}

ASSUME NodeAssumption == IsFiniteSet(Node) /\ None \notin Node \cup Phase
ASSUME WorkerAssumption ==
    /\ IsFiniteSet(Worker) /\ None \notin Worker
    /\ NodeOf \in [Worker -> Node]
ASSUME EdgeAssumption == Edge \subseteq Node \X Node
(* Create copies the in-degree of every vertex of the graph; a node that is *)
(* on no edge keeps the in-degree its client sent.                          *)
ASSUME InDegreeAssumption ==
    /\ InDegree \in [Node -> Nat]
    /\ \A n \in Node : Preds(n) \cup Succs(n) # {} => InDegree[n] = Cardinality(Preds(n))
ASSUME OutcomeAssumption == Outcome \subseteq Terminal
ASSUME BoundAssumption == MaxFaults \in Nat /\ MaxCrashes \in Nat /\ MaxDeletes \in Nat

VARIABLES
    pipe,         \* pipe_exec.state, "absent" until Run's transaction commits
    present,      \* the nodes whose node_exec row exists
    row,          \* node_exec.status and node_exec.in_degree of each node
    etcd,         \* phase stored under the node's key, or None
    lock,         \* worker whose open transaction holds the node's row, or None
    runPc,        \* control of Run
    pc,           \* control of each worker
    report,       \* phase the worker's Update carries
    todo,         \* downstream nodes, or keys to clean, still ahead of the worker
    down,         \* downstream node the worker is at, or None
    read,         \* the worker's copy of that node's row
    verdict,      \* pipeline state the worker is about to store
    readyPuts,    \* number of Ready events put under each node's key
    decremented,  \* edges on which a completion has started its decrement
    faults, crashes, deletes

dbVars == <<pipe, present, row>>
localVars == <<report, todo, down, read, verdict>>
history == <<readyPuts, decremented>>
budget == <<faults, crashes, deletes>>
vars == <<pipe, present, row, etcd, lock, runPc, pc, report, todo, down, read,
          verdict, readyPuts, decremented, faults, crashes, deletes>>

Row == [phase : Phase, inDegree : Nat]
(* Of the row of a pipeline, which copies its configuration, the state. *)
NewPipeExec == "Running"
NewNodeExec(n) == [phase |-> "Ready", inDegree |-> InDegree[n]]
(* Defects: each is what the definition after it might have been by mistake,*)
(* and breaks the property that PROJECT.json names with it.                 *)
EveryEntry == {n \in Node : InDegree[n] <= 1}

Roots == {n \in Node : InDegree[n] = 0}

UpdatePcs == {"read", "write", "put"}
CompletionPcs == {"load", "next", "decrement", "trigger", "commit",
                  "status", "cleanup"}
Pcs == {"idle", "working", "retry", "done"} \cup UpdatePcs \cup CompletionPcs

Init ==
    /\ pipe = "absent" /\ present = {}
    /\ row = [n \in Node |-> NewNodeExec(n)]
    /\ etcd = [n \in Node |-> None]
    /\ lock = [n \in Node |-> None]
    /\ runPc = "put"
    /\ pc = [w \in Worker |-> "idle"]
    /\ report = [w \in Worker |-> "Ready"]
    /\ todo = [w \in Worker |-> {}]
    /\ down = [w \in Worker |-> None]
    /\ read = [w \in Worker |-> [phase |-> "Ready", inDegree |-> 0]]
    /\ verdict = [w \in Worker |-> "Running"]
    /\ readyPuts = [n \in Node |-> 0]
    /\ decremented = {}
    /\ faults = 0 /\ crashes = 0 /\ deletes = 0

Goto(w, from, to) == pc[w] = from /\ pc' = [pc EXCEPT ![w] = to]

(* A write waits while another transaction holds the row. *)
NoRowLock(n) == TRUE

RowFree(n) == lock[n] = None

(* A call to the database or to etcd that returns an error. *)
Fault ==
    /\ faults < MaxFaults
    /\ faults' = faults + 1
    /\ UNCHANGED <<crashes, deletes>>

NoFault == UNCHANGED budget

(* Ready stored under the keys of the nodes of S: each put is an event that *)
(* the operators' watches will see.                                         *)
PutReady(S) ==
    /\ etcd' = [n \in Node |-> IF n \in S THEN "Ready" ELSE etcd[n]]
    /\ readyPuts' = [n \in Node |-> IF n \in S THEN readyPuts[n] + 1 ELSE readyPuts[n]]

----------------------------------------------------------------------------
(* Run: rows and etcd keys of one new execution. The keys are put while the *)
(* database transaction is still open.                                      *)

RunPut ==
    /\ runPc = "put" /\ runPc' = "commit"
    /\ PutReady(Roots)
    /\ NoFault
    /\ UNCHANGED <<dbVars, lock, pc, localVars, decremented>>

(* An error before or in TransactionPut rolls back; etcd may still have     *)
(* applied a transaction whose answer was lost.                             *)
RunPutFails ==
    /\ runPc = "put" /\ runPc' = "failed"
    /\ Fault
    /\ \/ PutReady(Roots)
       \/ UNCHANGED <<etcd, readyPuts>>
    /\ UNCHANGED <<dbVars, lock, pc, localVars, decremented>>

(* The node configurations could not be read: Run logs the error and goes   *)
(* on, with an execution that has no nodes.                                 *)
RunWithoutNodes ==
    /\ runPc = "put" /\ runPc' = "done"
    /\ Fault
    /\ pipe' = NewPipeExec
    /\ UNCHANGED <<present, row, etcd, lock, pc, localVars, history>>

(* The answer of a commit may be lost, here as in Commit below. *)
RunCommit ==
    /\ runPc = "commit" /\ runPc' = "done"
    /\ pipe' = NewPipeExec /\ present' = Node
    /\ NoFault \/ Fault
    /\ UNCHANGED <<row, etcd, lock, pc, localVars, history>>

RunCommitFails ==
    /\ runPc = "commit" /\ runPc' = "failed"
    /\ Fault
    /\ UNCHANGED <<dbVars, etcd, lock, pc, localVars, history>>

----------------------------------------------------------------------------
(* The operator, outside the server: it takes a Ready event, reports        *)
(* Running, works, and reports an outcome. It may repeat a failed Update,   *)
(* also one that did not fail: the answer is lost when the client's timeout *)
(* expires, the connection breaks or the server restarts after it started   *)
(* the completion. The first attempt then goes on as if nothing happened.   *)

Send(w, phase) ==
    /\ report' = [report EXCEPT ![w] = phase]
    /\ NoFault
    /\ UNCHANGED <<dbVars, etcd, lock, runPc, todo, down, read, verdict, history>>

Begin(w) ==
    /\ readyPuts[NodeOf[w]] > 0
    /\ Goto(w, "idle", "read")
    /\ Send(w, "Running")

Finish(w) ==
    \E phase \in Outcome :
        /\ Goto(w, "working", "read")
        /\ Send(w, phase)

Resend(w) ==
    /\ Goto(w, "retry", "read")
    /\ Send(w, report[w])

GiveUp(v, w) ==
    /\ NodeOf[w] = NodeOf[v] /\ pc[v] \notin {"idle", "retry"}
    /\ Goto(w, "idle", "retry")
    /\ Send(w, report[v])

----------------------------------------------------------------------------
(* Update: read the row, overwrite it, put the key, and, when the phase is  *)
(* terminal, start handleNodeCompletion. The phase read is only logged.     *)

UpdateRead(w) ==
    /\ \/ NodeOf[w] \in present /\ Goto(w, "read", "write") /\ NoFault
       \/ NodeOf[w] \notin present /\ Goto(w, "read", "retry") /\ NoFault
       \/ Goto(w, "read", "retry") /\ Fault
    /\ UNCHANGED <<dbVars, etcd, lock, runPc, localVars, history>>

(* Updates skips zero fields: the in-degree an operator sends is 0. *)
UpdateWrite(w) ==
    LET n == NodeOf[w] IN
    /\ \/ /\ RowFree(n)
          /\ row' = IF n \in present THEN [row EXCEPT ![n].phase = report[w]] ELSE row
          /\ \/ Goto(w, "write", "put") /\ NoFault
             \/ Goto(w, "write", "retry") /\ Fault
       \/ Goto(w, "write", "retry") /\ Fault /\ UNCHANGED row
    /\ UNCHANGED <<pipe, present, etcd, lock, runPc, localVars, history>>

CompletionOfEveryEnd(phase) == IF phase \in Terminal THEN "load" ELSE "working"

AfterUpdate(phase) ==
    CASE phase = "Succeeded" -> "load"
      [] phase = "Failed"    -> "done"
      [] OTHER               -> "working"

UpdatePut(w) ==
    LET Stored == [etcd EXCEPT ![NodeOf[w]] = report[w]] IN
    /\ \/ Goto(w, "put", AfterUpdate(report[w])) /\ NoFault /\ etcd' = Stored
       \/ Goto(w, "put", "retry") /\ Fault /\ etcd' \in {etcd, Stored}
    /\ UNCHANGED <<dbVars, lock, runPc, localVars, history>>

----------------------------------------------------------------------------
(* handleNodeCompletion of a node that succeeded.                           *)

(* Node and pipeline configuration are never updated, so they are read in   *)
(* one step: without the node configurations the goroutine ends, without    *)
(* the pipeline configuration the dependency map is empty. The edges are    *)
(* visited in any order.                                                    *)
LoadDependencies(w) ==
    /\ \/ /\ Goto(w, "load", "next")
          /\ todo' = [todo EXCEPT ![w] = Succs(NodeOf[w])]
          /\ NoFault
       \/ Goto(w, "load", "done") /\ Fault /\ UNCHANGED todo
       \/ Goto(w, "load", "next") /\ Fault /\ UNCHANGED todo
    /\ UNCHANGED <<dbVars, etcd, lock, runPc, report, down, read, verdict, history>>

(* The row downstream is read before the transaction opens. *)
ReadDownstream(w) ==
    \E d \in todo[w] :
        /\ pc[w] = "next"
        /\ todo' = [todo EXCEPT ![w] = @ \ {d}]
        /\ \/ /\ d \in present
              /\ pc' = [pc EXCEPT ![w] = "decrement"]
              /\ down' = [down EXCEPT ![w] = d]
              /\ read' = [read EXCEPT ![w] = row[d]]
              /\ NoFault
           \/ d \notin present /\ NoFault /\ UNCHANGED <<pc, down, read>>
           \/ Fault /\ UNCHANGED <<pc, down, read>>
        /\ UNCHANGED <<dbVars, etcd, lock, runPc, report, verdict, history>>

(* InDegree-- on the copy, and the write that locks the row. *)
DecrementTwice(w) == read[w].inDegree - 2
DecrementForgotten(w) == read[w].inDegree

NewInDegree(w) == read[w].inDegree - 1

Decrement(w) ==
    LET d == down[w] IN
    /\ pc[w] = "decrement"
    /\ \/ /\ RowFree(d)
          /\ lock' = [lock EXCEPT ![d] = w]
          /\ pc' = [pc EXCEPT ![w] = IF NewInDegree(w) = 0 THEN "trigger" ELSE "commit"]
          /\ decremented' = decremented \cup {<<NodeOf[w], d>>}
          /\ NoFault /\ UNCHANGED down
       \/ /\ Fault
          /\ pc' = [pc EXCEPT ![w] = "next"]
          /\ down' = [down EXCEPT ![w] = None]
          /\ UNCHANGED <<lock, decremented>>
    /\ UNCHANGED <<dbVars, etcd, runPc, report, todo, read, verdict, readyPuts>>

(* The end of the transaction: the row is free and the loop goes on. *)
EndTransaction(w) ==
    /\ pc' = [pc EXCEPT ![w] = "next"]
    /\ lock' = [lock EXCEPT ![down[w]] = None]
    /\ down' = [down EXCEPT ![w] = None]

(* etcd.Put inside the transaction; an error rolls the row back. *)
Trigger(w) ==
    /\ pc[w] = "trigger"
    /\ \/ /\ PutReady({down[w]})
          /\ pc' = [pc EXCEPT ![w] = "commit"]
          /\ NoFault /\ UNCHANGED <<lock, down>>
       \/ /\ Fault /\ EndTransaction(w)
          /\ \/ PutReady({down[w]})
             \/ UNCHANGED <<etcd, readyPuts>>
    /\ UNCHANGED <<dbVars, runPc, report, todo, read, verdict, decremented>>

(* Updates(downstreamExec) writes the whole copy except its zero fields, so *)
(* an in-degree of 0 is never stored.                                       *)
Written(w) ==
    [phase    |-> IF NewInDegree(w) = 0 THEN "Ready" ELSE read[w].phase,
     inDegree |-> IF NewInDegree(w) = 0 THEN row[down[w]].inDegree ELSE NewInDegree(w)]

Commit(w) ==
    /\ pc[w] = "commit"
    /\ EndTransaction(w)
    /\ \/ /\ row' = IF down[w] \in present THEN [row EXCEPT ![down[w]] = Written(w)] ELSE row
          /\ NoFault \/ Fault
       \/ Fault /\ UNCHANGED row
    /\ UNCHANGED <<pipe, present, etcd, runPc, report, todo, read, verdict, history>>

----------------------------------------------------------------------------
(* checkPipelineCompletion, updatePipelineStatus, cleanupPipelineRuntime.   *)

OnlyRunningIsIncomplete == \A n \in present : row[n].phase # "Running"

AllCompleted == \A n \in present : row[n].phase \in Terminal
PipelineVerdict == IF \E n \in present : row[n].phase = "Failed" THEN "Failed" ELSE "Success"

CheckCompletion(w) ==
    /\ todo[w] = {}
    /\ \/ /\ AllCompleted
          /\ Goto(w, "next", "status")
          /\ verdict' = [verdict EXCEPT ![w] = PipelineVerdict]
          /\ todo' = [todo EXCEPT ![w] = present]
          /\ NoFault
       \/ ~AllCompleted /\ Goto(w, "next", "done") /\ NoFault /\ UNCHANGED <<verdict, todo>>
       \/ Goto(w, "next", "done") /\ Fault /\ UNCHANGED <<verdict, todo>>
    /\ UNCHANGED <<dbVars, etcd, lock, runPc, report, down, read, history>>

(* The cleanup follows even when the state could not be stored. *)
CleanupByFirstVerdictOnly(w) ==
    /\ Goto(w, "status", IF pipe = "Running" THEN "cleanup" ELSE "done")
    /\ \/ pipe' = verdict[w] /\ NoFault
       \/ pipe' \in {pipe, verdict[w]} /\ Fault
    /\ UNCHANGED <<present, row, etcd, lock, runPc, localVars, history>>

UpdateStatus(w) ==
    /\ Goto(w, "status", "cleanup")
    /\ \/ pipe' = verdict[w] /\ NoFault
       \/ pipe' \in {pipe, verdict[w]} /\ Fault
    /\ UNCHANGED <<present, row, etcd, lock, runPc, localVars, history>>

Cleanup(w) ==
    \E n \in todo[w] :
        /\ pc[w] = "cleanup"
        /\ todo' = [todo EXCEPT ![w] = @ \ {n}]
        /\ LET Removed == [etcd EXCEPT ![n] = None] IN
           \/ etcd' = Removed /\ NoFault
           \/ etcd' \in {etcd, Removed} /\ Fault
        /\ UNCHANGED <<dbVars, lock, runPc, pc, report, down, read, verdict, history>>

CleanupEnd(w) ==
    /\ todo[w] = {}
    /\ Goto(w, "cleanup", "done")
    /\ NoFault
    /\ UNCHANGED <<dbVars, etcd, lock, runPc, localVars, history>>

----------------------------------------------------------------------------
(* The Delete endpoint removes the row and then the key that buildObjectKey *)
(* makes up, whose version is the literal "*".                              *)

KeyGen(n) == [version |-> "v1", node |-> n]
BuildObjectKey(n) == [version |-> "*", node |-> n]

Delete(n) ==
    /\ n \in present /\ RowFree(n)
    /\ deletes < MaxDeletes
    /\ deletes' = deletes + 1
    /\ present' = present \ {n}
    /\ etcd' = [k \in Node |-> IF KeyGen(k) = BuildObjectKey(n) THEN None ELSE etcd[k]]
    /\ UNCHANGED <<pipe, row, lock, runPc, pc, localVars, history, faults, crashes>>

(* The server stops and starts again: requests in flight end in an error at *)
(* the operator, open transactions roll back, goroutines are gone.          *)
Crash ==
    /\ crashes < MaxCrashes
    /\ crashes' = crashes + 1
    /\ pc' = [w \in Worker |-> IF pc[w] \in UpdatePcs THEN "retry"
                               ELSE IF pc[w] \in CompletionPcs THEN "done" ELSE pc[w]]
    /\ runPc' = IF runPc = "done" THEN "done" ELSE "failed"
    /\ lock' = [n \in Node |-> None]
    /\ todo' = [w \in Worker |-> {}]
    /\ down' = [w \in Worker |-> None]
    /\ UNCHANGED <<dbVars, etcd, report, read, verdict, history, faults, deletes>>

----------------------------------------------------------------------------
Run == RunPut \/ RunPutFails \/ RunWithoutNodes \/ RunCommit \/ RunCommitFails

Operator(w) == Begin(w) \/ Finish(w) \/ Resend(w)

LostAnswer == \E v, w \in Worker : GiveUp(v, w)

Update(w) == UpdateRead(w) \/ UpdateWrite(w) \/ UpdatePut(w)

Completion(w) ==
    \/ LoadDependencies(w) \/ ReadDownstream(w) \/ Decrement(w) \/ Trigger(w) \/ Commit(w)
    \/ CheckCompletion(w) \/ UpdateStatus(w) \/ Cleanup(w) \/ CleanupEnd(w)

TakenUp(n) == \E w \in Worker : NodeOf[w] = n /\ pc[w] # "idle"

(* No event is left to take up and no goroutine runs. *)
Quiescent ==
    /\ runPc \in {"done", "failed"}
    /\ \A w \in Worker : \/ pc[w] = "done"
                         \/ pc[w] = "idle" /\ (readyPuts[NodeOf[w]] > 0 => TakenUp(NodeOf[w]))

Stopped == Quiescent /\ UNCHANGED vars

Next ==
    \/ Run
    \/ \E w \in Worker : Operator(w) \/ Update(w) \/ Completion(w)
    \/ \E n \in Node : Delete(n)
    \/ LostAnswer \/ Crash
    \/ Stopped

Spec == Init /\ [][Next]_vars

(* Requests and goroutines of a running server go on; operators take up     *)
(* their events, report an outcome and repeat an Update that was refused:   *)
(* one sent before Run's transaction commits finds no row. Nobody has to    *)
(* make a second attempt at a node.                                         *)
FirstAttempt(w) == ~TakenUp(NodeOf[w]) /\ Begin(w)

Fairness ==
    /\ WF_vars(Run)
    /\ \A w \in Worker :
          /\ WF_vars(FirstAttempt(w) \/ Finish(w) \/ Resend(w))
          /\ WF_vars(Update(w)) /\ WF_vars(Completion(w))

FairSpec == Spec /\ Fairness

----------------------------------------------------------------------------
(* Properties.                                                              *)

(* Every variable has its type; an in-degree never drops below 0. *)
TypeOK ==
    /\ pipe \in {"absent", "Running", "Success", "Failed"}
    /\ present \subseteq Node
    /\ row \in [Node -> Row]
    /\ etcd \in [Node -> Phase \cup {None}]
    /\ lock \in [Node -> Worker \cup {None}]
    /\ runPc \in {"put", "commit", "done", "failed"}
    /\ pc \in [Worker -> Pcs]
    /\ report \in [Worker -> Phase]
    /\ todo \in [Worker -> SUBSET Node]
    /\ down \in [Worker -> Node \cup {None}]
    /\ read \in [Worker -> Row]
    /\ verdict \in [Worker -> {"Running", "Success", "Failed"}]
    /\ readyPuts \in [Node -> Nat]
    /\ decremented \subseteq Edge
    /\ faults \in 0 .. MaxFaults /\ crashes \in 0 .. MaxCrashes /\ deletes \in 0 .. MaxDeletes

Succeeded(n) == row[n].phase = "Succeeded"

(* No node had two attempts: every event was delivered once and no Update   *)
(* was repeated whose first attempt may still be at work.                   *)
Unrepeated ==
    \A v, w \in Worker : v # w /\ NodeOf[v] = NodeOf[w] => pc[v] = "idle" \/ pc[w] = "idle"

(* The attempts whose success report the server has accepted. *)
Handled(n) ==
    {w \in Worker : /\ NodeOf[w] \in Preds(n)
                    /\ report[w] = "Succeeded" /\ pc[w] \in CompletionPcs \cup {"done"}}

(* Each success report counts once, whatever calls fail, answers are lost   *)
(* or rows deleted and wherever the server stops: a node with k             *)
(* predecessors gets its first Ready event after k accepted reports, and    *)
(* each further event takes a further report, so without repetitions it     *)
(* starts once. The in-degree is read before the transaction that writes it *)
(* opens and its 0 is never stored (updateDownstreamNodeWithTransaction).   *)
StartsAreCounted ==
    \A n \in Node : readyPuts[n] > 0 =>
        IF Preds(n) = {} THEN readyPuts[n] = 1
        ELSE Cardinality(Preds(n)) + readyPuts[n] - 1 <= Cardinality(Handled(n))

(* As long as no report is handled twice, a node is handed to the operators *)
(* only after every node it depends on succeeded, whatever calls fail and   *)
(* wherever the server stops: lost updates of an in-degree may delay a      *)
(* node, never start it early (triggerDownstreamNodes).                     *)
NoPrematureStart ==
    Unrepeated => \A n \in Node : readyPuts[n] > 0 => \A m \in Preds(n) : Succeeded(m)

(* As long as no report is handled twice, the pipeline is stored as         *)
(* succeeded only when every node has: the check reads a snapshot and       *)
(* stores its verdict later (checkPipelineCompletion).                      *)
SuccessMeansAllSucceeded ==
    Unrepeated /\ pipe = "Success" => \A n \in Node : Succeeded(n)

(* Without failed calls or repeated reports, an execution that ended in     *)
(* success left no key in etcd: the last Update of each node puts its key   *)
(* again after another node's cleanup may have removed it                   *)
(* (cleanupPipelineRuntime).                                                *)
CleanAfterSuccess ==
    Unrepeated /\ faults = 0 /\ crashes = 0 /\ Quiescent /\ pipe = "Success"
      => \A n \in Node : etcd[n] = None

(* A node whose predecessors all succeeded has been started once nothing    *)
(* more can happen, when no call failed.                                    *)
JoinStarts ==
    faults = 0 /\ crashes = 0 /\ Quiescent
      => \A n \in Node : Preds(n) # {} /\ (\A m \in Preds(n) : Succeeded(m)) => readyPuts[n] > 0

(* As long as no report is handled twice, no write takes a node out of a    *)
(* terminal phase: the stale copy of a row that a completion writes back    *)
(* never overwrites the operator's report.                                  *)
TerminalPhaseStays ==
    [][Unrepeated' => \A n \in Node : row[n].phase \in Terminal => row'[n].phase = row[n].phase]_vars

(* As long as no report is handled twice, the stored outcome of a pipeline  *)
(* never changes, though several completions may each store their verdict.  *)
VerdictStays == [][Unrepeated' /\ pipe \in {"Success", "Failed"} => pipe' = pipe]_vars

(* Unless a call fails, the server stops, a report is repeated or a node    *)
(* fails, the pipeline reaches success and its keys are removed for good.   *)
PipelineCompletes ==
    \/ <>[](pipe = "Success" /\ \A n \in Node : etcd[n] = None)
    \/ <>(faults > 0 \/ crashes > 0 \/ ~Unrepeated \/ \E n \in Node : row[n].phase = "Failed")

----------------------------------------------------------------------------
(* The abstract execution of DagExecution: a node waits until its Ready     *)
(* event exists, then it is in the phase its row says.                      *)

AbstractState(n) ==
    CASE readyPuts[n] = 0             -> "waiting"
      [] row[n].phase = "Running"     -> "running"
      [] row[n].phase = "Succeeded"   -> "succeeded"
      [] row[n].phase = "Failed"      -> "failed"
      [] OTHER                        -> "ready"

AbstractOutcome ==
    CASE pipe = "Success" -> "succeeded"
      [] pipe = "Failed"  -> "failed"
      [] OTHER            -> "open"

Dag == INSTANCE DagExecution
           WITH state <- [n \in Node |-> AbstractState(n)], outcome <- AbstractOutcome,
                repeated <- ~Unrepeated

(* PipeExec implements DagExecution: until a report is repeated, no failed  *)
(* call, crash or race makes a node start early, start twice or end twice,  *)
(* or the pipeline have two outcomes.                                       *)
ImplementsDag == Dag!Spec

----------------------------------------------------------------------------
(* What comments of the code and its tests say, and the code does not do.   *)

(* A node runs once, after the nodes before it (test/pipelines/README.md).  *)
(* When the answer of an Update is lost after its completion started        *)
(* (service.go:186) and the operator repeats the report, neither holds.     *)
StartedAtMostOnce == \A n \in Node : readyPuts[n] <= 1
NeverPremature == \A n \in Node : readyPuts[n] > 0 => \A m \in Preds(n) : Succeeded(m)

(* service.go:338 logs "InDegree: 0 -> Ready" for a node it triggers: the   *)
(* stored in-degree of a started node is 0.                                 *)
StartedHasZeroInDegree ==
    faults = 0 /\ Quiescent => \A n \in present : readyPuts[n] > 0 => row[n].inDegree = 0

(* service.go:268 and :347: completion of the pipeline is checked once its  *)
(* nodes are done, also when some failed (:375).                            *)
FinishedWhenAllTerminal ==
    faults = 0 /\ Quiescent /\ present = Node /\ AllCompleted => pipe # "Running"

(* service.go:383: all runtime data is deleted once the pipeline is done.   *)
CleanAfterEnd ==
    faults = 0 /\ Quiescent /\ pipe \in {"Success", "Failed"} => \A n \in Node : etcd[n] = None

(* service.go:205: Delete removes the node from etcd.                       *)
DeleteRemovesKey ==
    [][\A n \in present \ present' : etcd'[n] = None]_vars
=============================================================================

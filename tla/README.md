# richerPipeline: models, checks and proofs

richerPipeline (its Go module is `pipefree`) stores pipelines as graphs of nodes, runs
them by handing the nodes that may start to operators through etcd, and gives operators
and tools a client library with watches, informers and a work queue. This directory holds
TLA+ modules of that code, TLC configurations that check them on small instances and
TLAPS proofs for every instance. `PROJECT.json` lists components, runs, hazards and
theorems, maps each definition to the lines it models, and names for each property a
plausible bug that breaks it.

To check a run: `tlc -config PipeExec_fork.cfg MCPipeExec.tla`; to check proofs:
`tlapm PipeExecProofs.tla`.

## 1. Inventory

Paths are below `src/`.

| Component | State | Operations | Interacts with |
|---|---|---|---|
| Pipeline configuration: `service/pipe_cfg`, `service/graph` | rows `pipe_cfg`, `node_cfg`; within a call the vertices, in-degrees and the heap of the sort | `Create` (validate, sort, assign in-degrees, store) | its rows are what execution reads |
| Pipeline execution: `service/pipe_exec` | rows `pipe_exec`, `node_exec` (phase, in-degree), one etcd key per node | `Run`, `Update` with the goroutine `handleNodeCompletion`, `Delete`, `List`, `Get` | database, etcd; operators call `Update` when they see a key |
| Execution API and its typed client: `http/api/pipe_exec`, `client_pipe/typed/nodeexec_crud.go` | none but calls on their way | `List`, `Get`, `Update`, `Delete`, each with the timeout of the client | execution |
| Watch server: `service/pipe_watch`, `http/api/pipe_watch` | `streamAgg` (prefix to stream); per stream a cancel function, `watchStarted`, `revSince`, a map of event channels | handler `Watch`, `ListAndWatch`, `RemoveOperator`, `HandleWatch` | etcd list and watch; one HTTP stream per connection |
| Typed client, watch: `client_pipe/typed/nodeexec.go` | result channel, `stopped`, lock, map of watches | `Watch` with its goroutine, `sendEvent`, `Stop` | watch server |
| Informer and store: `client_pipe/informers/informer.go`, `client_pipe/cache/store.go`, listers | local store with two indices, handlers, `started`, `hasSynced` | `Run` (list, watch loop, resync), `AddEventHandler`, the operations of the store | typed client, handlers |
| Reflector: `client_pipe/cache/reflector.go` | last resource version | list and watch loop | typed client; built by the informer, never run |
| Informer factory: `client_pipe/informers/factory.go` | map of informers, `startedInformers` | `GetInformer`, `Start`, `WaitForCacheSync`, adapters | informers |
| Work queue: `client_pipe/util` | `queue`, `dirty`, `processing`, `shutdown`, timers, `stopCh` | `Add`, `Get`, `Done`, `ShutDown`, `AddAfter` | its users' goroutines |
| Permissions: `service/pipe_perm` | spaces, namespaces, items | creates | database |
| Models, data access, etcd client: `infra` | none of their own | queries, puts, lists, watches | everything above |
| Start-up, routes, logging, configuration, clientset, example | none that matters here | | |

An execution goes round: `Run` puts the keys of the first nodes, the watch server tells
the connections, a client's watch hands the events to its informer, its handlers do the
work and call `Update`, whose goroutine puts the keys of the nodes that come next.

What is hard in each, and what makes it correct:

* **Execution.** Every `Update` of a succeeded node starts a goroutine on the server; the
  goroutines of two nodes race on the row of the node they both lead to, on the
  pipeline's row and on the etcd keys. In-degrees are read before the transaction that
  writes them. Puts to etcd sit inside database transactions that may roll back. A
  restart loses goroutines. Correct means: a node starts after all its predecessors
  succeeded, once; a reported outcome stays; the pipeline gets one outcome, the right
  one, and gets it; no key is left behind.
* **Execution API.** The client gives up while the server works on, so its next call may
  overtake the one before. Correct means: what a client was told is done stays done, for
  its later reads and in the order of its later writes.
* **Configuration.** Sequential, but with two notions of an edge: the in-degree counts
  edges, the sort counts successors down. Correct means: what is stored can be executed,
  and what is refused is refused with reason.
* **Watch server.** Three kinds of goroutines per connection, a lock that covers less
  than it should, a stream that may be stopped while another goroutine is about to join
  it. Correct means: one living stream, events in order, none lost but by a full buffer.
* **Watch of the client.** The sender holds the read lock while it waits for room, and
  `Stop` wants the write lock to close the channel. Correct means: `Stop` ends, nothing is
  sent to a closed channel, and the channel carries the lines of the server in order.
* **Informer, store, reflector.** Lists and watches announce the same object twice, lists
  run beside buffered events, removals come without an object, reconnections forget them,
  handlers come late. Correct means: the indices agree with the items, handlers are told
  what the store goes through, the store is a copy of etcd and comes to be the right one.
* **Factory.** Goroutines ask for, start and wait for informers at once. Correct means:
  one informer per key, run once, and a wait that answers true has seen it synced.
* **Work queue.** A condition variable, three collections that must agree, a shutdown.
  Correct means: an item added is worked on after it was added, by one consumer at a
  time, nothing sleeps beside work, and shutdown drains.

## 2. Modules

| Module | What it is |
|---|---|
| `DagExecution` | abstract: what executing a graph promises |
| `PipeExec`, `MCPipeExec`, `PipeExecProofs` | `service/pipe_exec`; implements `DagExecution` |
| `PipeCfg`, `MCPipeCfg`, `PipeCfgProofs` | `Create` with its topological sort |
| `PipeWatch`, `MCPipeWatch`, `PipeWatchProofs` | the watch server |
| `NodeApi`, `MCNodeApi`, `NodeApiProofs` | the calls of clients to the execution API |
| `LossyStream` | abstract: what the channel of a client's watch promises |
| `Watcher`, `MCWatcher`, `WatcherProofs` | the watch of the typed client; implements `LossyStream` |
| `Replica` | abstract: what a local copy of the nodes promises |
| `Store` | the store as functions on a record, extended by the next |
| `NodeFeed` | etcd, list API and watch as one client sees them |
| `Informer`, `Reflector` | the two ways to fill a store from a feed |
| `ClientCache`, `MCClientCache`, `ClientCacheProofs` | composes `Store`, `NodeFeed`, `Informer`, `Reflector`; implements `Replica` |
| `Factory`, `MCFactory`, `FactoryProofs` | the informer factory |
| `SharedPool` | abstract: what a work queue promises its consumers |
| `WorkQueue`, `MCWorkQueue`, `WorkQueueProofs` | the work queue; implements `SharedPool` |

Modules meet where one establishes what the other assumes:

* `PipeExec!InDegreeAssumption` is what `PipeCfg!CreatedIsRunnable` says of the nodes on the
  graph of a stored pipeline; of nodes on no edge neither says anything, as `Create` keeps what
  their client sent.
* A connection of `NodeFeed` behaves as `PipeWatch` lets one: a list, then the writes from
  the last one listed on or from the next one (its stream may have a watch already), some
  of them lost.
* The result channel of `NodeFeed` is the buffer of `LossyStream`, which `Watcher` is shown
  to implement: it keeps the order and loses lines.
* `NodeApi` keeps of an `Update` only that it writes a row and puts a key; `PipeExec` has
  what follows it.

### PipeExec

One execution of one pipeline. `pipe`, `present` and `row` are the database, `etcd` the
keys, `lock` the row locks of open transactions, `runPc` the request of `Run`. A **worker**
is one attempt of an operator at a node: the operator that took its Ready event and sends
`Update` calls (`Begin`, `Finish`, `Resend`, external code, modelled after
`test/pipeline_test.go`), the `Update` request on the server (`UpdateRead`, `UpdateWrite`,
`UpdatePut`), then the completion goroutine (`LoadDependencies` to `CleanupEnd`).

A node may have several attempts. An idle worker becomes one either by taking the event
again (`Begin`), as an etcd watch that restarts at a listed revision delivers it twice
(`PipeWatch` below repeats the last listed write), or by `GiveUp`: the answer of an `Update` is lost,
because the client's timeout expired (`client_pipe/typed/nodeexec.go:91`), the connection broke or
the server stopped after `service.go:186` started the completion. The operator then repeats
the report while the first attempt goes on as if nothing had happened, whatever it has come
to, the completion included; so the completions of one report run side by side. How often a
report can be repeated is the number of workers of its node. `Unrepeated` says that no node
has had two attempts yet. With one worker per node (`OneEach`) that is always so; `TwiceBuild` and
`TwiceBuildBefore` in `MCPipeExec` give one node a second one.

Decisions:

* Each database or etcd call is a step; a completion goroutine can be overtaken between any two.
* READ COMMITTED: a plain read takes no lock. A write inside a transaction locks the row
  until the commit, so `Decrement` takes `lock` and `Commit` frees it and shows the row.
* `Updates(struct)` of GORM skips zero fields: `UpdateWrite` changes the phase only,
  and `Written` keeps the stored in-degree when the new one is 0.
* A call to etcd, a commit or a write of the database that returns an error may have been
  applied: its answer was lost.
* Every call may fail (`Fault`, at most `MaxFaults`); the server may restart at any time
  (`Crash`, at most `MaxCrashes`): open transactions roll back, goroutines are gone,
  a request in flight becomes an error that its operator may retry.
* `RunWithoutNodes`: when the node configurations cannot be read, `Run` logs the error and
  commits an execution without nodes (`service.go:51-54`).
* `buildDependencyMap` has a branch for a pipeline without a graph (`service.go:296-303`). `Create`
  stores no such pipeline (section 5, `NoGraphIsRefused`), so `Succs` leaves it out.
* Configurations are never updated, so the two reads of `triggerDownstreamNodes` and
  `buildDependencyMap` are one step with two ways to fail. Edges are visited in any order;
  the code follows the stored one.
* `readyPuts` and `decremented` are history: how often a Ready event was put for a node,
  and which edges have begun their decrement. No guard of the server reads them; `Begin`
  reads `readyPuts` because an event, unlike a key, is not taken back by a later write.
* After its last success report an operator's worker holds `report = "Succeeded"` and is in the
  completion or done: `Handled(n)` counts these attempts at the predecessors of `n`.

### PipeCfg

One call of `Create`. The heap of the sort only holds vertices of in-degree 0, so `Pop` may
take any. `InDegree` counts edges as `Extract` does and `Countdown` counts successors as
`IsDAG` does, which differ when a client repeats an edge. Without a graph the handler
panics (`pc = "panicked"`). The database transaction is one step that stores all or nothing.

### PipeWatch

The server of one key prefix. Revision `r` of the store is its `r`-th write under the
prefix, and an event is its revision: the properties only ask which writes a connection
hears of and in which order. A stream is named by the connection that made it and a watch
by the one that started it, so names need no counter. `join` is the goroutine
`ListAndWatch`, `handler` the HTTP handler, `watch` the goroutine of `etcd.Watch`.
`sent` is everything ever put in an event channel; the first `read` of it have been taken
out, and a send that finds `Cap` items in the buffer goes to `dropped` instead.

The watch starts at the revision of the list, not after it, as the code does: the last write
listed is delivered again. `HandleWatch` ranges over the map of channels without the lock
that writers take, so a writer meanwhile may stop the server (`MayCrash`); if it does
not, the range may or may not see a new channel. When a watch ends with channels
registered, the goroutine blocks for ever at `ch.done` (`AfterWatch`).
`ListAndWatchWithRevision` is called with an empty version only, so its other branch is
left out.

### NodeApi

One node, its row and its key. A call is its own value: what an `Update` writes is the
name of the call, and `puts` is the history of the values the key has had. A client
has one call at a time under way; `GivesUp` is the timeout of its HTTP client (or a broken
connection), after which the server works on: the handlers hand the request's context
down, but the router does not set gin's `ContextWithFallback`, so nothing cancels it.
`UpdateFinds`, `UpdateRow` and `UpdatePut` are the three calls of `Service.Update`; each
may fail, and a put that fails may have been applied. `Get` looks for a key whose version is
`*` (`buildObjectKey`), which no put uses, so it never finds the node; for the same
reason `DeleteKey` leaves the key in place. A `List` is asked without a limit and under a
prefix that the node's key has: a limit cuts the answer off (`service.go:101-104`), and a kind
without a namespace makes a prefix with a literal `*` that no key has (`:485-486`).

### Watcher

`pc` is the goroutine of a watch: the loop of `watchServer` (`loop`), the request
(`connect`), the reading of lines (`scan`), `sendEvent` with the wait for the read lock
(`enter`), the test of `stopped` under it (`check`) and the send (`send`), the pause after
an error (`sleep`). A line is its number, an event with an error is 0. Go's `RWMutex` lets
no reader in once a writer has announced itself: a call of `Stop` is `waiting`, then
`announced`, and closes when the reader inside has left. `Drop` is the timer of five
seconds, which runs out only if the buffer is full all the time. `closes` counts how often
the channel was closed; a second time would panic.

### Store, NodeFeed, Informer, Reflector, ClientCache

`Store` has each operation of `cache/store.go` as a function from store to store; they
run under its lock. Absent entries are `None`. `AddToIndex` leaves alone what a key was indexed
under before, as the code does.

`NodeFeed` is the outside of one client: `history` holds the writes under the prefix its
watch asks for, so revision `r` is the `r`-th write. An object carries the attributes the
client looks at: key, revision, namespace, kind and the second of its last update.
`EventOf` is `convertToClientEvent`: a removal has no object. The list API filters by kind,
the watch by a prefix without a closing slash. `Connect`, `Deliver`, `Lose` and
`Disconnect` are the connections one after the other that a watch makes, each of which
begins with a list (`announce`) and goes on with the writes (`next`).

`Informer` is the goroutine of `Run`: the first list, the watch, the resyncs. Every
change goes into the store first and is told next (`notice`, `Notify`), because a
handler that registers between the two hears of it. `told[h]` is what a handler knows that keeps
the last object of each key. `joined[h]` says when `AddEventHandler` was called:
`before` the start; while `hasSynced` was not set (`listing`), in which case nothing
is replayed; `after`, with a goroutine that reads the store (`reading`) and tells what it
has read while live events go on.

`Reflector` replaces the store with each list and lists again after any trouble. The
informer makes one and never runs it; `driver` therefore says which of the two fills the
store of a behaviour.

`copyObject` of the store copies an object but for its `Phase`, a pointer that the store shares
with the handlers it has told (`informer.go:251-253`, `:299-304`). The operator of
`test/pipeline_test.go` writes through it (`:213`, `:220`) before it asks for the `Update`, which may
fail. `EditPhase` is that write: a handler that was told of what is under a key marks the key
in `edited`, from then until an operation of the store puts a new object there or takes it
away. An object is otherwise a value, the write of etcd it came with. Edits by readers of a
lister and by handlers whose client has ended are left out, as is an edit of an
object the store no longer has, which the store does not see.

### Factory

`GetInformer` and `Start` are one step each, as they run under the factory's lock;
`WaitForCacheSync` copies the map and polls. `AddEventHandler` is the way by the adapters
`NodeExecs().V1()`, which pass every call on to `GetInformer`. Of an informer only the life
of its `Run` is kept. `hears` says which informer has a handler of the caller.

### WorkQueue

Each critical section is one step. `cond.Signal` moves one waiting consumer to `woken`;
it must take the mutex again, and one that arrives meanwhile may be faster. The repository
holds no user of the queue: a consumer is the loop of `Get` and `Done` that the interface
asks for. `AddAfter` with a duration starts a timer whose goroutine adds the item or stops.

## 3. Runs

| Run | Instance | Distinct states | Question |
|---|---|---|---|
| `pipe_exec_fork` | build before test and scan; both outcomes; 2 failed calls, 1 restart; one attempt per node | 147,730 | are outcomes right and reached, does etcd end empty, is `DagExecution` implemented? |
| `pipe_exec_join` | build and test before deploy; two attempts at build; the same failures | 475,396 | does each report count once for the start of the join, whatever races, fails or is repeated; does the join start early before anything is repeated? |
| `pipe_exec_delete` | a chain, a node on no edge; two attempts at build; 1 failed call, 2 deletions | 716,371 | do deletions start a node without a report? |
| `pipe_cfg_graphs` | all graphs of up to 4 edges over 3 names, 3 node lists | 75,284 | is what is stored acyclic with in-degrees that count, and what is refused refused with reason? |
| `pipe_watch_alone` | 1 connection, buffer of 2, 4 writes, 1 failure | 2,474 | does a connection hear of every write? |
| `pipe_watch_shared` | 2 connections, buffer of 2, 2 writes, 1 failure | 1,551,526 | do streams survive connections that come and go, does a sole watch repeat or lose writes? |
| `watcher` | channel of 2, 4 lines, 2 callers of `Stop`, a context that may end | 43,112 | do `Stop` and the goroutine end, is nothing sent to a closed channel, is `LossyStream` implemented? |
| `client_cache` | 2 keys, one of a kind whose name begins with the kind asked for; channel of 1; 3 writes, faults and late handlers together; 2 seconds; 1 handler, which may write phases | 260,429 | do indices and handlers agree with the store, is it a copy of etcd but for those phases, with nothing missing once the client has caught up, the right one in the end? |
| `informer_factory` | 2 goroutines, 2 keys, 3 informers | 380,160 | one informer per key, run once, waited for? |
| `node_api` | 2 clients, 3 calls, 1 failed call | 486,091 | is what was acknowledged seen by what its client does later? |
| `work_queue` | 2 items, 3 consumers, 2 timers per item | 9,198 | is anything lost, shared, asleep or left behind? |

These runs say that the properties hold. One more says where the code departs from its
documents:

| Run | Refutes | What TLC shows |
|---|---|---|
| `pipe_exec_lost_decrement` | `JoinStarts` | two predecessors that complete together both write the same in-degree; the join never starts |

Section 5 lists the other disagreements.

**Why the bounds are enough.** A fork and a join of three nodes are the two shapes in
which goroutines meet: one completion with two successors, two completions with one. A
longer graph adds nodes that wait. A second attempt at one of two predecessors lets two
completions of one report meet each other and that of the other predecessor; the joined node
itself needs no operator for that. Two failed calls and a restart reach every pair of
failures, among them a failed put whose etcd write was applied, followed by another failure
of its repetition. For configurations, three names and four edges hold self-loops, cycles
of two and three, joins, isolated nodes, and repeated edges. For the watch server, the
buffer of 2 fills in both runs, and with two connections a stream is made, left, stopped,
joined too late and made again; a third write with two connections exceeds what TLC can do
in minutes. That every write is heard of is therefore checked over four writes with one
connection; order is checked with two and proved for any number.
The client's watch fills its channel, drops, reconnects and sends again; two callers of
`Stop` meet at the lock. In the client's cache, three writes put, change and remove a key
or write both, in one second or in two; one fault loses an event or fails a list; a channel of one
event lets a resync overtake what is buffered. Three informers are more than two keys can
have. Three calls let a client give one up, repeat it and meet another client's. In
the queue one of three consumers works, one waits and one is woken while two items move.
The channel capacities (100 in the code) are `Cap`, the only constants that were made
smaller. Where a proof covers a property, the bound does not matter.

**Deadlock** is checked everywhere. Modules whose system may really end have a step
(`Stopped`, `Ended`, `Handled`) that only an ended system may take; in the queue and the
factory there is always something a user may do.

### Fairness

* `PipeExec`: `Run`, the requests and goroutines of a running server go on. Operators
  are assumed to take up an event that nobody has taken (`FirstAttempt`), to report an outcome,
  and to repeat an `Update` that was refused, because one sent before `Run` commits finds no row
  (`service.go:471` puts the keys inside the transaction). The repetition is an assumption about
  operators, not a fact of the repository: the only one in it (`test/pipeline_test.go:214`, `:221`)
  ignores the error of `Update`, and its pipeline would stop there. A waiting row lock is freed by
  a step that is itself fair. Nothing forces failures, lost answers, second attempts, restarts
  or deletions.
* `PipeWatch` (one connection): joining goroutines and watches run on; a handler whose
  channel is closed leaves. Nobody has to connect, to read or to leave, and no write has to happen.
* `Watcher`: the goroutine runs on, as a request is answered or ended by the timeout of the
  HTTP client, and a full channel is waited for at most five seconds. A call of `Stop` goes
  on when the lock lets it; weak fairness is enough because a writer that is announced keeps new
  readers out. Nobody has to receive, to cancel or to stop.
* `ClientCache`: weak fairness for the connections and the goroutine, strong fairness for
  `Receive` and `Resync`, since Go picks at random among the ready cases of a select.
  Nobody has to write, to fail or to stop.
* `Factory`: the first list of an informer that was started is answered or fails; tickers
  tick. Nobody has to call or to cancel.
* `WorkQueue`: consumers call `Get` again and finish their work; Go's mutex starves nobody;
  a timer fires or its goroutine stops. Nobody has to add or to shut down.
* The other runs ask for safety only and assume none.

## 4. Proofs

All are checked by `tlapm` to the last leaf, with no assumption but the named `ASSUME`s
of the modules and those in the statement. Every invariant, action property and refinement
that a passing run checks is proved for all values of the constants.

* **PipeExecProofs.** Two theorems have no assumption: any graph, any attempts, failures, lost
  answers, restarts and deletions.
  - `TypeCorrect`: types, and no in-degree below 0. It needs `PositiveInDegree`: as a 0 is never
    stored, the in-degree of a node with predecessors stays positive.
  - `EventsAreCounted` (`StartsAreCounted`): the heart of `CountInv` is `Covers`: the number of
    predecessors of a node and the Ready events put for it (and one about to be put, `Debt`) are
    at most an in-degree and the completions that are past the node (`Past`). It holds of
    the in-degree in the row, of one that a completion has read, though others may have changed
    the row since, and of one about to be stored: a completion that lowers it by one gets past
    the node. A lost update makes the in-degree higher, so it costs
    reports and never saves one. A decrement that reaches 0 leaves what was in the row, at
    least 1, so each further event takes a further report.

  The others say what holds until a report is repeated (`Unrepeated`), with any failed calls,
  lost answers and restarts before that; section 5 shows what the second completion does.
  Those that compare the rows of several nodes also assume that no row is
  deleted (`MaxDeletes = 0`), and have to: when the row of the failed node is deleted after one
  completion stored the failure, the next one stores success over it (TLC refutes
  `VerdictStays` in `PipeExec_fork.cfg` with `MaxDeletes = 1`).
  - `StartsAfterReports` and `StartsInOrder` (`NoPrematureStart`), the first with any deletions and
    with the single start of each node. The heart of `IInv` is
    `RowBound`: what a row stores, and what a completion holds of it, is at least the number
    of decrements that have not begun. A lost update leaves the number too high, so a race
    delays a start and never advances it. `StartOK` adds that a node that was started has no
    decrement left, so no second one can reach 0, `ReportOK` that operators do not revive
    a node that ended, and `TakenOK` that a row leaves Ready only by the report of an operator.
    None of it asks for a row that may be gone: `EndedWell` says by the control of a node's
    operator, not by its row, that its success was reported.
  - `SuccessIsTrue` (`SuccessMeansAllSucceeded`), `EndsClean`, `EndsStay`
    (`TerminalPhaseStays`, with any deletions), `OutcomeStays` (`VerdictStays`). `OutcomeInv` adds: a
    verdict, held by a completion or stored, is what the rows say, and these are final
    (`OutcomeOK`); as long as a key is there that should go, some completion has still to
    remove it (`CleanOK`), which holds because every node's own completion begins after its
    last put (`OrderOK`). `PhaseStep` shows that a completion that writes back a stale row
    writes the phase that is there already.
  - `Implements`: every step of the server is a step of `DagExecution` or a stutter
    (`DagStep`), so start order, single start, single end and single outcome hold by refinement
    until a report is repeated; from there on `DagExecution` promises nothing (`Repeat`).
  - `TreesStart`, `SuccessStored`, `TreesComplete`. Liveness is out of the prover's reach,
    but that an execution does not stop half-way is an invariant of states in which no
    program can go on (`Quiescent`), while no call failed, no report was repeated and the server
    did not restart.
    `ProgressInv` says what is still to come: a completion that has looked up what follows
    its node still has to visit each node that waits for it alone (`Single`), is about to start
    it or has (`HandledOK`), and always reads an in-degree of 1 there (`SingleOK`); the
    roots are started before the rows are stored (`StartedOK`), and once every node succeeded
    somebody has still to look at the rows and store the success (`ConcludeOK`). So in every graph a full success is stored (`SuccessStored`),
    and in one without joins (`NoJoins`) every node is started (`TreesStart`: there
    `JoinStarts` holds, which `pipe_exec_lost_decrement` refutes with a join) and the
    pipeline completes if no node fails (`TreesComplete`: etcd is empty, too). The graph must be
    acyclic (what `PipeCfg` stores is, by `StoredGraphIsRunnable`), and its nodes on no edge sent
    with in-degree 0, which nothing but the client ensures: above 0 they are never started.
* **PipeCfgProofs.** `TypeCorrect` and `StoredGraphIsRunnable` (`CreatedIsRunnable`), for
  every finite set of names, every graph and node list. `SortInv`: each vertex counts its
  edges less its popped predecessors, what is popped has no cycle (each set of popped
  vertices has one without predecessors in the set), and `remaining` of what is popped
  or in the heap is 0. A repeated edge leaves its target above 0, so the graph is refused;
  hence in what is stored the number of edges is the number of predecessors. Of a node on no
  edge the theorem says only that a 0 stays: `Create` does not touch what its client sent.
  `RefusedForCause`: nothing of in-degree 0 is outside the heap and what was popped
  (`HeapOK`), so when the heap is empty too early, each vertex that is left has a
  predecessor that is left, or an edge twice. `OneNodePerVertex`: names that are not repeated and
  as many as the vertices are the vertices.
* **PipeWatchProofs.** `TypeCorrect`, `CurrentIsAlive`, `NoSendToClosed` and
  `StarterIsServed`, for any number of connections, any capacity, and any writes and
  failures. `IInv` adds where each goroutine may be when a stream or channel is (a channel
  is registered with its own stream only, after its list went well; what is not cancelled is
  the current stream) and, for the sole watch of a stream, that its first revision is its
  starter's list and that while it sends its starter is still to be visited or was served.
  `EachWriteOnce` (`OnceInOrder`) needs a second invariant, `OnceInv`: before it is added a channel holds its
  list at most (`ListOnly`); a watch visits added channels of its own stream only (`TodoOK`);
  and what a channel got since its list is below the revision that the sole watch sends next, or is
  sending to those it has still to visit (`SoleOrdered`). A new channel, which the range over
  the map may or may not see, has nothing but its list, so that seeing it is harmless. `SinceList` bounds what
  the starter gets from below. The list itself is left out for the other connections:
  the watch may repeat or go behind what a later list had.
* **WatcherProofs.** `TypeCorrect`, `NeverSendsToClosed` and `Implements` (`LossyStream`). What
  makes the test of `stopped` stay true until the send is that `Stop` closes only when the
  goroutine is not inside the lock; `EventOK` says that what is about to be sent is the line
  read last, which was not sent before.
* **ClientCacheProofs.** `TypeCorrect`, `StoreIsIndexed`, `HandlersFollow`,
  `LateHandlersComplete`, `StoreIsReplica` and `MissesNothing`, for any keys, any writes, lost events and
  reconnections, for informer and reflector. An index may keep nothing stale because namespace and
  kind are part of the key: the store is at any time what `Replace` would make of its items, which is
  the invariant (`ItemsOK`). `EarlyKnow` and `LateHear` say what a handler is still
  going to be told. For the refinement, `ResyncOK`: a wanted key that a resync did not list was removed
  after whatever the store holds of it, since objects in the store are never newer than
  etcd and every write is in the history (`RevisionsOK`). An edited phase is part of what
  `Replica` promises and of its limit: a key is edited only while it holds the object that was
  edited (`EditFollows`), so every operation that puts something there ends the edit.
  `MissesNothing` (`NothingMissing`) shows why a resync that works off an old list, or an event
  that waited in the channel, does no lasting harm. While no call failed and no line was lost, what
  etcd holds at a wanted key is `Coming`: the connection has still to send it, in its list or
  after it; or it is in the channel with nothing `Outdated` of its key behind it; or it
  is in the store and nothing outdated of its key is in the channel. A list that a resync
  works off may be old, but has what etcd holds if the store has it (`BatchOK`), and a
  connection sends after its list what was written after it (`AnnounceOK`).
* **FactoryProofs.** `TypeCorrect` and `TrueMeansSynced` (`WaitMeansSynced`): no two keys share an
  informer (`OneEach`), an informer was run once if its key is started and not at all
  otherwise (`StartedOK`), and what a caller holds is in the map that its wait copies
  (`HeldOK`).
* **NodeApiProofs.** `AcknowledgedSeen`: a client sends only when it has heard of its
  earlier calls or given them up (`EarlierIsOver`), an `Update` is put at most once
  (`PutOnce`), and before its client can hear that it went well (`OkIsDone`).
* **WorkQueueProofs.** The invariants of the run, that work is exclusive, and that nothing is
  stranded by a shutdown, for any items and any finite set of consumers, and `PoolImplemented`:
  each step of the queue is a step of `SharedPool` or a stutter. `NoLostWakeup` counts: while
  somebody waits, at least as many are woken as items are queued. It rests on `SignalCounts`,
  a Signal that leaves someone waiting has woken one more, and on `HeldIsProcessing`.

Only model-checked: the liveness properties, which are out of the prover's reach
(`PipelineCompletes`, `ServedHears`, `StopReturns`, `WatcherEnds`, `StoreConverges`,
`WaitEnds`, `AddedIsTaken`, `DelayedIsAdded`, `ConsumersExit`). What their
progress rests on is proved where it is an invariant: `TreesComplete`, `SuccessStored`,
`NothingMissing`, `NoLostWakeup`.

## 5. Other disagreements

The modules state some more things that the code, its comments or its logs say and the
models do not satisfy. They have no run of their own; to see one, put it in place of the
properties of the configuration named (as an INVARIANT, or as a PROPERTY where that is said).

| Property | Says | What happens | Where to see it |
|---|---|---|---|
| `PipeExec!NeverPremature` | `test/pipelines/README.md:33`: a join runs after its branches | the answer of an `Update` is lost after its completion started (`service.go:186`), the operator repeats the report, and `:184` starts a second completion: it decrements again and the join starts before its other predecessor has ended | `PipeExec_join.cfg` with `MaxFaults = 0`, `MaxCrashes = 0` |
| `PipeExec!StartedAtMostOnce` | a node runs once | the second completion reads the in-degree that stayed 1 (`:320`), puts Ready again and writes it over a row that may have ended, also beside a pipeline stored as succeeded | `PipeExec_delete.cfg` with `MaxFaults = 0`, `MaxDeletes = 0` |
| `PipeExec!FinishedWhenAllTerminal` | `service.go:268`, `:375`: the pipeline is concluded, as failed if a node failed | the completion of a failed node does nothing (`:229`); when it is the last, the pipeline stays Running | `PipeExec_fork.cfg` |
| `PipeExec!StartedHasZeroInDegree` | `service.go:338` logs "InDegree: 0 -> Ready" | the struct update at `:320` skips the zero; the row keeps 1 | `PipeExec_fork.cfg` |
| `PipeExec!CleanAfterEnd` | `service.go:383`: runtime data is deleted once the pipeline is done | a node that fails puts its key at `:174` after another's cleanup | `PipeExec_fork.cfg` |
| `PipeExec!DeleteRemovesKey` | `service.go:205`: Delete removes the node from etcd | `buildObjectKey` uses the version `*`, which no key has | `PipeExec_delete.cfg`, PROPERTY |
| `PipeCfg!RefusedIsCyclic` | `graph.go:95`: "cycle exists in this graph" | a repeated edge is counted twice (`:126`) and taken off once (`:88`) | `PipeCfg_graphs.cfg` |
| `PipeCfg!EveryCreatedIsRunnable` | `Create` computes the in-degrees (`pipe_cfg/service.go:46-48`) | those of nodes on no edge stay as the client sent them (`graph.go:130`); above 0 the node is never started and the pipeline never ends | `PipeCfg_graphs.cfg` |
| `PipeCfg!NoGraphIsRefused` | `graph.go:58-60` answers "graph is nil" | `pipe_cfg/service.go:103` dereferences the missing graph first | `PipeCfg_graphs.cfg` |
| `PipeWatch!JoinerMissesNothing` | `client_pipe/README_NEW.md:78`: resource versions avoid the loss of events | a connection that joins a running watch misses the writes between its list and its registration | `PipeWatch_shared.cfg` |
| `PipeWatch!StoppedHasNoChannels` | `server.go:90`: a stream is stopped when it has no more channels | a connection is added to a stream that was stopped meanwhile | `PipeWatch_shared.cfg` |
| `PipeWatch!OneWatchPerStream` | `server.go:44`: `watchStarted` says whether the watch was started | tested at `:135` and set at `:136` without a lock: two watches | `PipeWatch_shared.cfg` |
| `PipeWatch!UnusedIsDeleted` | `server.go:92` deletes a stream that is no longer in use | a client that leaves before its goroutine joins leaves a stream behind (`pipe_watch/service.go:19`) | `PipeWatch_alone.cfg` |
| `PipeWatch!ClosedWatchClosesChannels` | `server.go:250`: channels are closed with the watch | the send at `:249` has no receiver and blocks | `PipeWatch_alone.cfg`, PROPERTY |
| `ClientCache!UpdateHasOld` | the handler of `test/pipeline_test.go:181` uses the old object of an update | it is nil when the store did not have the key (`informer.go:257`) | `ClientCache.cfg` |
| `ClientCache!NoneOlder` | `client_pipe/README_NEW.md:83`: the data of the cache stays consistent | a resync lists a newer object than events still buffered, which set it back | `ClientCache.cfg`, PROPERTY |
| `ClientCache!NoneEdited` | `client_pipe/README_NEW.md:83`: the consistency of the cache is kept automatically | a handler writes the phase of the object that the store shares with it (`store.go:176`, `test/pipeline_test.go:213`); if its `Update` fails, the store shows a phase that etcd never held until the key comes anew, and no resync sees it (`informer.go:371`) | `ClientCache.cfg` |
| `ClientCache!SyncedIsConnected` | `informer.go:121`: synced only once the watch has its connection | `client.Watch` has only started a goroutine when `synced` is set | `ClientCache.cfg`, PROPERTY |
| `ClientCache!OnlyWanted` | an informer of a kind holds that kind | the prefix of the watch has no closing slash; kinds whose names begin alike come along | `ClientCache.cfg` |
| `ClientCache!EveryHandlerComplete` | a handler is told of what is there (`informer.go:331`) | one that registers while the first list is worked off is not told what was before | `ClientCache.cfg` |
| `Factory!WaitAlwaysEnds` | `WaitForCacheSync` waits until the informers have synced | one whose first list failed stays started (`factory.go:95`): no `Start` repeats it | `Factory.cfg`, PROPERTY |
| `NodeApi!GetFinds` | `service.go:110`: Get finds a node by its id | the key it builds has the version `*` | `NodeApi.cfg` |
| `NodeApi!RowIsKey` | the row and the key of a node hold the same | two `Update`s write the row in one order and the key in the other (`service.go:172`) | `NodeApi.cfg` |
| `NodeApi!RetryPrevails` | a repeated call comes after the one given up | the server may still be working on that one | `NodeApi.cfg` |

## 6. Not modelled

* **Permissions** (`service/pipe_perm`, `http/api/pipe_perm`): no step of it can be reached.
  The handlers bind two required path parameters of which each route has at most one, so they
  refuse every request; `NewService` leaves the field unset that `CreatePermissionItem`
  needs; the only call of `PermissionBatchCheck` is commented out in
  `service/pipe_cfg/service.go`.
* `Update` and `Delete` of pipeline configurations: single statements that no route calls. `Get` and `List` of configurations change nothing.
* `PutWithLease` of the etcd client has no caller.
* Generated data access, models, routes, start-up, logging, configuration, the clientset and
  the example: no behaviour of their own. What a query does is part of the action that makes it.
* Several executions at once: their rows and keys are disjoint (`PipeExecId`, ids in keys).
* The choice of operators by namespace and kind on the server: keys of one prefix stand for
  all. `NodeFeed` has the two kinds that one prefix confuses.
* The resource version that a client sends with a watch: the server does not read it.

## 7. What could come next

* `PipeWatch` and `Watcher` together shown to implement the connections of `NodeFeed`, in place
  of the assumptions through which they meet. One state space of them all exceeds what TLC
  can do with two connections.
* Were the code to compare the phase reported with the one stored (`service.go:184`), the theorems
  that hold until a report is repeated would hold without that limit: the place is `ReportOK`.

# Verification of nawst

nawst is a distributed key-value store in Go. This directory holds TLA+ modules
for its core, the TLC configurations that check them on small instances, and
proofs for every instance that TLAPS checks. `PROJECT.json` lists the runs, the
theorems, the source lines each definition stands for, the hazards and the
disagreements between code and comments that the runs show.

## The system

| Part | State | Operations | Hard behaviour |
|---|---|---|---|
| Store (`core/store.go`) | values, versions and tombstones per key, keys and tombstones per vnode, gauges | `Apply`, `GetWithVersion`, `GetKeysForVNode`, `SnapshotVNode`, `DeleteVNodeData` | commands in any order and repeated; three maps and five gauges in step; drops |
| Write-ahead log (`core/wal.go`) | file, write buffer, channel, `nextID`, `flushedID`, error | `Append`, `writerLoop`, `Wait`, `fail`, `Close`, `ReplayWal` | crashes between buffer, page cache and disk; failing writes; a condition variable |
| Event loop (`core/loop.go`, `sendRequest` in `core/rpc.go`) | request channel, write batch, acknowledgement channel | reads, batched writes, the enqueue fast path, the reaper | bounded channels in a chain; apply order against log order; answers after durability |
| Transfer applier and dropper (`cmd/server/main.go`) | the dropper's key list | apply an entry, drop a vnode | runs beside the event loop; partly bypasses the log |
| Replication worker (`cluster/replication_batch.go`, `ReplicateStream`) | queue, pending batch, batches in flight, stream, receivers | submit, flush, receive, stop; the peer's apply and ack | acks without a batch number; streams that break; receivers that outlive their stream |
| Quorum write path (`core/rpc.go`, `ReplicateToAll`) | entry per replica, placement and member view per node | `Put`, `Delete`, `Get` | placement changes between check and use; quorum from a changing member count |
| Migration (`ApplyPlacementFromRaft`, `transferVNodeFrom`, `TransferVNode`) | placement, migration sources, queued transfers | install, transfer, drop after a grace period | drop against transfer; tombstones of the drop; failed transfers |
| Placement FSM (`cluster/raft.go`) | placement and epoch | apply, snapshot, restore, propose | equal epochs; empty snapshots |
| Placement computation (`cluster/placement.go`, `UpdatePlacement`) | none | target counts, vnodes, replicas, hysteresis | rounding; thresholds |
| Membership (`cluster/membership.go`, `ReconcileRaftWithMembership`) | members, raft servers, dead row, debounce timer | join, leave, reconcile | lost triggers; change of leader |
| Streaming interface (`StreamKV`) | responses in flight | receive, answer, disconnect | a shared bounded channel nobody drains |
| Router (`cluster/router.go`) | placement cache, clients | route, refresh, retry | stale routes; repeated writes |

A client write goes from a handler through the event loop into store and log of
the owner, and then through one replication worker per peer into the event
loops of the replicas. The leader computes placements and commits them through
raft; every node that installs one fetches the vnodes it gained and drops those
it lost. Scores, metrics, TLS, command line tools and generated code have no
control state that the properties depend on and are left out.

Correctness, part by part: the store follows the newest version of every key
and its indexes and gauges are exact; the log never loses what `Wait` promised;
a restart rebuilds the store; every request and every replication task is
answered once, and rightly; a quorum write is on a majority and stays
there until its vnode is dropped; a migration loses nothing; epochs only grow;
every vnode always has a live owner.

## Modules

* **StoreOps**: the store's methods as operators on a store value. Each method
  holds `vNodeMu` from start to end, so each is atomic. Go maps are total
  functions; a missing entry is the zero value, and `indexed` keeps the
  difference between a nil and an empty inner map, which `SnapshotVNode` sees.
* **Store**: one store under any sequence of puts, deletes and drops, with
  versions in any order, before and after the placement is installed. The
  history variable `applied` holds the commands since the last drop.
* **Wal**: `Append`, the writer goroutine step by step, the reaper's `Wait` with
  its check and its sleep apart, process crash, power failure, disk errors,
  `Close`, restart with replay. The file is a sequence of records; `torn` says
  that it ends in a part of one.
* **DurableLog**: what the log promises, without buffers and goroutines: a log
  that grows, a durable prefix, a promise never beyond that prefix, and crashes
  that keep it.
* **EventLoop**: composes StoreOps and Wal with `EventLoop.Run`, `sendRequest`,
  the transfer applier and the dropper. `loop` says where `Run` is: a batch is
  applied (`ApplyBatch`), appended (`LoopAppend`) and handed over (`LoopAck`); on
  the fast path a write is taken (`LoopFast`), appended (`LoopAppend`), and then
  applied and answered (`LoopFastApply`), so that the dropper, which works on the
  store beside the loop, comes in between. A request stands for its command in
  the log. Versions come from a clock that goes on while the node is down.
* **BatchWorker**: the worker of one peer, its receiver goroutines, the streams
  and the peer's handler. A batch is applied at the peer in one step.
* **WritePath**: `Put`, `Delete` and `ReplicateToAll` for one key over several
  nodes, each with its own installed placement (`epoch`) and its own reading of
  the member list. `LocalWrite`, `Quorum`, `Resolve`, `TakeOk`, `TakeError` and
  `Timeout` are the steps of one call between which placements are committed and
  installed and tasks arrive. `checked` and `resolved` remember the epoch of the
  ownership check and of the targets. A replica is the newest entry it holds,
  which `LastWriterCorrect` justifies; queue, worker and peer are the set `sent`.
  Installing a placement starts the goroutine of `ApplyPlacementFromRaft` for the
  key (`jobs`): `Fetch` and `CopyEntry` for a vnode gained or a replica added,
  `DropList`, `DropVersion`, `DropDelete` and `DropErase` for a vnode lost.
  `broken` holds the streams on which a `Send` has failed: a task in flight there
  may be answered with the acknowledgement of another one (`Misattributed`).
  The history variables `appliedAt` and `dropped` remember which node applied
  which call's command, and where a drop took it.
* **MCStore, MCWal, MCEventLoop, MCBatchWorker, MCWritePath**: constants for TLC.
* **StoreProofs, WalProofs, WritePathProofs**: theorems.

Abstractions that a reader should know: `processBatch` applies its batch to the
store in one step, and so does the peer of BatchWorker; a record of the log is
one element, not bytes; the reaper and the loop answer a request without
blocking, because every response channel has room for its one answer (the
shared channel of `StreamKV` is not modelled). WritePath has one key, so a
transfer is one entry, and asks the candidates in any order; a snapshot may
leave out a delete marker there, which `store_tombstones` shows; and how a
failed stream mixes up its answers is shown in BatchWorker
(`worker_misattributed`) and only allowed in WritePath.

Definitions whose comment begins with "mutant" are deliberate errors: each takes
the place of the definition after it in a run that must then fail, which shows
that the property depends on that code.

## Runs

| Run | Shows |
|---|---|
| `store` | index, gauges, last writer wins, snapshots and version order with 3 keys, 2 vnodes, drops, explicit and zero versions |
| `wal` | fsync mode with process crashes, power failures and disk faults: file prefix, promise, refinement of DurableLog; everything appended is published; a disk error answers all waiters |
| `loop_durable` | replay rebuilds the store, and acknowledged writes survive a process crash or a power failure |
| `loop_enqueue` | the fast path with reads, transferred entries and a drop: the log is never behind the store, every request sent is answered |
| `worker` | every task is in one place or answered once, whatever breaks; while the stream holds, acks are attributed rightly and every task is answered |
| `write_path` | two calls and one placement: an acknowledged write, or a newer one, is on a majority of the replicas its handler could hope for and, when it saw all members, on every majority of the placement's nodes; a handler past its local write returns |
| `write_move` | one call while the vnode moves, with transfers, a drop and a failed stream: the same, up to the stores where a drop took the write or a failed stream's answer was counted |

`AckedOnQuorum` and `AckedOnMajority` ask for the write, or a newer one, on
stores at all times after the acknowledgement. A store without it counts only in
two cases (`InVain`), which the code brings about: a drop of the vnode took it,
or the node is behind a stream that had failed. Everything else, such as a task that was
handed over and never applied, a node that counts itself twice, or a late
arrival of an older write, would be a violation.

Five runs end in a counterexample to what a comment or document says; the
`findings` quote it:

| Run | Counterexample |
|---|---|
| `store_tombstones` | a vnode with tombstones only has an empty snapshot |
| `wal_wakeup` | the broadcast falls between check and sleep of `Wait`, and the waiter of a flushed batch sleeps on |
| `wal_torn` | a torn, never acknowledged record keeps replay from the acknowledged ones |
| `loop_blocks` | after a disk error `Append` blocks the event loop for good |
| `worker_misattributed` | after a failed `Send` the next ack is taken for a batch that was lost |

### Bounds

Three keys in two vnodes put two keys in one vnode and one in the other, so that
an index becomes empty while another does not; versions 0 (unversioned), 1 and 2
give stale, equal and newer commands; `MaxApplied` and `MaxBytes` end the
histories. In the log, channels of two batches and a buffer of one record make
every channel fill and every batch of two flush in the middle; two crashes give a
restart that appends behind recovered records and crashes again. In the event
loop two writers, batches of two and channels of one or two reach every wait of
one goroutine for another. Three tasks, batches of up to two and three streams
with one broken connection give batches in flight on a stream that breaks, on
the one after it, and a receiver left from the first. Three nodes with
replication factor 3 are the smallest group in which a majority is not
everybody; a put and a delete with versions 1 and 2 in either order give late
arrivals of an older write; nodes that see one or three members, and have or
have not installed the placement, give local-only, refused and quorum writes.
`write_path` has two calls and one placement, `write_move` one call, two
placements with different owners and one failed stream; together they would be
out of reach, and the proofs, which bound nothing, cover the combination. The
bound on the log ends the appends of `wal` and the loop runs: `FlushCatchesUp`
says that a writer publishes everything once the appends pause, not that it does
under an endless load.

Symmetry is used only in `worker_misattributed`. Deadlock checking is off where
the bounds, or a dead writer, really end a behaviour.

### Fairness

Weak fairness of the writer, the reaper, the event loop and the senders: each is
a goroutine that the Go scheduler runs when it can proceed, and the ticker
ticks. In BatchWorker also of the receivers and of the peer; `TasksAnswered`
excuses tasks after the first broken stream. In WritePath only of what a handler
does by itself after its local write (`HandlerStep`): it runs on, and its
two-second context expires; no result and no local write is assumed to come, so
that `CallsReturn` holds also for results that are never sent. Nothing is fair about callers, crashes, faults,
drops, placements or the arrival of tasks. The lost wakeup and the blocked
`Append` are counterexamples under the same fairness.

## Proofs

`StoreProofs`, for all finite sets of keys and vnodes and any versions:
`TypeCorrect`, `IndexCorrect`, `CountersCorrect`, `LastWriterCorrect`,
`VersionsCorrect`, `SnapshotCorrect`, and `ReplicasConverge`: two nodes that
apply the same commands to an empty store, each in its own order and with its
own repetitions, answer every read alike, if every command has a version and no
two commands for a key share one. The last two are about `Apply` repeated, over
a sequence and over the set of a snapshot; they rest on `Induction`, which is
derived from the well-foundedness of the natural numbers. `IndexCorrect`,
`CountersCorrect` and `SnapshotCorrect` assume that the placement is installed
before the first write, `LastWriterCorrect` and `VersionsCorrect` that or that
nothing is dropped: until then `GetVNodeForKey` answers 0, and a key written
under vnode 0 and deleted under its own vnode stays in the index of vnode 0.
The gauges need the index to be exact, because a decrement is right only if the
set it stands for had the key; the invariant carries both.

`WalProofs`, for any commands, batch sizes, capacities and numbers of crashes:
`WalTypeCorrect`, `FilePrefixCorrect`, `DurabilityCorrect` and
`RefinesDurableLog`; the last two assume a mode that protects from the crashes
that happen (`Protected`). A promise is only as good as `flushedID`, so the
inductive invariant says where every appended command is: file, buffer, rest of
the writer's batch and channel, in this order, are the log (`Contents`), ids are
log positions relative to `base` (`Positions`), the writer's id is the end of its
batch (`WriterAt`), and `flushedID` is at most what is durable (`Published`).

`WritePathProofs`, for any finite set of nodes, any calls, any placements whose
groups have at most `ReplicationFactor` nodes, any member views and any number
of epochs, drops and failed streams: `PathTypeCorrect`, `QuorumCorrect` and
`MajorityCorrect`. Counting acks says nothing by itself, so the invariant
(`PathInv`) says whose they are: the acks of a call are at most the nodes that
applied its command, or are behind a failed stream, were asked and are not
awaited any more (`AcksReal`, over `Counted`); a node that applied a command
holds it or a newer one, or a drop took it (`Accounted`); before the local write
nobody has it (`Untouched`); and the epoch of the ownership check names the
call's node as owner (`OwnerChecked`). For `MajorityCorrect` the counted nodes
lie in the placement's group, which has at most `ReplicationFactor` nodes, so they
meet every majority of it.

Only model-checked: everything in EventLoop and BatchWorker, and the liveness
properties (fairness and ENABLED are out of the prover's reach). The gauge
`valueBytes` has no property: `DeleteVNodeData` leaves it alone.

## Plan

1. **PlacementFSM**: apply, snapshot, restore and proposals; an abstract register
   of growing epochs that it implements.
2. **Migration**: install, transfer and drop with several keys, over stores of
   StoreOps, and the migration source of reads; composed with the FSM's order of
   placements.
3. **Placement**: target counts, assignment, replicas and hysteresis as functions,
   checked against their specification over small rings and node sets.
4. **Membership**, **StreamKV**, **Router** and the read path (`Get`).
5. Proofs: `ReplayRebuildsStore` and `AckedSurvive` for EventLoop on top of
   `WalProofs`, `TasksConserved` for BatchWorker, epoch order.

# TorchTPU in TLA+

A verification project for TorchTPU, the PyTorch backend for TPUs. It holds TLA+
models of the parts of TorchTPU in which several threads, processes or ranks work
on the same state, TLC configurations that check them on small instances, and
proofs, checked by TLAPS, that their safety properties hold for every instance.

Paths below are relative to the repository root; `PROJECT.json` maps every
definition to the lines it models.

## 1. The system

TorchTPU executes PyTorch operators on TPUs. An operator that is called is first
*deferred*; later a group of deferred operators is *materialized*: turned into an
MLIR module, compiled by XLA and executed. `torch.compile` regions take the same
way as one module. Around this stand:

| Component | State | Operations | Talks to |
|---|---|---|---|
| Compilation cache (`csrc/common/compilation_cache.cc`) | table key -> promise of an executable, table of bounded-dynamic entries, two modes, two thread pools, singleton | `GetOrCompile`, `EvictAll`, `SetAllowCacheMode`, `SetCacheOnlyMode`, `ShutDown`, `Restart`, the compilation and backup tasks | XLA, tiers 2 and 3, every dispatching thread |
| Tiers 2 and 3 (`tier2_`, `tier3_compilation_cache.cc`, `compilation_cache_utils.cc`) | files of executables, one lock file per key | read, lock, atomic write | other processes of the host; remote storage |
| Collective handshake (`src/torch_tpu/_internal/distributed/handshake.py`) | per-rank collective counts, request queues, round state of the coordinator | `submit`, listen loop, consensus loop, exhaustion | ranks, over ZMQ |
| Split compiler (`.../compile/split_compiler.py`) | how each region was compiled | compile, dispatch, recompile split at collectives | handshake |
| Materialization worker (`csrc/eager/materialize.cc`, `materialize_common.cc`) | materialize queue, execute queue, two threads, shutdown flag | `EnqueueNodes/Stream/Device/Executable`, the two loops, `Shutdown` | events queue, device buffers, compilation cache |
| Device buffers (`csrc/eager/device_buffer.cc`) | deferred / pending / started / error flags, a promise | `SetAsPendingMaterialization`, `SetMaterializationStarted`, `SetMaterializationError`, `Synchronize` | everything in eager mode |
| Events queue (`csrc/eager/events_queue.cc`) | per-stream logs of deferred operations, background materializations | record, `PrepareTraversals`, snapshots | dispatch threads, worker |
| Process group and window (`csrc/distributed/`) | store keys, sequence numbers, pending transfers | cross-host send/receive, uneven all-to-all, put/signal/wait_signal | c10d store, peers |
| Traversals, heuristics, streams, compiler options, cache keys, profiler | mostly thread-local or under one mutex | | |
| Operator kernels (`csrc/ops`, about 128,000 lines) | none | build MLIR for one operator each | |

What is hard:

* **Compilation cache.** A promise is set by one of up to four parties (the task,
  its backup, the caller whose module cannot be built, a task of an older
  generation of the same key), while `EvictAll` and the modes drop entries and a
  task waits on a future while it holds a file lock. It is correct if a future
  that was handed out settles and is not dropped before; if `EvictAll` evicts, and
  returns once nothing is compiled any more; if the destructor completes; and if the shared
  files are never damaged.
* **Handshake.** Ranks run ahead of each other and cut the same collectives into
  different regions. It is correct if a round compares only requests for the same
  collective, an answer TRUE is true, no executable with collectives is launched
  by some ranks only, and every `submit` returns while the counts are exact.
* **Materialization.** Dispatch threads defer ops and wait for the worker, the
  materialize thread consumes ops that dispatch threads still use, one execute
  thread runs tasks that wait for the buffers of other tasks, and shutdown races
  with enqueueing. It is correct if every promise is set exactly once, no task
  waits for one behind it, collectives are neither lost nor reordered, a
  synchronization covers what was there, and calls and shutdown return.
* **Transfers, windows, all-to-all.** Ranks meet through keys of a store that they
  derive on their own, and callbacks of parallel copies race to settle a future.
  It is correct if the slices of an uneven all-to-all fill the outputs exactly, a
  tensor arrives in the buffer that was made for it, a send reports what its
  copies did, and nobody waits for a key that never comes.

The hazards, each at its line and with the properties that would show it, are
listed in `PROJECT.json`.

## 2. Modules

| Module | What it is |
|---|---|
| `CompilationCache` | the cache with its pools, tiers, modes, eviction and shutdown |
| `ExecutableFutures` | what its users rely on: a table of futures; refined by `CompilationCache` |
| `MCCompilationCache` | requests and keys of the instances |
| `CompilationCacheProofs` | theorems about `CompilationCache` |
| `CollectiveHandshake` | handshake and the split compiler's use of it |
| `MCCollectiveHandshake` | regions and workloads of the instances |
| `HandshakeProofs` | theorems about `CollectiveHandshake` |
| `DeviceBuffers` | `DeviceBufferList`: flags, promise, creation index, liveness |
| `EventsQueue` | the events queue of a stream and the functions that cut it into traversals; extends `DeviceBuffers` |
| `Materialization` | dispatch threads and the worker; composes the two modules above |
| `BufferFutures` | what users of a buffer rely on; refined by `Materialization` |
| `MCMaterialization` | deployments of the instances |
| `EventsQueueProofs` | lemmas about `PrepareTraversals`, `SplitTraversal` and `TakeUntilNodes`: what they return for every queue, in which order, and what their traversals read |
| `MaterializationProofs`, `MaterializationServedProofs` | theorems about the queues, the calls and the buffers of `Materialization` |
| `MaterializationTraversalProofs` | theorems about what its traversals contain; extends `EventsQueueProofs` and the module above |
| `GroupStore` | ranks and the store they share |
| `UnevenAllToAll` | `all_to_all`, `all_to_all_single` and the exchange of offsets |
| `CrossHostTransfer` | descriptors, copies, callbacks, stripes |
| `ProcessGroup` | ranks that run programs of these operations; composes the three modules above |
| `MCProcessGroup` | programs of the instances |
| `TransferProofs`, `AllToAllProofs` | theorems about the transfers and the all-to-all calls of `ProcessGroup` |

Definitions whose comment begins with `Fault:` are broken versions of the operator
that follows; they are used only to show that a property can fail.

### CompilationCache

A *promise* stands for one `CacheEntry`, so that two generations of a key can be
told apart; `FreshPromise` is the one the next insertion gets. Every critical
section of `cache_mutex_` is one step. File reads and writes, compilations,
`flock` and `future::get` are steps of their own, so everything may happen between
them.

* `GetOrCompile(c, r)` is the lookup of a dispatch thread. `AdapterLookup`,
  `AdapterModule` and `BuildModule` are the rest of the call: the nested calls for
  the padding and slicing kernels, and the modules, which may fail to build.
* `StartTask` ... `WriteTier3` are the steps of a compilation task
  (`GetFromTier2OrCompile`, `GetFromTier3OrCompile`), `StartBackup` and
  `BackupCompile` those of its backup. `task[p]` names the next step of the task
  that was enqueued for promise `p`.
* `EvictSnapshot`, `EvictPass`, `EvictClear` are `EvictAll`, also when it is called
  by the destructor; `ShutDown`, `ResetCompilationPool`, `ResetBackupPool` the
  rest of the destructor. `Restart` is `ShutDown` with `restarting`.
* `PeerLock`, `PeerUnlock`, `PeerWriteTier3` are another process on the host, which
  runs the same code: it writes under the lock, and its writes may fail and delete
  the file, but it leaves a file alone that it can load.

A file is `absent`, `unreadable` (whatever a crashed or older process left) or
`valid`. A valid file is assumed to load whenever it is read. The order of the
vector of a bounded dynamic entry is not modelled: any compatible entry may be
the first. Statistics and dumps are left out.

`ShutDown` is enabled only when no call of `GetOrCompile` or `EvictAll` is in
progress. That is an assumption about the callers, which nothing in the code
enforces: `GetInstance` checks (`compilation_cache.cc:220`) only that the instance
exists, which stops calls made after the reset and not those already inside. A
failed `ABSL_CHECK` ends the process, so nothing happens after `crashed`. `torn` is a
history: `EvictAll` has cleared `bounded_dynamic_cache_` while one of its keys was in
`executable_cache_`.

### CollectiveHandshake

A rank runs a sequence of regions (`program`), each with a number of collectives.
`Submit` is `_submit_handshake` up to the send, `Receive` its return together with
what the split compiler does with the answer, `CallDirectly` a call that needs no
handshake. `Listen` is the listen loop; `GetFirst`, `GetFromRank`, `Decide` and
`Refuse` are the consensus loop at its awaits. A FIFO channel is the log of what
was sent and a cursor per reader, so "in flight", "queued" and "taken" are
intervals of one sequence. The replies of one round are appended in one step;
a rank reads its own whenever it likes, so nobody can tell. `issued` is a history
of the collectives a rank has issued and of the executable each came from.

Only the global process group handshakes (`should_handshake`), so there is one
count per rank. A graph without an executable fingerprint, which
`_maybe_handshake_and_recompile` returns early for, is not among the regions.
`WaitsForResults` says whether host code reads a region's results
before it goes on, which it can only do when all ranks have issued those
collectives.

### DeviceBuffers, EventsQueue, Materialization

A buffer is the result of one op and is named by its creation index. Its two
flags and its promise are one `state`: `deferred`, `pending`, then `ok` or
`error`. (The code sets the started flag just before the promise; the one failure
between them, of `GetSharedClient`, needs a client that is destroyed before the
worker stops, which `device_rt.cc:231-233` rules out.) `busy` are the buffers that
are materialized while the device still computes them: `IsMaterialized` is the
promise, `IsReady` the ready future of PJRT on top of it, and `DeviceFinishes` the
device. `live` are the buffers with a `c10::DataPtr`; `kind` tells constants
(`IsConstantOp`), collectives (`IsSideEffectingOp`, split on both sides) and other
ops apart.

`EventsQueue` has the queue of one stream and, as pure functions,
`TakeUntilNodes`, `PrepareTraversals` (with `ProcessDeferredOpEvent` and
`FinishTraversal`), `SplitAllMaterializationPoints` and `ApplySplitPoints`. An
event of an op without side effects is a weak reference; `Alive` computes what it
still refers to from the tensors, calls, tasks and deferred ops that exist. The
code reads this event by event while other threads run; the model reads it once for
the stretch a task takes. The futures of a stream are ready futures:
`PruneCompletedFutures` and `JoinFutures` keep a buffer until the device has
finished.

`Materialization` has one action for each critical section or wait of the code:

* a dispatch thread creates an op (`CreateOp`, `RecordOp`, `DispatchPlain` or
  `DispatchRepeated`, `MakeTensor`), drops a tensor, reads one, synchronizes the
  stream, or executes a compiled model (`ExecuteModel`, `CreateOutput`,
  `PushExecutable`); `Resume` and `AwaitBuffers` are the returns of its waits;
* the materialize thread: `DequeueMaterializationTask`, `Prepare`, one `BuildTask`
  or `FailTraversal` for each traversal (`AbortTraversal` is the failing check of
  `BuildGraphKey`), `PublishTasks`, `AnswerTask`;
* the execute thread: `DequeueExecutionTask`, one `RunTask` for each output that is
  set, `FailTask`: the error of the compilation, of the first argument in order that
  has one, of the execution, or of setting an output after others have been set;
* a read waits until its buffer is materialized, a synchronization until all of its
  snapshot is ready; `DeviceFinishes` is the device;
* `ShutDown` and the six steps that follow it.

Which sequences the repeated-ops heuristic finds is left open: any op may be the
end of one. Compilation is a future that may turn out to have failed
(`CompilationCache` models how it is set). A *deployment* says how many threads
there are, what they run, which mode the heuristic uses, whether the runtime is
shut down and how many failures occur.

### GroupStore, UnevenAllToAll, CrossHostTransfer, ProcessGroup

A rank runs a program, a sequence of all-to-all calls, sends and receives; window
operations (`Put`, `Signal`, `WaitSignal`) are sends and receives with one tag per
stripe. The store keeps what
was set. `CallAllToAll` publishes or takes the even path, `FetchOffsets` is the
return of `multiGet` with the checks and the dispatch. `ReceiveStripe` posts
descriptors, `SendStripe` finds them and starts the copies. The callback of a
copy is two steps, `CopyReturns` (the test of `completed()`) and
`CallbackSettles`, because other callbacks run between them. A wait for the store
ends by its timeout when no rank can move, or at any time as a fault
(`FetchTimesOut`, `LookupTimesOut`); copies, receives, sends and the publication of
offsets may fail as faults too. A callback that sets a complete future throws out of
a thread of PJRT, which ends the process; the model records it in `again` and goes
on, so that `SettledOnce` can see it.
`issued`, `met` and `copied` are histories for the properties. The store, the
futures of c10 and PJRT are modelled from how they are used; what devices do with
the collectives is not modelled.

## 3. Runs

| Run | Instance | Checks |
|---|---|---|
| `cache_tier1` | 2 callers, 1 evictor, 2 keys, 3 promises, both modes, shutdown and restart, no files; 164,582 states | `TypeOK`, `PendingIsCached`, `EvictedEntriesGone`, `DestroyedInOrder`, refinement `ImplementsFutures`, `EvictAllReturns` |
| `cache_tiers` | 1 key, 3 generations, all tiers, backup pool, peer process, evictor; 1.47 million states | `PendingHasSetter`, `ValidTier2NeverLost` |
| `cache_dynamic` | bounded-dynamic and static request, both adapter kernels, both modes, evictor, 4 promises; 4.78 million states | `PendingHasSetter`, `NoCheckFails` |
| `cache_live` | 2 keys, one thread per pool, all tiers, shutdown; about 326,000 states | `FuturesSettle`, `ShutDownCompletes` |
| `handshake` | 3 ranks, 3 collectives cut in 5 ways on each rank and a common last region, a loop whose region is split, or a loop on one rank that drifts from the others; 38,041 states | `TypeOK`, `ComparesSameCollective`, `AnswersTruthful`, `JointOnAllRanks`, `HandshakesAnswered` |
| `materialization` | up to 3 buffers in six deployments: one thread with ops and models (3 buffers); one with a failure and a shutdown (2); one under the aggressive heuristic (2); two threads with ops and models (2, no constants and collectives); two threads with ops (2); two threads with one op of any kind, a failure and a shutdown; 530,776 states | `TypeOK`, `PendingHasTask`, `NoTaskWaitsBehind`, `NoDeferredArgument`, `AnsweredOkIsPending`, `CallHasTask`, `QueuesDrained`, `SoloKeepsItsOp`, `EffectsKeptInOrder`, `SnapshotCoversStream`, refinement `ImplementsBufferFutures`, `BuffersSettle`, `CallsReturn`, `ShutdownReturns` |
| `process_group` | 3 ranks: all-to-all with every matrix of sizes 1 and 2 on whose path the ranks agree, two calls in a row, calls that do not fit, a chain of sends of two tensors with two faults, rings of synchronous and asynchronous sends, windows with equal and with unequal numbers of stripes; 11,146 states | `TypeOK`, `SlicesTile`, `MeetsSameCall`, `MatchedCallsSucceed`, `SendReportsTruth`, `SettledOnce`, `DeliveredToMatch`, `OperationsEnd` |

Bounds. Three promises let one key have three generations (the old one, the one
that replaces it, and one more), which every scenario about late tasks needs; two
keys let an adapter or a second request share the pools; `NumThreads` is 1 where
waiting for a thread matters and 2 where interleaving does. Three requests give
each of two callers at least one and one of them a second. Three collectives and
three ranks are the smallest instance in which one rank is behind, one in the
middle and one ahead, and in which a rank overtakes the target while it is
exhausted; the common last region lets what the exhaustion left behind be
compared once more. Sequences of regions that repeat are bounded by the program.
Three buffers are enough for an op with a reader in its own and one in a later
traversal, for a constant with two readers, and for an executable that reads the
result of an op while another task is under way. Three ranks are the smallest
group in which a prefix sum of sizes has a middle; two tensors and two faults let
two callbacks of one send race with every mixture of outcomes. Two buffers are the
least with which two threads can run an op and a model that reads it, which is where
the execute thread can block.

Deadlock is checked except in two runs in which the system really may stop:
`handshake`, where ranks that drift wait for a request that never comes, and
`materialization`, where two threads with a compiled model can block the execute
thread.

Fairness. `FairSpec` of the cache: a thread that is inside `GetOrCompile` or
`EvictAll` goes on, pools run their tasks, compilations and file operations
return, and the peer gives the lock back; new calls, mode changes and shutdowns
need not happen. The pools are FIFO work queues of running threads, and nothing
in the code can postpone a task for ever except a wait that is modelled. The
handshake: ranks run their programs, ZMQ delivers, and the coordinator's event
loop schedules its two tasks. The eager runtime: threads that are inside a call,
the two worker threads and a shutdown that has begun go on; no call has to be
made; the device finishes what was started on it. The process group: ranks run, PJRT
calls back for every copy, and the store's timeout expires when nobody can move.

### Runs that are violated

Each of these shows a behaviour of the code that contradicts a statement in it;
the details and quotations are under `findings`.

* `cache_self_wait`: a task that looks its key up after an eviction waits, with
  the tier-2 lock, for the future of a task that waits for the lock.
* `handshake_staircase`: the exhaustion waits for two ranks at once, one of which
  waits for the other's collective. With `WaitsForResults = FALSE` every
  handshake is answered while the counts agree with what was issued (`handshake`).
* `materialization_constant`: a constant that is read by an op and by a later
  collective of the same materialization is put into both traversals. The first
  one is split at the constant and consumes its op, and the cache key of the
  second aborts the process.
* `alltoall_even_rank`: a rank with equal slices takes the even path while the
  others wait for its offsets. `MatchedCallsSucceed` holds where the ranks agree
  on the path (`process_group`).
* `send_tag_reuse`: a descriptor stays in the store, and the next send with its
  tag writes to the buffer of the previous receive. `DeliveredToMatch` holds where
  a tag is used once for each peer (`process_group`).

Known limits of the properties, seen while modelling. Each is a premise or an
exception of the property, and the instances contain the behaviour unless it says
otherwise:

* An error in the adapter kernels (`compilation_cache.cc:821`) leaves an entry that
  nobody compiles; `PendingHasSetter` excepts these entries (`abandoned`).
* `EvictAll` waits for entries that are not set. One that is abandoned is never set;
  and with caching disabled and requests that never stop, each pass can find a new
  one under a key of its snapshot. `EvictAllReturns` therefore has the premise that
  from some time on no promise is unset. `cache_tier1` has no adapters and three
  requests, so its premise holds in the end; what is checked is that the loop waits
  for nothing else.
* `EvictAll` empties `executable_cache_` and `bounded_dynamic_cache_` in two critical
  sections (`compilation_cache.cc:300-341`). If it takes its snapshot of an empty
  table, a request for a dynamic key then inserts and lists its middle key, and the
  clear empties the list, then the next request for the dynamic key does not find the
  middle key in the list and inserts it a second time: the `ABSL_CHECK` at
  `compilation_cache.cc:440` ends the process. `cache_dynamic` contains this trace of
  seven states; `NoCheckFails` says that it is the only way (`crashed => torn`).
* Regions that were split are not counted any more (`split_compiler.py:428`): when
  one rank repeats a region that is split and the others run new ones, it submits no
  more and the others wait for its request. `HandshakesAnswered` has the premise that
  counts are exact and that the ranks run the same number of collectives; the run
  contains a rank with `a1, a1` against ranks with `b1, c1`.
* With two dispatch threads of which one executes compiled models, an executable
  can be pushed between the moment its argument becomes pending and the moment
  the task of that argument is published (`materialize.cc:644`); the execute
  thread then waits for a task behind the one it runs, for ever. `NoTaskWaitsBehind`,
  `BuffersSettle`, `CallsReturn` and `ShutdownReturns` have the premise `InOrder`
  (one thread, or no compiled models). The run has such a pair of threads, without
  a shutdown, for the other properties; with `InOrder == TRUE` TLC finds the hang in
  it.
* A second thread that synchronizes the stream between the recording of an op and
  the heuristic makes the check at `repeated_ops_heuristic.cc:199` fail;
  `SoloKeepsItsOp` is about one thread.
* Two failing copies of one send can both pass the test of `completed()`; the
  second `setError` throws in a thread of PJRT. `SettledOnce` excepts them.
* Ranks that all send before they receive wait for each other until the store
  times out (`window_tpu.h:153` documents it), and so do a put and a wait_signal that
  are striped differently. Both are in `process_group`, where they end
  (`OperationsEnd`); `MatchedCallsSucceed` has the premise `Sequenced`, that no
  operations wait for each other in a ring.

Also seen, without a run: the comment at `compilation_cache.cc:884` says that
`EvictAll` sets futures to a failed state, which it does not; with caching
disabled a lookup creates an entry even in cache-only mode
(`compilation_cache.cc:488-497`); tier-3 writes are not under any lock, so a
write that fails can delete a peer's valid tier-3 file, and no property is
claimed for tier 3.

## 4. Proofs

All theorems hold for arbitrary constants that satisfy the named assumptions of
the modules (distinctness of `None` and `Peer`, types of the parameters, backup
only with tier 3 and tier 3 only with tier 2; at least one rank, at least one
collective per region; dispatch threads that are not called `none`; at least two
ranks in a process group, programs with sizes, tags and counts in range, and an
answer for an unset key of the store that is no payload, `AbsentAssumption`).

| Theorem | Says | Argument |
|---|---|---|
| `TypeCorrect` | `[]TypeOK` | with the fact that a call or task past its insertion has a key and a promise |
| `PendingFuturesAreServed` | `[]PendingHasSetter`, `[]PendingIsCached` | inductive invariant `PendInv`: an unset promise is cached under its key (so `SetExecutable` by key finds it), and `BackupDue` says that a task which went past tier 3 without compiling has a backup that is still due or the promise is set |
| `PendingFuturesStayCached` | `[]PendingIsCached` | the first half of `PendInv` |
| `CacheImplementsFutures` | the cache refines `ExecutableFutures` | every step is an insertion, a settling, a drop of settled entries or a stutter; needs `PendingIsCached` |
| `Tier2FilesSurvive` | `ValidTier2NeverLost` | invariant `LockInv`: who writes holds the lock of the key, and the file has not been valid since it looked under the lock |
| `EvictAllEvicts` | `[]EvictedEntriesGone` | invariant `Tracks`: an entry of the snapshot that is still cached has its key in the set the loop still has to visit |
| `DestructionIsOrderly` | `[]DestroyedInOrder` | invariant `Destroying`: which pools are drained in which phase |
| `InsertionsAreNew` | `[]NoCheckFails` if `MiddleKeysApart` | invariant `MiddlesListed`: unless `torn`, a middle key that is cached is listed in `bounded_dynamic_cache_`, so the search of that list finds it before a second insertion |
| `HandshakeTypeCorrect` | `[]TypeOK` of the handshake | invariant `Inv` below |
| `RoundsAreAligned` | `[]ComparesSameCollective` | requests of a rank are contiguous (`Contiguous`), and between rounds the last request taken from every rank ended at `target` (`Served`, which also says how far a round or an exhaustion is from that) |
| `SubmitIsTruthful` | `[]AnswersTruthful` | `Served` fixes which request an answer is for |
| `JointExecutablesMeet` | `[](CountsExact => JointOnAllRanks)` | invariant `JointInv`: what a rank issued from a joint region is what its TRUE request announced, and `AnswersTruthful` makes the requests of all ranks equal at that count |
| `HandshakesKeepCount` | `[](RegionsDistinct \/ NobodySplit => CountsExact)` | every region is counted by the `Submit` that precedes it unless it was split before |
| `MaterializationTypeCorrect` | `[]TypeOK` of the runtime | with the type of calls; traversals under construction are left untyped, what a task takes from them is intersected with `Buffers` |
| `ShutdownDrainsQueues` | `[]QueuesDrained` | invariant `Life`: no sentinel before its push, then exactly one, the last of its queue, until the thread has stopped and the queue is empty |
| `CallsAreServed` | `[]CallHasTask` | inductive together with `Life`, which rules out that the shutdown answers a call that the worker answers as well |
| `PendingBuffersAreServed` | `[]PendingHasTask` | invariant `ServedInv`: the pending buffers are the outputs of the running, queued and built tasks and of the calls about to push, all of which are disjoint; indices from `next` on are unborn; the arguments of an executable have left the deferred state |
| `RuntimeImplementsBufferFutures` | the runtime refines `BufferFutures` | every step creates one promise, sets a set of unset ones, closes, or stutters (the device's step does); `ServedInv` says that outputs of tasks are unset, `Life` that nothing runs once it is closed |
| `SoloThreadKeepsItsOp` | `[]SoloKeepsItsOp` | invariant `Callers`: a thread that dispatches alone and does not wait finds the materialize thread at rest with an empty queue, so nobody can take its op |
| `TasksRunInOrder` | `[]NoTaskWaitsBehind` | invariant `Queued`: the arguments of each task are settled or owned by a task in front of it (`Forward`), in the queue of the execute thread, in the batch under construction and across the two; the batch is empty while a lone thread pushes an executable |
| `AnsweredCallsFindTheirNodes` | `[]AnsweredOkIsPending` | invariant `Tracking`: a deferred op that is alive is in `deferredOps`, in the stretch that is being prepared or in the outputs of a traversal still to be built (`Tracked`), and a node somebody asked for has been consumed, is an output of the plan, or has its task still to come (`Asked`); see below |
| `SynchronizationCoversStream` | `SnapshotCoversStream` | the same invariant: after the plan of a synchronization nothing that was recorded before it is deferred, and what is pending, or materialized and still on the device, is among the futures of the stream (`InFlight`) |
| `CollectivesKeepTheirOrder` | `[]EffectsKeptInOrder` | invariant `EffectsRise`: the collectives of the running task, of the queued tasks, of the batch, of the plan and of the queue are in this order of their creation, and all older than the op that is being recorded; none is lost by `Tracked` |
| `ArgumentsAreNeverDeferred` | `[]NoDeferredArgument` | invariant `ClosedInv`: what a recorded op reads has left the deferred state, is recorded too, or is an output of the plan (`QueueClosed`), and what a traversal of the plan reads is an output of an earlier one (`PlanClosed`); see below |
| `SendsSettleOnce` | `[]SettledOnce` | invariant `IInv`: the counter of an incomplete send is the number of its open copies, and an error leaves it too high for a success to be the last |
| `SendsReportTruth` | `[]SendReportsTruth` | the same invariant |
| `DeliveriesMatch` | `[](TagsDistinct => DeliveredToMatch)` | invariant `FitInv`: a posted descriptor, a copy under way and a delivery belong to a send and a receive with the same ranks, tag and index |
| `ProcessGroupTypeCorrect` | `[]TypeOK` of the process group | `IInv` with `AllToAllInv`; needs that prefix sums of sizes stay below `NumRanks * MaxSize` |
| `OffsetsOfSameCall` | `[](PathsAgree => MeetsSameCall)` | invariant `AllToAllInv`: what is published under number `k` is the payload of the rank's `k`-th uneven call; with agreeing paths the `k`-th uneven call is the same call on all ranks |
| `SlicesFillOutputs` | `[](PathsAgree => SlicesTile)` | a dispatched call has the offsets its peers computed, and the sizes passed the check of every sender; prefix sums tile an interval |
| `MatchedAllToAllSucceeds` | `[](OnlyAllToAll /\ PathsAgree => MatchedCallsSucceed)` | the sizes checked are those of the same call, so no check fails; a rank that is behind all others can always move, so the store's timeout never expires |

Hypotheses. Each one excludes a behaviour of the code that really breaks the
property, and each is met by passing runs.

* `PathsAgree`: all ranks take the even path of a call or none does. The code lets
  each rank decide by its own sizes; `alltoall_even_rank` shows what happens.
* `OnlyAllToAll`: sends block until their receives are posted, so a program that
  mixes them with all-to-all calls can wait in a circle.
* `TagsDistinct`: no tag is used twice between two ranks; `send_tag_reuse` shows
  what happens otherwise.
* `CountsExact`: see `HandshakesKeepCount`. A region that was split and runs again
  is not counted, and `JointOnAllRanks` can then fail.
* `Solo` and `InOrder`: one dispatch thread; one dispatch thread or no compiled
  models. They are part of the properties, see the known limits above.
* `MiddleKeysApart`: the bounds of a request accept its own shapes, and a middle
  key is not also the key of a plain request or of an adapter kernel.

Facts about prefix sums need an induction over the ranks, which the provers cannot
take from the library. They are proved from the recursion equation and the least
number at which a fact would fail.

What `PrepareTraversals` computes is proved in the same way, along its loops, which
`EventsQueue` writes as recursive functions over the length of the stretch or of the
execution order. `Sound` says what the working memory of the loop holds after each
event: every op that was passed is in an execution order, and each order has as
outputs what is wanted, has a tensor or would otherwise not be executed.
`PreparedCovers` draws the conclusion that every wanted or live op of a stretch, and
every wanted constant, is an output of a traversal. `Points` and `SplitCovers` say
that cutting a traversal at its materialization points loses no node: what is not a
point is not read beyond the next point (`NotReadBeyond`), and the last node of an
order is a point. `PlanCovers` carries this over to the flattened plan, and
`TakenIsPrefix` relates the stretch to the queue.

The order of the collectives needs more about the same loops: an execution order
mentions no node twice, what is not a constant is younger than all nodes in front of
it (`Ranked`), and younger than the nodes of earlier traversals (`Ahead`). `Chained`
is the invariant of the loop over the events, and cutting an order keeps it. It holds
because the stretch is sorted by creation (`Climbs`), which a second dispatching
thread could break: hence the premise `Solo` of the property.

That no argument is deferred is a fact about what is read across a cut, and combines
all of the above.

* *Inside a plan.* A deferred op is read by no op younger than its `lastChild`
  (`Children`), so an op that is read behind the next point of its order is a point
  itself (`ReadPoint`, `SplitArgs`). `Sealed` is the invariant of the loop over the
  events: an op of an order reads ops in front of it or of an earlier traversal, and
  the last op of an order that is not a constant is an output (`Anchored`), so that
  something is a point behind every op. `PreparedFits` and `PlanArgs` draw the
  conclusion for the whole plan, which is `PlanClosed` when the plan is made.
* *Between plans.* `PrepareTraversals` drops an event that is not alive, and an op
  recorded later must not read it. `QueueClosed` says that the buffers that can still
  be referred to (`Root`: live tensors, outputs of calls, what is no longer deferred,
  recorded collectives) lie in a set that is closed under inputs, and that the
  recorded events in this set read only what is no longer deferred, constants, what
  is recorded and what the plan outputs. The set is chosen anew when a plan is made:
  it is then the buffers that `PrepareTraversals` takes for alive. That the arguments
  and outputs the tasks hold are no exception is where `Queued` and `ServedInv` are
  used; that the queue is sorted is `EffectsInv`.
* *Dispatch.* A new op reads live tensors (`RecordReads`), which are roots. With a
  second thread a tensor could be dropped and its op prepared away between the two
  steps of a dispatch: hence the premise `Solo`.

Only model-checked: the liveness properties, as fairness is out of the prover's reach.
Every invariant and every action property of the passing runs is a theorem.

## 5. Not modelled

* XLA, PJRT and the operator kernels: `csrc/ops` is most of the repository's code
  and builds MLIR, one function per operator, without state of its own. The other
  collectives of the process group are such functions too.
* Eager runtime: placeholders and tracing, donation, pinned host memory, dynamic
  dimensions, ops with several outputs, `kDeferNever`, several streams and
  devices, host transfers, a second caller of `Shutdown`, which patterns the
  repeated-ops heuristic finds, errors of `PrepareTraversals` itself.
* Process group: the constructor's exchange of device ids and subgroups, groups of
  one rank, local DMA of windows, lifetimes of `Work` objects.
* Cache: paths, serialization, statistics and dumps; cache keys and compiler
  options (pure functions).
* Handshake: ports, sockets and the event-loop thread, timeouts (they raise out of
  user code; a late answer would be read by the next `submit`), the splitting of
  graphs.
* Profiler and logging.

## 6. Plan

1. Done: `CompilationCache` with its abstraction and proofs; `CollectiveHandshake`
   with its proofs; `Materialization` on `EventsQueue` and `DeviceBuffers` with its
   abstraction and proofs; `ProcessGroup` on `UnevenAllToAll` and
   `CrossHostTransfer` with their proofs.
2. To model: handshake timeouts and shutdown; several streams in `EventsQueue`;
   option merging (`compilation.cc`) and dimension keys (`cache_key.cc`) as
   operators checked against reference definitions.

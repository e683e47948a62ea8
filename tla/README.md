# A verification project for PMTest

PMTest tests programs for persistent memory.  The program under test records
its stores, flushes, fences, transactions and queries in a *trace*; a pool of
worker threads takes the traces and runs the *checking engine* on each, which
prints an error where the trace does not guarantee what the program claims.
A kernel module is tested by way of a FIFO that a client process reads.  The
repository also carries the program PMTest is applied to, an instrumented copy
of PMDK under `nvml/`; two of its crash-consistency algorithms, the block
translation table of libpmemblk and the transactions of libpmemobj, are
modelled as well.  This directory holds the TLA+ models, the TLC runs that
check them on small instances, and proofs that TLAPS checks.

Paths below are relative to the root of the repository.

## The system and what is modelled

| part | source | module | state |
|---|---|---|---|
| worker pool, class `PMTest` | `src/pmtest.cc:43-241`, `include/pmtest.hh` | `VeriPool` | modelled, safety and refinement proved |
| recording and section API `C_*` | `src/pmtest.cc:655-942, 981-1024` | `TraceApi` | one recording thread; proved |
| `FastVector` | `include/common.hh:37-138` | `TraceApi` | in part |
| what the pool promises | | `TestService` | abstract specification |
| checking engine, `VeriProc` and `VeriProc_*` | `src/pmtest.cc:243-653` | `VeriProc` | modelled, proved |
| trace records and their meaning | `include/pmtest.hh:27-49`, `src/README.md` | `TraceSemantics` | modelled |
| kernel module, FIFO and device | `src/kernel_module.c` | `KernelFifo` | in part, safety proved |
| kernel client | `src/kernel_client.cc` | `KernelFifo` | in part |
| libpmemblk: block translation table, lanes | `nvml/src/libpmemblk/btt.c`, `blk.c` | `Btt` | in part; safety and refinement proved |
| what libpmemblk promises | | `BlockDevice` | abstract specification |
| libpmemobj: transactions, undo logs, redo log | `nvml/src/libpmemobj/tx.c`, `pvector.c`, `redo.c`, `memops.c`, `pmalloc.c` | `Tx` | in part |
| what libpmemobj promises | | `TransactionalStore` | abstract specification |

`MC*` modules hold the values of constants for TLC, `*Proofs` modules (and
`VeriPoolTypes`, `BttInvariant`, `BttRefinement`) the theorems.  `PROJECT.json` maps each
definition to the lines it models.

The parts interact as follows.  A thread records into its own trace and hands
it to `execVeri`, which puts it into the queue of the next worker, round robin.
The worker runs `VeriProc` on it, alone: the engine shares no state with other
threads.  That is why the engine is a sequential model of its own, and why the
pool treats a run of the engine as one step (`RunVeriProc`).  `getVeri` waits
until all workers have emptied their queues and merges the results; its callers
free the traces afterwards.  `TraceApi` extends `VeriPool` with these callers,
so that recording, submitting, testing and freeing are one system.

## `VeriPool`: the worker pool

One variable per shared field: the three atomic flags of each `WorkerInfo`,
the queues, the mutex holders, the results of each trace, counted, `assignTo`; control and
locals per client and per worker; and three history variables (`sent`,
`tested`, `due`).

The granularity is that of the code.  Each load and each store of an atomic is
a step, each iteration of each loop over the workers is a step, and `assignTo`,
an unprotected `int` that `execVeri` reads four times and writes once, is read
by four steps and written by a fifth.  Taking a mutex is a step with the guard
that it is free.  A loop that only locks a mutex, notifies and unlocks
(`getVeri`, `termVeri`) does so in one step, since nothing else happens inside
the critical section.  `wait` is the control point `blocked`; `notify` moves a
blocked worker to the point where it takes its mutex again; `SpuriousWake` is
the wake-up without a notification that the C++ standard allows.

| actions | code |
|---|---|
| `CreateWorker`, `ClearTerm`, `ClearGet`, `ClearDone` | `initVeri` |
| `ExecCall` ... `ExecStore` | `execVeri` |
| `GetCall` ... `GetReset` | `getVeri` |
| `TermCall` ... `TermJoin` | `~PMTest`, `termVeri` |
| `Spin`, `Lock`, `While*`, `If*`, `Complete`, `RunVeriProc`, `PushResult` | `VeriWorker` |

`HeapContents` is what the memory of a `WorkerInfo` may hold when the
constructor starts: the atomics have no initializer, and the threads that read
them are started before the loops that assign them.  `CleanHeap` is zeroed
memory, or memory with `termSignal` set, which is what a destroyed instance
leaves behind.  The contents of a result are abstracted to a count.

## `TraceApi`: a trace from its creation to its deletion

A program uses the C interface in one of two ways, and the variable `api` says
in which.  With `"sections"`, as `src/test.cc`, `C_initVeri` creates all
traces, `C_sendTrace` submits one after the other and `C_exitVeri` deletes
them.  With `"vectors"`, as the instrumented `data_store.c`, the program
creates, submits and deletes each trace by a call of its own, and another
thread may collect.

| actions | code |
|---|---|
| `CreateVectors` | the loop of `C_initVeri`; calls of `C_createMetadataVector` after `C_initThread` |
| `C_getNewMetadataPtr`, `C_sendTrace`, `C_execVeri`, `C_getVeri`, `C_deleteMetadataVector`, `C_exitVeri`, `C_deleteVeriInstance` | the functions of these names |
| `PMTest_START`, `PMTest_END` | setting and clearing `existVeriInstance` |
| `C_createMetadata` | the `C_createMetadata_*` functions and `FastVector::push_back` |
| `PoolStep` | any step inside the pool, from `VeriPool` |

The calls that enter the pool are the pool's own actions (`ExecCall`,
`GetCall`, `TermCall`) with what the interface does around them.  What
`C_sendTrace` does to the index and to `metadataPtr` after `execVeri` is in the
step of the call: both variables are thread-local.  The modelled programs
record what they have to record in a trace before they submit it, and call
`getVeri` before they exit, as the programs in the repository do.  Facts of the
code that no property is about: `C_exitVeri` leaks the records and
`C_deleteMetadataVector` the vectors; after the last section `metadataPtr` is
null, and a program that goes on recording dereferences it;
`metadataVectorPtr` is a `FastVector` in `C_initVeri` and an array in
`C_getNewMetadataPtr`, so that one program cannot use both.

`TestService` is what the pool promises: a set of submitted and a set of
tested traces; a client that asks for results goes on only when what was
submitted before has been tested; the service closes when nothing is left.
`ServesTraces` says that the pool implements it, with `sent`, `due` and the
control of the destructor as refinement mapping.

## `TraceSemantics` and `VeriProc`: the checking engine

`TraceSemantics` says what a trace means without running anything: which
addresses are excluded at a position, whether an address is *durable* there (each
store to it is followed by a flush that a fence follows), *pending* (what the
engine computes: a store that no flush follows, other than one in the tail),
whether the last store to one address is durable before that to another,
transaction depth, and what has been logged.

`VeriProc` runs the engine on one trace, record by record.  Boost's interval
sets are sets of addresses, and interval maps functions on such sets;
`find(interval)` succeeds if any address of the interval is in the set.  The
code cuts the trace into frames at the fences and runs the same switch over
each; the effect is that each record is processed once, in order, and that a
flush after the last fence is ignored (`InTail`).  `TransactionEnd` overwrites
the types of earlier records in place, as the code does: `veriptr` is the
engine's trace and the history variable `given` the submitted one.

| action | code |
|---|---|
| `Assign`, `Flush`, `Fence`, `Persist`, `Order` | `VeriProc_Assign` ... `VeriProc_Order` |
| `TransactionBegin`, `TransactionEnd`, `TransactionAdd` | the functions of these names |
| `Exclude`, `Include` | the functions of these names |
| `Unprocessed` | the default of the switch |
| `Finish` | the test of `transactionCount` at the end |

Two forms of the same code were merged.  With `PMTEST_WARN` the subtraction in
`VeriProc_Flush` is under the `else` of the warning, without it unconditional:
subtracting a range that does not overlap changes nothing, so `Flushed` serves
both.

## `KernelFifo`: testing a kernel module

The kernel code under test calls `kC_createMetadata_*`, which all end in
`PMTestFifoWrite`: put the record if there is room, and if the FIFO is full then,
raise `asleep` and wait until `KFIFO_THRESHOLD_LEN` entries are free.  The client
reads one record per `read()`; `PMTestDeviceRead` wakes the writer if `asleep` is
set and there is room, and then clears `asleep`.  The client cuts the stream at
`TRANSACTIONDELIM`, submits each trace and leaves at `ENDING`.

| actions | code |
|---|---|
| `Start`, `End` | the program under test sets and clears `existVeriInstance` |
| `Create` | `kC_createMetadata_*` |
| `TestAvail`, `Put`, `TestFull`, `SetAsleep`, `Wait`, `Sleep`, `Interrupt` | `PMTestFifoWrite` |
| `Copy`, `TestAsleep`, `TestRoom`, `WakeUp`, `ClearAsleep` | `PMTestDeviceRead` |
| `Poll`, `Collect`, `Submit`, `Leave` | `read_transaction` and the loop of `main` |

Each access to `asleep` or to the fill level is a step.
`wait_event_interruptible` is modelled by what the kernel's macro does: test the
condition, enter the queue, test again, sleep; a signal ends the wait, and the
code ignores its result.  There is one writer, since a kfifo without a lock is
safe only for one.

## `Btt`: the block translation table

A libpmemblk pool maps each block the caller sees to an internal block.  A
write goes to the free block of its *lane*, is then logged in the lane's pair of
*flog* entries, and last put into the map; the block it replaces becomes the
lane's free block.  Reads take no lock on the map: a reader announces the block
it is about to copy in the read tracking table (`rtt`), looks at the map again,
and a writer waits until nobody reads from its free block.  When a pool is
opened, each flog whose update has not reached the map is completed.

| actions | code |
|---|---|
| `Call`, `lane_enter`, `lane_exit` | `pmemblk_read`, `_write`, `_set_zero`, `_set_error`, lanes |
| `EnterRead` (in `lane_enter`), `SetRtt`, `Reread`, `ReadBegin`, `ReadEnd` | `btt_read` |
| `EnterChange` (in `lane_enter`), `LayoutLock`, `ZeroMap`, `WriteFlogs`, `WriteInfo`, `ReadArenas`, `StartLaidOut` | the first write of a pool, `write_layout`, `read_arenas` |
| `Scan`, `WriteBegin`, `WriteEnd`, `MapLock`, `FlogOld`, `FlogNew`, `MapStore`, `MapUnlock` | `btt_write`, `map_entry_setf`, `map_lock`, `flog_update`, `map_unlock` |
| `Crash`, `Close`, `Open`, `ReadFlogPair` | power failure, `btt_fini`, `btt_init`, `read_flog_pair` |

A store of at most eight bytes is one step; a block is written and read in two,
so that torn contents show (`Torn`).  Only a map entry can be read by others
before it is drained, so only the map has a durable (`map`) and a visible copy
(`mapped`); a crash keeps any subset of the entries not drained.  The sequence
numbers of a flog pair run 1, 2, 3, 1, as in the code.  Not modelled: more than
one arena, failing callbacks, read-only pools and invalid block numbers
(early returns without effect), the order of the two info blocks, `btt_check`.
The pool assigns lanes by a counter modulo the number of lanes, as the code does.

`BlockDevice` is what the pool promises: requests are atomic, and each block has
the contents that reads see and the contents that a crash keeps; a request that
changes a block changes each of the two once, in any order, and returns after
both.  `AtomicDevice` is the refinement: `seen` is the visible map followed to
the data, `kept` what recovery would make of the media now.

## `Tx`: the transactions of libpmemobj

One lane: the four undo logs (allocated objects, snapshots, freed objects,
caches of small snapshots) are persistent vectors whose arrays are allocated from the same heap
they log; the allocator changes the heap and a vector entry together by a redo
log.  The variable `todo` is the stack of functions still to run: a call of the
program puts the functions it consists of on it, each action runs the function
on top, and may put others there.  A failing call replaces the stack by the
abort, as the `longjmp` of the code does.

| actions | code |
|---|---|
| `pmemobj_tx_*`, `Store`, `tx_free`, `set_free_entry` | the calls a program makes, `tx.c` |
| `pmemobj_tx_add_common`, `add_range`, `pmemobj_tx_add_small`, `set_range`, `ctree_insert` | snapshots, `tx.c` |
| `tx_pre_commit`, `tx_set_state`, `tx_post_commit_set`, `tx_abort_set`, `tx_restore_range`, `tx_clear_undo_log` | commit and abort, `tx.c` |
| `pvector_init`, `pvector_push_back`, `pvector_pop_back`, `popped` | `pvector.c` |
| `pmalloc_construct`, `pfree`, `redo_log_process` | `pmalloc.c`, `memops.c`, `redo.c` |
| `Crash`, `redo_log_recover`, `lane_transaction_recovery`, `tx_destroy_undo_runtime` | power failure, `lane.c`, `tx.c` |

A store that is persisted at once is one step.  The words of the program stay
unflushed for longer: `durable` holds, of each word, every value a crash may
leave.  Abstractions: blocks of one size, the lowest free one taken first; a
program stores only to what it added or allocated; the constructor of an
allocation and the finish flag of its redo log are one step, since nothing
refers to the block before; `memcpy_persist` of one object is one step;
`undo_entry_offset` counts as persisted; locks held by a transaction, and a
failing `Malloc` other than that of a tree node, are left out.

A small snapshot takes three stores: `set_range` stores the data, which is
persisted before the rest, then the size and the offset, which are persisted
together and so may reach the media in either order.  A crash may come after each.
The words of the root object start as `RootValue`, which is not 0: a slot whose
data is missing then restores something else than what was there.  An insertion
into the range tree may fail for want of a node, for the kinds of ranges in
`FailingInserts`: a snapshot just taken (`"range"`), or an object just allocated
(`"object"`).  `err_oom` is what the caller does then.

`tx_crash` has `FailingInserts = {"range"}`, and its properties need that bound.  If
there is no node for an object just allocated, `tx_alloc_common` pops its entry
without a callback (`tx.c:1032`): the count of the log goes down, the entry and the
object stay on media.  The abort goes by the count and sees neither, so that the
transaction ends with an undo log that is not clear, though the comment at
`tx.c:1379` says it should be; the next allocation in the lane overwrites the entry,
and nothing refers to the object any more.  With `FailingInserts = {"range",
"object"}` in `MCTx_crash.cfg` TLC shows this as a violation of `LogsClear`.

`TransactionalStore` is what libpmemobj promises: a store that changes only
when an outermost transaction commits, to what the transaction made of it.
`AtomicTransactions` is the refinement; its `store` is computed from the media
alone: what the recovery would leave if the system stopped now.

## What the runs check

| run | properties | instance | result |
|---|---|---|---|
| `traces` | `TypeOK`, `ResultAfterTested`, `ResultsComplete`, `NoQueueRace`, `NoLostTrace`, `NoLostTerm`, `ApiTypeOK`, `TestedAsPassed`, `RecordsKept`, `ServesTraces` | 2 workers; 3 traces by sections or 2 by vectors, of 2 records; one recording thread, the main one or, by vectors, also a helper; 2 calls of `getVeri`; vectors of initial size 1 | hold |
| `pool_liveness` | `GetVeriReturns`, `DestructorReturns`, `EveryTraceTested` | 2 workers, 2 traces, 2 rounds, fair | hold |
| `pool_uninitialized` | `ResultAfterTested` | any memory contents at the start | violated |
| `pool_exit_at_once` | `DestructorReturns` | no `getVeri` before the destructor | violated |
| `engine` | `TypeOK`, `PersistInfoExact`, `PersistErrorsReal`, `PersistSoundIfSettled`, `FlushWarningsReal`, `OrderExact`, `TransactionEndSound`, `AssignErrorExact`, `UnclosedReported`, `EmptyIgnored` | all traces of up to 5 (persistence), 6 (ordering, transactions), 3 (empty ranges of every type, types that are not handled) records | hold |
| `engine_persist_unfenced` | `PersistSound` | traces of up to 4 records | violated |
| `engine_unlogged_store` | `LoggedInTransaction` | traces of up to 3 records | violated |
| `kernel_fifo` | `TypeOK`, `Delivered`, `DropsOnlyAfterSignal`, `FlagWakes`, `EndingEnds` | FIFO of 4, threshold 2, 7 records, signals | hold |
| `kernel_lost_wakeup` | `WriteReturns` | the same, 6 records, no signals | violated |
| `tx_crash` | `TypeOK`, `RecoveryExact`, `HeapAccounted`, `LogsClear`, `RangesDisjoint`, `AtomicTransactions`, `CallsReturn` | 3 words, 4 heap blocks, caches of 2 ranges, vectors of 1+2 entries, nesting 2, 13 programs, 2 crashes; the tree may have no node for a snapshot | hold |
| `btt_atomic` | `TypeOK`, `BlocksAccounted`, `FlogsReadable`, `WritesUnread`, `AtomicDevice` | 3 threads, 2 blocks, 2 lanes, 3 workloads, 1 crash | hold |
| `btt_overtaken` | `RequestsReturn` | 2 threads, fair, no crash | violated |

**Bounds.**  Two workers are the least number for which round robin, the
counting loop of `getVeri` and a worker that is ahead of another exist.  Three
traces give one worker two.  Two rounds of `getVeri` are needed for a flag left
over from the first to do harm in the second.  A vector of initial size 1 grows
at its second record.  Traces use the addresses 0 and 1, with ranges of one and
of two bytes, so that overlap in part, containment and disjointness all occur;
five or six records are enough for store-flush-fence-query with something in
between, and for two nested or two successive transactions.  `INT_MAX` is 100
and no trace comes near it.  A FIFO of 4 with threshold 2 can be filled again
while the reader is still in the call that woke the writer, and 7 records fill
it, wait and overflow.  Two crashes reach a crash during the recovery from a
crash.  Vectors of 1+2 entries make a log grow inside a transaction.  Two lanes
and two blocks let a lane's free block be the one another thread is reading;
the workloads of `btt_atomic` write the first layout from two threads, change
one block from two threads, and reuse a block while it is read.  Traces are
symmetric in `traces`; the runs with liveness use no symmetry.

**Fairness.**  Each thread inside the library is weakly fair: the operating
system schedules it.  Taking a mutex is strongly fair, since the mutex of a
worker that polls is free again and again but not all the time; no `std::mutex`
implementation starves a waiter forever in practice, though the standard does
not promise it.  Whether a client makes another call is up to the client.
`SpuriousWake` is not fair: nothing relies on it.  In `KernelFifo` the writer
inside `PMTestFifoWrite` and the polling client are weakly fair; signals and
further records are not.  In `Tx` the functions on `todo` are run (weak fairness
of `Step`): the code is sequential; crashes are not fair.  In `Btt` each thread
inside a request is weakly fair.

**What the violations show.**

* `pool_uninitialized`: a worker started on memory in which
  `getResultSignal` happens to be set can store `completedStateMap = true`
  after the constructor has cleared it.  The first `getVeri` then returns while a
  trace is still in the queue, and its caller frees that trace.  `README.md:45`
  promises that it blocks "until all existing traces have been tested".
* `pool_exit_at_once`: a worker spins at its start while `termSignal` is set.
  If the destructor raises the signal before a worker has passed that loop, `join`
  never returns.  A `getVeri` before the destructor rules this out, because it
  waits for every worker.
* `engine_persist_unfenced`: store, flush, isPersist, fence: the query is
  silent although the flush is not complete yet.  `src/README.md:23-26` says that
  a range is removed only once a fence makes sure of the flush.
  `PersistSoundIfSettled` is what does hold.
* `engine_unlogged_store`: a store of two bytes of which one was added passes
  as logged.  `AssignErrorExact` says exactly what is checked.
* `kernel_lost_wakeup`: the reader wakes the writer and clears `asleep` only
  then.  If the writer fills the FIFO again in between, raises `asleep` and sleeps,
  the flag is cleared under it; no later read wakes it, and the call never returns.
  `FlagWakes` is what does hold: as long as the flag is up, the reader comes.
* `btt_overtaken`: `btt_read` announces a block in `rtt[lane]`
  (`btt.c:1555`) and reads the map again.  If the entry has become an error or a
  zero entry meanwhile, it returns (`btt.c:1533-1540`) with the announcement still
  in place.  A write whose lane has that block as its free block then waits for a
  reader that is gone (`btt.c:1745-1747`), until some later read happens to use the
  same lane.  The comments at `btt.c:219-221` and `1744` say that the wait is for
  outstanding reads.

## What is proved

The theorems hold for every value of the constants that satisfies the `ASSUME`s
of the modules, TLC's instances among them.  The four parts below are
independent of each other.

### The engine: `VeriProcProofs`

For every set of traces, of any length, over any addresses:

* `TypeCorrect`: `Spec => []TypeOK`;
* `PersistInfoIsExact`, `NoFalsePersistError`, `SettledPersistSound`,
  `NoFalseFlushWarning`: the four persistence properties of `engine`;
* `TransactionEndIsSound`, `AssignErrorsExact`, `UnclosedIsReported`: its three
  transaction properties;
* `OrderIsExact`: `OrderExact`;
* `EmptyRecordsIgnored`: the action property `EmptyIgnored`.

None of the persistence properties is inductive.  The invariant `IInv` adds what they rest on:
the trace the engine rewrites differs from the submitted one only in the types of
stores already processed, and never in where its fences are (`SameTrace`); the set
of excluded addresses is exact for every address (`ExcludeExact`); so is
`PersistInfo` (`PendingExact`); each message tells the truth about pending
addresses (`ReportsMean`) and no query about one went unanswered
(`PendingReported`).  `ExcludedStep` and `PendingStep` say how the
meaning of a trace changes with one more record, without reference to the
engine; `PendingNotDurable` and `NotDurablePending` relate what the engine
computes to durability.  The proof of `NextIInv` has one lemma per conjunct.
`IInv` quantifies over all addresses, so TLC checks its content in the bounded
form of `PersistInfoExact` and of the other three properties.

For transactions `TransInv` says, on any trace, well nested or not: the counter is
the nesting depth, a difference of two counts of records (`DepthExact`);
`TransactionAddInfo` holds what was added in any transaction so far (`AddExact`);
the stores of the open transaction are in `TransactionPersistInfo`
(`StoresRecorded`, which needs `SameTransactionBack`: the list is emptied only where
the depth is zero); and what was reported (`AssignExact`, `EndReported`,
`UnclosedExact`).  `TransactionEndIsSound` then takes the
step from pending to not durable, as `SettledPersistSound` does.

For ordering `TimesExact` says that the engine's timestamp counts the fences, and
that `OrderInfo` has for each address the time of the last record that gave it one,
negative for a store ("at that time or later").  `OrderFailsMeans` shows that comparing
the largest early time with the smallest late one compares all pairs of addresses, and
`OrderReports` that the reports are exactly the pairs not in time.
`InTimeIsOrdered` is where the hypotheses of `OrderExact` come in: only with them are
the timestamps those of the last store and of its flush.

The only assumption is `InputsAssumption`: inputs are sequences of records,
and shorter than the largest `int`.

### The pool and the interface: `VeriPoolTypes`, `VeriPoolProofs`, `TraceApiProofs`

For every number of workers, traces, records and calls:

* `PoolTypeCorrect`: `Spec => []TypeOK`, with any number of submitting clients;
* `QueueExclusive`: `NoQueueRace`;
* `TraceNotificationKept`, `TermNotificationKept`: `NoLostTrace`, `NoLostTerm`;
* `GetVeriWaits`: `ResultAfterTested`;
* `NoResultLost`: `ResultsComplete`;
* `PoolServes`, `ApiServes`: the pool, alone and under the C interface, implements
  `TestService` (`ServesTraces`);
* `ApiTypeCorrect`, `TracesKept`, `RecordsStored`: `ApiTypeOK`, `TestedAsPassed`,
  `RecordsKept`.

All but the first assume that one thread submits and one collects (`Use(p, g)`;
they may be the same thread), which is how the programs in the repository use the
library: with several submitting threads `assignTo` is a race.  From
`GetVeriWaits` on, they also assume that no memory starts with `getResultSignal` set
(`NoOldSignal`; `pool_uninitialized` shows that this is needed), and the last two
groups that `getVeri` is called before the destructor (`GetResultBeforeExit`).

The argument for `GetVeriWaits` is the invariant `PoolInv`.  The mutexes exclude and
the four reads of `assignTo` in one `execVeri` agree (`Mutex`).  `getResultSignal`
and `completedStateMap` are up only in the phases of `getVeri` that use them, so no
flag survives into the next call (`SignalUp`, `DoneUp`).  What a worker has read of
its flags is still true when it sets `completedStateMap` (`Decided`), and a count of
`N` means that all are set (`Counted`).  A submitted trace is tested or with a worker
(`NotLost`); a worker completes with an empty queue, and what it gets afterwards was
submitted after the call (`NotDue`).  So when all are complete, nothing that the call
waits for is left.  The `*Frame` lemmas say once what each function leaves alone.

`NoResultLost` follows a trace further (`ResultInv`).  A trace is given to one worker
(`Placed`), which has it once: in its queue, in its hand or as one result (`Single`).  A worker
that completes owes no result of a trace the call waits for (`Stored`), and the sum
that `getVeri` has built so far has one result of each of those that the
workers it has visited hold, and none twice (`Merged`).  No induction over the
number of workers is needed, since at most one term of the sum is not zero.

For `NoLostTerm` the invariant is about more than sleeping workers: one that has
read `termSignal` before it was set, and holds its mutex on the way to the wait, has
not been passed by the notifications either (`TermNoticed`).  It is the mutex that
makes this so.

`ServiceInv` adds to `PoolInv` what the refinement needs: who has submitted and
collected, and that everything is tested when the destructor starts.  `ApiInv` is the
life of a trace: it is created before it is passed, complete when passed, and passed
once (`PassedOnce`); alive until passed, and then until tested (`KeptAlive`); the
sections are used in order (`InOrder`); and the recorder records only where it may
(`Recording`).

### The kernel FIFO: `KernelFifoProofs`

For every FIFO length, every threshold between 1 and that length, and any records
(`KernelAssumption`):

* `OnlySignalsLoseRecords`: `Spec => []DropsOnlyAfterSignal`.  The invariant
  `RoomInv` adds that, while no wait was interrupted, a writer about to test the FIFO
  finds room, because it left its last call with at least one entry free and only
  the reader has changed the FIFO since;
* `FlagAlwaysWakes`: `Spec => []FlagWakes`, which is inductive as it stands;
* `KernelTypeCorrect`: `Spec => []TypeOK`, which needs `RoomInv` too: `kfifo_put`
  does not overfill the FIFO because a writer that has tested it is alone;
* `StreamDelivered`: `Spec => []Delivered`, with `TypeOK` and `RoomInv`
  (`StreamInv`).  The history variable `ends` records where each submitted trace
  ended in the stream, so that `Delivered` compares positions and needs no
  concatenation of all traces; each of `Put`, `Copy`, `Collect` and `Submit` has a
  lemma.

### The block translation table: `BttInvariant`, `BttProofs`, `BttRefinement`

For any number of threads, lanes, blocks and crashes, and any requests
(`BttAssumption`, `WorkloadAssumption`: the contents that stand for zero, error and
torn blocks differ, and the requests are requests):

* `BttTypeCorrect`, `AlwaysAccounted`, `FlogsAlwaysReadable`, `NoWriteWhileRead`: the
  four invariants of `btt_atomic`;
* `BttImplementsDevice`: `Spec => AtomicDevice`, the refinement of `BlockDevice`.

`BttInv` has seven parts: types; who holds which lane, lock and mutex at which point
(`Control`); an info block is valid only over a map and flogs that are written, so
that a crash during the first write is harmless (`LayoutOnce`); one entry of each
flog pair is valid at any time, and the open pool's copy is that entry
(`FlogsCurrent`); each internal block is in the map or in a lane, once, counting an
incomplete update as done (`Accounts`); what a thread in the middle of an update has
stored where (`InProgress`); and a block that is read is announced in `rtt`
(`Tracking`).  `BttInvariant` states them and proves the first four, `BttProofs` the
others.

The refinement adds what a finished request will answer (`Answers`).  A change of a
block becomes visible at the store to the map (`MapStoreMaps`) and is kept from the
last eight-byte store of its flog entry on (`FlogNewMaps`), since recovery completes
it from there; writing zero or error marks is kept from the drained map store on; a
read takes effect where it reads the map for the last time.
`Views` restates `seen` and `kept` entry by entry, and each action has a
lemma that shows the step of the device it is.

## What is only model-checked, and why

* Liveness (`GetVeriReturns`, `DestructorReturns`, `EveryTraceTested`, `EndingEnds`,
  `CallsReturn`): out of the prover's reach, as is everything with `ENABLED`.
* `Tx` with its invariants and `AtomicTransactions`: no theorem states them.  An
  inductive invariant has to relate the functions on `todo`, the redo log, the four
  undo logs, the heap, the range tree and the range cache all at once, and the
  recovery that `Tx` is compared with is a fold over the logs.

## What is not modelled

The variable registry (a map without a property beyond being a map), the timers and
latency counters, the test programs and the synthetic bug patches.  Of the vendored
PMDK only the two algorithms above are modelled: it is some hundred thousand lines,
most of them other libraries, tools, tests and examples which PMTest is applied to
and does not consist of.  That is why the mapped share of all lines under `src/` is
a few percent, while nearly all of PMTest's own library is covered.

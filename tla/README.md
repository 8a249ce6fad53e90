# A TLA+ verification project for Eclipse OMR

OMR is a toolkit for building language runtimes: a thread library (`thread/`),
a garbage collector framework (`gc/`), a compiler (`compiler/`, `jitbuilder/`),
a port library (`port/`), a trace engine (`omrtrace/`) and utilities (`util/`).
What is hard to test in it is where threads meet: the monitors and locks of the
thread library, and the protocols by which the collector's threads share work,
wait for each other, start and stop. This project models those, checks the
models with TLC on small instances and proves with TLAPS, for every number of
threads, nearly all of their safety properties. Paths below are relative to the root of the
repository.

Sections: [Inventory](#inventory), [Modules](#modules-and-their-correspondence-to-the-code),
[Runs](#runs), [Where the code and its comments disagree](#where-the-code-and-its-comments-disagree),
[Bounds](#bounds), [Fairness](#fairness), [Proofs](#proofs),
[Not modelled](#not-modelled), [Plan](#plan).

## Inventory

| Part | Source | State it keeps | Operations | What makes it correct |
|---|---|---|---|---|
| Monitor (three-tier) | `thread/common/omrthread.c`, `threadhelpers.cpp` | `spinlockState`, `owner`, `count`, `spinThreads`, an OS mutex, the queues `blocking`, `waiting`, `notifyAllWaiting`; per thread its flags, condition, `waitNumber`, `interrupter` | enter, abortable enter, try_enter, exit, wait (timed, abortable, interruptible), notify, notify_all, interrupt, priority interrupt, abort, the `interruptServer` thread | one holder; exact queues; nobody sleeps on a free monitor; a notify reaches a waiter; an interrupt ends a wait; a wait restores its entry count |
| Read/write mutex | `thread/common/rwmutex.c` | `status`, `writer`, a monitor `syncMon` | enter/exit read, enter/try/exit write, reset after fork, destroy | a writer excludes everybody; `status` accounts for all entries; no wakeup is lost; calls return |
| Parallel task | `gc/base/ParallelTask.cpp` | `_synchronized`, the synchronisation point, `_synchronizeIndex`, `_synchronizeCount`, `_threadCount`, `_workUnitIndex`; per thread its work unit counters | handleNextWorkUnit, three synchronisation points, release, complete | barriers hold; a released thread is alone; each unit is handled once; the master leaves last; the task ends |
| Parallel dispatcher | `gc/base/ParallelDispatcher.cpp`, `Dispatcher.cpp` | the status table, thread counts, `_threadShutdownCount`, `_slaveThreadsReservedForGC`, `_inShutdown` | start-up, run a task, shut down, reinitialise after fork; the slaves' main loop | nobody is missing from a task; a shutdown waits for exactly the slaves there are; both end |
| Work packets | `gc/base/WorkPackets.cpp`, `PacketList.cpp`, `WorkStack.cpp`, `standard/OverflowStandard.cpp`, `MarkingScheme.cpp` | packet lists, `_activePackets`, `_inputListWaitCount`, `_inputListDoneIndex`, `_overflow` and the overflow bits; per thread its input and output packet | push, pop, get and put packets, wait for work, detect termination, grow, overflow and walk the heap | no object and no packet is lost; the scan ends exactly when no work is left; all that is reachable is scanned; the task ends |
| Forwarded header | `gc/structs/ForwardedHeader.cpp`, `gc/base/standard/Scavenger.cpp` | the forwarding slot of the object; in its copy, the size that remains and the number of helpers in one word | copy, install the forwarding pointer, self-forward, copy in sections, wait | all threads agree on one copy; it is complete when it is seen; nobody waits for ever |
| Sublist pool, remembered set | `gc/structs/Sublist*.cpp`, `gc/base/standard/Scavenger.cpp` | puddles with an allocation pointer, the list, the previous list, `_allocPuddle`, `_count`, `_currentSize`; fragments; the overflow state | add an entry, reserve a fragment, grow, process, remove slots, prune, rebuild, compact | a remembered object has exactly one entry; the count is exact; pruning keeps exactly what refers to the nursery |
| Scan caches | `gc/base/standard/Scavenger.cpp`, `CopyScanCacheList.cpp` | the sublists of the scan list and their locks, `_cachedEntryCount`, `_waitingCount`, `_doneIndex`, the back-out flag, `_backOutDoneIndex`; per thread its own caches | push a cache and notify, get the next one, wait, declare the scan done, back out | counters are exact; the scan is done only when nothing is left; all threads leave it with the same result; it ends |
| Master GC thread | `gc/base/MasterGCThread.cpp` | `_masterThreadState`, `_masterGCThread`, `_incomingCycleState`, one monitor | start up, collect (for or by the caller), run a concurrent phase, shut down | single notifications reach the right thread; the asserted states; collections, start-up and shutdown end |
| Concurrent mark | `gc/base/standard/ConcurrentGC.cpp` | an execution mode changed by compare-and-exchange | transitions by mutators and by the collector | the phases follow each other |
| Lightweight locks | `gc/base/LightweightNonReentrant*.cpp`, `gcspinlock.cpp` | one word | spin, enter and exit read and write | exclusion, no overflow into a neighbouring field |
| Exclusive VM access, attach | `omr/OMR_VM.cpp`, `omr/OMR_VMThread.cpp`, `gc/base/EnvironmentBase.cpp` | counts of threads and of exclusive requests | attach, detach, acquire and release exclusive access | one exclusive owner |
| Heap, pools, regions; mark, sweep, compact, segregated | `gc/base/` | the heap itself | allocation, traversal | - |
| Rest of the thread library | `thread/common/`, `thread/unix`, `thread/win32` | thread life cycle, park, TLS, priorities | create, exit, suspend, sleep, join, park | - |
| Utilities, port, trace, compiler, DDR, tests | `util/`, `port/`, `omrtrace/`, `compiler/`, `ddr/`, `fvtest/` | - | - | - |

How they interact. Everything waits on monitors of the thread library: the
read/write mutex has one (`syncMon`), the task one (`_synchronizeMutex`, handed
to it by the dispatcher), the dispatcher two (`_slaveThreadMutex` for the slaves
and the task's end, `_dispatcherMonitor` for start-up and the end of slaves).
A GC is started by a thread with exclusive VM access, which becomes slave 0,
calls `MM_Dispatcher::run`, and with the reserved slaves executes `run()` of a
task. The marking task shares work packets and waits on `_inputListMonitor`; a
scavenge copies objects through forwarded headers, shares the copies that are still to be
scanned over its scan list and `_scanCacheMonitor`, and keeps its remembered set in
a sublist pool. The thread that has exclusive VM access collects itself or asks the
master GC thread to, over `_collectorControlMutex`.

What is hard: three different atomic operations that race for the spinlock and a
mutex that is not held while they do; tests of shared fields outside their lock
(`mutex->writer`, `_synchronizeIndex`, `_synchronized`, `_inShutdown`,
`_threadCount`, `_inputListWaitCount`, `_overflow`, `_allocPuddle`, `_cachedEntryCount`,
`_waitingCount`, the back-out flag); notifications that
are only tried; two numbers packed into one word; single notifications where several threads wait; wait numbers
compared to decide which queue a thread is on; timeouts and interrupts that race
notifications; start-up that fails half-way; a shutdown that races a task; and
`fork()`, after which the tables describe threads that no longer exist. The
list, line by line, is under `hazards` in `PROJECT.json`, with the properties
that would catch each.

## Modules and their correspondence to the code

```
RWLock  <-- implemented by --  RWMutex  -- uses -->  Monitor  <-- implemented by --  ThreeTierMonitor
                                                        ^
                    ParallelTask, WorkPackets -- use -+
ParallelDispatcher (uses what ParallelTask promises)   SublistPool (uses what ScanCaches promises)
ForwardedHeader   MasterGCThread
```

**Monitor** is what an `omrthread_monitor_t` promises its users: a re-entrant
lock with a wait set. A thread leaves the wait set because it was notified, or
(`Wake`) timed out or was interrupted, and returns with the entry count it had, or without
the monitor when it was aborted (`GiveUp`). `PostForkReset` is
`postForkResetMonitors`. `RWMutex`, `ParallelTask` and `WorkPackets` INSTANCE it as the monitor
they synchronise on, and `ThreeTierMonitor` is shown to implement it: so what
the users rely on is what the implementation gives. `Notify` wakes any one waiting
thread, because users may not count on the order. The users wait without a
timeout and not interruptibly, so they take `Wake` and `GiveUp` never.

**RWMutex** (`rwmutex.c`). `status` and `writer` are the mutex's fields; `pc`,
`op` and `loaded` say where in a call each thread is; `reads`, `nested`, `writes`
are the entries the callers hold, which restrict them to what the header comments
of the functions demand (exits match entries; no upgrade from read to write).
A call is split at each point where another thread can see it: the test of
`writer` without `syncMon` (`enter_read`, `exit_read`, `CallForWrite`), the load
and the store of a recursive writer's `status--` (`RecursiveWriteStore`),
entering `syncMon`, the body, leaving. `Fork` is `fork()` followed in the child by
`postForkResetMonitors` and `omrthread_rwmutex_reset`, which calls `abort()` if
there are readers (place `"aborted"`). **RWLock** is the abstract re-entrant
read/write lock, as callers see it.

**ThreeTierMonitor** (`omrthread.c`, `threadhelpers.cpp`). One monitor, the
threads that call it and a pool of threads that run `interruptServer`. A step is
an atomic operation on `spinlockState` or `spinThreads`, or a section under the
monitor's mutex or a THREAD_LOCK; a mutex that is held over more than one step is
a variable (`mutex`, `threadLock`, `globalLock`).

| Code | Actions |
|---|---|
| `omrthread_monitor_enter`, `_enter_abortable_*`, `_try_enter` | `EnterRecursively`, `Enter`, `TryEnter` |
| `omrthread_spinlock_acquire` | `SpinBound`, `SpinAdd`, `Spin`, `Acquired`, `NotAcquired` |
| `monitor_enter_three_tier` | `EnterSlowly` (swap in EXCEEDED), `Block`, `Unblock`, `EnterDone` |
| `monitor_exit` | `Exit`, `ExitSwap`, `ExitWake` (`unblock_spinlock_threads`) |
| `monitor_wait_original`, `monitor_wait_three_tier` | `Wait`, `WaitRelease`, `WaitEnqueue`, `WaitEnds`, `Resume` |
| `monitor_notify_original`, `monitor_notify_three_tier` | `Notify` |
| `threadInterrupt`, `interrupt_blocked_thread`, `interrupt_waiting_thread` | `Interrupt`, `InterruptBlocked`, `InterruptWaiting` |
| `interruptServer` | `ServerStart`, `ServerInterrupts` |
| `omrthread_clear_interrupted` and the priority one | `ClearInterrupted` |
| a condition wait that returns for no reason | `SpuriousWakeup` |

Build options and library flags are constants (`SpinWakeControl`, `FastNotify`,
`TryEnterSpin`, the two limits), so both implementations of wait and notify and both
builds of the exit are covered. The spin loop, which tries a fixed number of
times, is one attempt that succeeds or a last one that fails: attempts in between
change nothing.

**ParallelTask** (`ParallelTask.cpp`). `team` are the threads reserved for the
task (every subset with the master is an initial state). Each runs `Program`, the
shape of a task's `run()`: loops over work units and the three kinds of
synchronisation point; `complete()` follows. `Call` is the part of a function before the
mutex, including the unprotected read of `_synchronizeIndex`; `SyncBody`,
`MasterBody`, `SingleBody` and `CompleteBody` the first part under it; `LoopBody` the
wait loops; `Take` and `Release` the unprotected writes of `_synchronized`;
`ReleaseBody` `releaseSynchronizedGCThreads`. `HandleNextWorkUnit` is a turn of a
work loop, also by a released thread while the others are held.

**ParallelDispatcher** (`ParallelDispatcher.cpp`, `Dispatcher.cpp`). Three kinds
of actor: the controller that calls `startUpThreads` and `shutDownThreads`
(`gc/startup/omrgcstartup.cpp`), the master that runs tasks, and the slaves. Each
section under `_slaveThreadMutex` or `_dispatcherMonitor` is a step, because no
thread does anything else in it than wait on that monitor; what is read or written without
a monitor is a step of its own: `_inShutdown`, `slaveInfo->slaveFlags`, and in
`MM_Dispatcher::run` the read of the thread count (`RunTask`, `Dispatcher.cpp:92`), the
count a task asks for (`SetThreadCount`, :95) and the one it restores
(`RestoreThreadCount`, :107). So a shutdown may run between any two of them, and a GC
may start while one is under way. `orders` is a history variable: whether
`shutDownThreads` has told the slaves to die and whether a task was prepared afterwards with a count
above 1, which overrules that (see below); the properties of tasks and of dying slaves are
stated for behaviours in which this has not happened (`NotOverruled`), and `Hung` lets a behaviour in which
it has stop. The task is reduced to the count of threads that have yet to complete,
which is what `ParallelTask` shows of it (`MasterLeavesLast`, `TaskCompletes`).
`adjustThreadCount`, which looks at heap size and CPUs, returns any smaller count.
A slave that cannot be created or cannot attach makes the start-up fail, and `startUpThreads`
calls `shutDownThreads`. At the first start-up its caller then calls that again; after a fork
`reinitAfterFork` ignores the result, and the dispatcher stays up without slaves
(`returnTo` says which). Taken for granted: no GC during a start-up or restart; no second fork of a process
whose restart has failed; and the tables outlive a task that still runs when `shutDownThreads` has returned.

**WorkPackets** (`WorkPackets.cpp`, `PacketList.cpp`, `WorkStack.cpp`,
`OverflowStandard.cpp`, the task and `completeScan` of `MarkingScheme.cpp`). The
threads of a marking task on a given heap (`Refs`), each with its work stack. A
packet is the sequence of objects in it; a list is a sequence of packets, atomic
under its lock. Everything that is read without a lock is a step of its own: each
of the lists `inputPacketAvailable` looks at, the wait count before a
notification, the overflow flag at the end of a scan. The language marks `Roots`
in rounds, with a `completeScan` after each, as its `MarkingDelegate` may. The
locals of a thread are the record `env[t]`, and what a call does to them alone is an
operator on that record.

| Code | Actions |
|---|---|
| `scanObject`, `markObject`, `MM_WorkStack::push`, `pop` | `MarkSlot`, `ScanEnds`, `FlushOutputPacket`, `Pop`, `Swap`, `PushItem` |
| `putPacket`, `notifyWaitingThreads` | `PutPacket`, `PutPush`, `PutNotify`, `TryEnter`, `Notifying`, `Notified` |
| `inputPacketAvailable`, `getInputPacketNoWait` | `InputPacketAvailable`, `Choose`, `Take`, `Took` |
| `getInputPacket` | `Enter`, `Entered`, `Finish`, `Wait`, `Reacquire`, `Leave` |
| `getOutputPacket`, `getLeastFullPacket`, `getPacketByAdddingWorkPacketBlock`, `getPacketByOverflowing` | `TakeEmpty`, `Search`, `PutBack`, `Allocate`, `TakeFull` |
| `handleWorkPacketOverflow`, `MM_OverflowStandard::handleOverflow` | `ScanDone`, `ReleaseMaster`, `WalkHeap`, `ReleaseThreads` |
| `MM_WorkStack::flush` | `Flush` |

The synchronisation point in `handleOverflow` is used as `ParallelTask` shows it to
be: the master is released when everybody is there.

**ForwardedHeader** (`ForwardedHeader.cpp`, `copyAndForward` and `copy` of
`Scavenger.cpp`). Threads with a slot each that refers to the same object. Initial
states choose the object's size and whether the scavenger is concurrent. `Start` is
the first look at the header, `Check` the test of the back-out flag and the choice of how
to copy, `Reserve` the space for the copy (or none), `Memcpy` the copy of a
small object before it is published, `ForwardWins` and `ForwardLoses` the compare-and-exchange
of `setForwardedObjectInternal`, `Fail` raising the back-out flag and self-forwarding.
A large object of the concurrent scavenger is copied in sections by the winner
(`WinnerCopies`, `Winner`, `CommenceFixup`, `CommitFixup`, `RemoveHint`:
`copySetup`, `copySection`, `copyOrWaitWinner`, `commitFixup`) and by those that
lost (`Assist`, `AssistCopies`, `Retire`, `HelpEnds`: `copyOrWaitOutline`). The
progress word is modelled as the code has it, a number whose low bits count the helpers, but
without a width: with compressed references the code casts it to 32 bits
(`ForwardedHeader.cpp:176`), which is the identity for objects below 4 GB only.

**SublistPool** (`Sublist*.cpp` and the remembered set's functions of
`Scavenger.cpp`). A thread is a mutator between scavenges and a slave during one.

| Code | Actions |
|---|---|
| the write barrier's or `rememberObject`'s add, `MM_SublistFragment::add` | `RememberObject`, `AddEntry` |
| `MM_SublistPool::allocate`, `MM_SublistPuddle::allocate`, `createNewPuddle` | `AskForFragment`, `AllocateUnlocked`, `NoRoomUnlocked`, `AllocateLocked`, `AddPuddle`, `Overflow` |
| `scavengeRememberedSet`, `scavengeRememberedSetOverflow`, `scavengeRememberedSetList` | `StartScavenge`, `ScavengeRememberedSet`, `ScavengeOverflow`, `PopPreviousPuddle`, `ScavengeSlot`, `Verdict`, `ScavengedPuddle` |
| the scan of a part of a split array, `completeScan` | `ScanSplit`, `FlushToWait`, `ScanComplete` |
| `pruneRememberedSetList`, `pruneRememberedSetOverflow`, the slot iterator | `PrunePuddle`, `PruneSlot`, `PrunedPuddle`, `PruneDone`, `PruneOverflow`, `Rebuild`, `RebuildObject`, `RebuildDone`, `EndScavenge` |
| `MM_SublistPool::compact`, `MM_SublistPuddle::merge` | `StartCompact`, `CompactPuddle`, `CompactDone` |

`StartScavenge` includes the flush of all fragments with which a scavenge begins
(`flushNonAllocationCaches`). Compaction follows a successful scavenge or a global
collection. The rest of a split array, which may be split again, is one part: each further
part does the same to the slot. `ScanComplete` is the end of `completeScan` for all threads at once. That
they agree on it, and that nothing is left then, is assumed here and shown by `ScanCaches`.

**ScanCaches** (`completeScan`, `getNextScanCache`, `addCacheEntryToScanListAndNotify`, `setBackOutFlag` of
`Scavenger.cpp`, over `CopyScanCacheList.cpp`). A sublist is the number of its caches, a thread has
a number of caches of its own. Whatever is read outside a lock is a step of its own: the two counters, the
head of a sublist, the back-out flag. The two assignments with which `setBackOutFlag` raises the flag are two
steps, and so are the change of a sublist and of its count, under the lock. A task calls `completeScan` more
than once, and nothing keeps a fast thread from its next one while a slow one leaves
the last.

| Code | Actions |
|---|---|
| copying an object, or failing to | `Copy`, `CopyFails`, `Scanned` |
| `setBackOutFlag` | `RaiseBackOut`, `BackOutRaised`, `TellOfBackOut`, `ToldOfBackOut` |
| `addCacheEntryToScanListAndNotify`, `pushCache` | `Push`, `Pushed`, `AnyWaiting`, `TryEnter`, `Notify` |
| `completeScan` | `CompleteScan`, `ReturnFromScan` |
| `getNextScanCache`: a cache of one's own or of the list, `popCache` | `GetNextScanCache`, `Loop`, `CachedEntries`, `PassSublist`, `Pop`, `Popped`, `More` |
| `getNextScanCache`: the wait | `EnterToWait`, `Decide`, `TestToWait`, `Wait`, `Awake`, `Leave` |

**MasterGCThread** (`MasterGCThread.cpp`). The master thread, two or more mutators and the
controller that calls `startup` and `shutdown`. `Attach`, `Top`, `Second`, `Awake`, `Bottom`
are `masterThreadEntryPoint` cut where it waits; `AcquireVMAccess`, `LookForWork`,
`ConcurrentCollect`, `ReleaseVMAccess`, `HandledConcurrent` are `handleConcurrent`;
`GarbageCollect`, `CollectAsCaller`, `AskForConcurrent`, `Request`, `Answered` are
`garbageCollect`. The collector is reduced to whether a concurrent cycle is idle, to be
scanned or complete; exclusive VM access is given to one mutator when the master has no
VM access. The two flags of the constructor are set together: an implicit master with VM
access during concurrent phases, which is how the concurrent scavenger starts it
(`Scavenger.cpp:322`), or an explicit one without, the default. `collided` is a history variable: an
explicit master was asked to collect while it was being shut down. Nothing keeps that from
happening, in the code or in the model; the properties are stated up to then
(see below). An implicit master, which is never asked to collect, has no such exception.

The modules `*Proofs` hold the theorems about the module they are named after
([Proofs](#proofs)).

The modules `MC*` give the constants values that need a definition and the
symmetry sets. Definitions marked `mutant` are seeded faults: `PROJECT.json`
names, for every property of every passing run, the definition that is replaced by
one of them so that TLC finds the property violated.

## Runs

An invariant that ends in `Inv` (and `ShutdownExact`) is the conjunction of the type
invariant of its module with the named properties in brackets, and `CallsEnd` that of the two in brackets.

| Run | Configuration | Shows |
|---|---|---|
| `rwmutex` | `MCRWMutex.cfg` | Three threads, two entries of each kind, a fork. `WriterExcludesAll`; `StatusAccountsForEntries` (a lost update of the unprotected `status--`, or an exit that the unprotected test of `writer` sends the wrong way, would break it); `NoLostWakeup` (the single notify of `exit_read` is enough, because readers wait only for a writer, whose exit notifies all); `CallsReturn`; `ImplementsRWLock`. |
| `three_tier_monitor` | `MCThreeTierMonitor.cfg` | Three threads, enter (recursive), try_enter, timed and untimed wait, notify and notify_all, spurious wakeups, no spin-wake control. `SpinlockHasOneHolder`; `QueueInv` (`QueuesAreExact`: the comparison of wait numbers tells exactly who was moved by notify_all); `NotifyReachesAWaiter` (a notification is not spent on a thread that has been notified or timed out); `ImplementsMonitor`. |
| `three_tier_fast_notify` | `MCThreeTierFastNotify.cfg` | The other implementation of wait and notify, with spin-wake control and limits of one spinning and one woken thread: `FastNotifyInv` (`QueueInv`, `NoStrandedThread`), and `EntriesComplete`: once callers only exit, every enter and exit of three threads returns, although an exit wakes one blocked thread, or none while another one spins. (`MCThreeTierLive.cfg`, run by hand, checks `EntriesComplete` with `try_enter` in the build without spin-wake control.) |
| `three_tier_interrupt` | `MCThreeTierInterrupt.cfg` | Two threads that interrupt and abort each other, an `interruptServer`: `NoStrandedThread`, and `ImplementsMonitor`: the monitor stays exclusive, and a wait returns with its entry count or without the monitor. |
| `parallel_task` | `MCParallelTask.cfg` | Teams of one to four threads, two units a loop, all kinds of synchronisation point with work before, between, inside and after them. `SynchronizationInv` (`BarrierHolds`, `ReleasedAlone`, `MasterLeavesLast`); `UnitsHandledOnce`; `AssertionsHold` (the code's assertions on the synchronisation point); `TaskCompletes`. |
| `dispatcher` | `MCParallelDispatcher.cfg` | Up to three slaves, start-up that may fail at any of them, two tasks of any size, a fork with restart, a shutdown at any time, tasks that start during it. `SlaveInfoAlive` (no use of `startUpThreads`'s stack after it went on); `NobodyMissing`; `ShutdownExact` (`ShutdownCountExact`, `ShutdownIsComplete`); `DyingIsFinal`; `TasksAndShutdownEnd`. All but `SlaveInfoAlive` and `ShutdownExact` up to a task that overrules the orders to die. |
| `marking` | `MCWorkPackets.cfg` | Two threads, five packets of three slots, twelve objects, two rounds. `PacketInv` (`WorkConserved`: a marked object is in one packet slot, in one hand or has its overflow bit, until it is scanned; `PacketsConserved`; `WaitCountExact`); `TerminationSound` (the done index changes only when there is no work in any list or hand); `MarkingComplete` (whoever has returned from `completeScan` can rely on everything reachable having been scanned, overflow included); `MarkingEnds`. |
| `overflow_between_scans` | `MCOverflowBetweenScans.cfg` | Violates `MarkingEnds`, see below. |
| `forwarded_header` | `MCForwardedHeader.cfg` | Four threads, sizes on both sides of the limit for duplicate copies and of the alignment, both kinds of scavenger, failing allocations. `OneDestination`; `CopiedBeforeUse`; `CopyInv` (`BytesAccounted`: sections, remainder and what was copied partition the object; `ParticipantsCounted`); `ForwardingIsFinal`; `AllReturn`. |
| `sublist_pool` | `MCSublistPool.cfg` | Two threads, three objects, two puddles, two collections with split arrays, overflow at any point, pruning, rebuilding and compaction. `RememberedConserved`; `PoolInv` (`PoolShape`, `CountExact`, `SplitSlotsStay`); `PruneExact`; `ScavengeEnds` (given that `completeScan` does). |
| `scan_caches` | `MCScanCaches.cfg` | Three threads, two sublists, two scans in a row, both builds of the scavenger, copies that fail at any point. `ScanInv` (`CountersInv`: `_waitingCount` and `_cachedEntryCount` are exact, nothing is subtracted from 0; `SameResult`: nobody backs out of a scan that another thread has completed); `DoneMeansDone` (the done index changes only when everybody waits and neither the list nor a thread has a cache); `ScansEnd` (although notifications are only tried). |
| `master_gc_thread` | `MCMasterGCThread.cfg` | An explicit or an implicit master, two mutators that collect at any time, start-up that may fail, shutdown at any time. `HandshakeInv` (`AssertionsHold`, `NobodyOversleeps`, `ShutdownIsFinal`); `CallsEnd` (`CollectionsEnd`, `ControllerReturns`). All of them until an explicit master is asked to collect during its shutdown. |

Deadlock is checked where the system may not stop: `rwmutex`,
`parallel_task` and `dispatcher`. In the runs of the
monitor every thread may be in a wait that nobody is left to notify, which is the
callers' fault and no deadlock of the monitor (`CHECK_DEADLOCK FALSE`). The runs of the
five other modules end: the task is done, every thread has its place, or the bound on collections
is reached; that nothing stops earlier is what `MarkingEnds`, `AllReturn`, `ScavengeEnds`,
`ScansEnd` and `CallsEnd` say. States in which the system is over have a stuttering
action of their own in the other modules (`Aborted`, `Finished`, `Down`, `Hung`).

## Where the code and its comments disagree

`overflow_between_scans` is a run, with an entry under `findings`. After the end of a
`completeScan` was detected, each thread reads the overflow flag by itself
(`WorkPackets.cpp:848`) to decide whether to go to the synchronisation point of
`handleOverflow`. A thread that reads FALSE goes on; if the language's
`completeMarking` then marks objects, as `MarkingDelegate.hpp` invites it to, and
overflows before a slower thread has read the flag, that one waits at the
synchronisation point and the first one for input packets, for ever. The scavenger
met the same hazard with its back-out flag and has `_backOutDoneIndex` for it
(`Scavenger.cpp:2376`). With one round of marking, or with a second round that does
not overflow before everybody has read the flag, this cannot happen: `marking` has
such a second round.

Six more are reproduced with a configuration each, run by hand
(`tlc -config MCStrandedByAbort.cfg MCThreeTierMonitor`, and so on), in which TLC finds the violation:

* `MCStrandedByAbort.cfg` (`NoStrandedThread`): built with `OMR_THR_SPIN_WAKE_CONTROL`, an exit wakes at
  most `maxWakeThreads` blocked threads. One that was woken and finds that it has
  been aborted returns `J9THREAD_INTERRUPTED_MONITOR_ENTER` (`omrthread.c:3917`)
  without waking another, so the next one sleeps on a free monitor.
* `MCStrandedByTryEnter.cfg` (`NoStrandedThread`): in the same build an exit wakes nobody while a thread
  spins (`omrthread.c:4175`). A spinning `try_enter` that has made its last
  attempt is still counted and will neither take the monitor nor wake anybody.
* `MCInterruptLost.cfg` (`InterruptNotLost`): `interruptServer` calls `threadInterruptWake` without the
  monitor's mutex (`omrthread.c:2987`). Its target has released the spinlock but
  still holds the mutex on the way to its condition wait and misses the
  notification. `interrupt_waiting_thread` takes the mutex for this very reason.
* `MCTwoInterrupters.cfg` (`OneInterrupterAtATime`): interrupts of two kinds in a row reach
  `ASSERT(NULL == threadToInterrupt->interrupter)` (`omrthread.c:2838`) while the
  first one's server is pending.
* `MCSingleThreadedInShutdown.cfg` (`SingleThreadedInShutdown`, of `MCParallelDispatcher`):
  `shutDownThreads` tells the slaves to die and sets
  `_threadCount` to 1 so that a GC from then on is, in the words of its comment, "a single threaded GC"
  (`ParallelDispatcher.cpp:366-369`). `MM_Dispatcher::run` writes the same field without a lock, when a caller asks
  for a thread count (`Dispatcher.cpp:95`) and when the count it had found is restored
  (:107), and both may come after the 1. `prepareThreadsForTask` then overwrites
  `slave_status_dying` by `slave_status_reserved` (472-475): the task waits for a slave that is gone, or a
  slave that had yet to see its order goes on. The first needs no GC that starts during the shutdown,
  only one that had read the count before; it is the concurrent scavenger that asks for a count
  (`Scavenger.cpp:5399`), from the master GC thread, which is stopped after the dispatcher
  (`omr/startup/omrvmstartup.cpp:477-482`).
* `MCAskedInShutdown.cfg` (`AssertionsHold`, of `MCMasterGCThread`):
  `MasterGCThread.cpp:161` reckons with a collection during the shutdown (`RAS could
  still trigger a collection after we've started shutting down`). An explicit master is asked to
  collect as long as it has not cleared `_masterGCThread`; if `shutdown()` has set
  TERMINATION_REQUESTED before, the request ends in `Assert_MM_unreachable()` (328), and in a build
  without assertions it overwrites the termination, or the termination overwrites it: a
  single notification then finds two waiters. The only collector of this
  repository that starts a master makes it implicit and is not affected.

`NoStrandedThread` holds in the build without spin-wake control with aborts
(`three_tier_interrupt`), and with spin-wake control when neither aborts nor
`try_enter` are used (`three_tier_fast_notify`). The theorem `NobodyStranded` says that these two
are all that is in the way: without spin-wake control it holds always, and with it
as long as no `try_enter` spins and nobody is aborted, interrupts and `interruptServer`s included.

Observations made while modelling, without a run:

* The last assertion of `interruptServer` (`omrthread.c:2990`) does not allow for a
  target that is only priority-interrupted, although `omrthread_priority_interrupt`
  starts servers too.
* `MM_SublistPool::compact` frees empty puddles without subtracting their size from
  `_currentSize` (`SublistPool.cpp:278-283`). No pool of this repository sets a maximum
  size, so only the report of the size is affected.
* `MM_SublistPool::allocate` looks for a next puddle after `_allocPuddle`
  (`SublistPool.cpp:143-147`) and then asserts that there is none (200); `PoolShape`
  shows that the assertion is right, so that the search never finds one.
* Each thread reads the overflow flag by itself to choose how to prune
  (`Scavenger.cpp:2757`), and only one of the two ways has a barrier. Nothing in this
  repository sets the flag between the end of the scan and that line, which is how `SublistPool`
  has it; a language whose `rescanThreadSlots` remembers objects could.
* An implicit master drops a request for concurrent work that comes in while it is in
  RUNNING_CONCURRENT; the next stop-the-world increment does the scan instead.
* `isGarbageCollectInProgress` (`MasterGCThread.hpp`) returns TRUE when the state is
  *not* GC_REQUESTED, contrary to its comment.

## Bounds

* `MaxDepth` = 2 (read/write mutex), `MaxCount` = 2 (monitor): recursion has two
  cases, the first entry and a further one.
* Three threads: an owner, one that blocks or waits, and one that races both; all
  races in the code are between two threads over a third one's state. The proofs
  remove the bound for the properties they cover. Interrupt runs have two callers
  and one server, because each interrupt adds a thread.
* `MaxWaitNumber` = 4: wait numbers grow only while somebody waits and start over
  when both queues are empty. Four allows each of three threads to wait and one to
  wait again while others of both queues are still there.
* `MaxSpinThreads` = `MaxWakeThreads` = 1: the limit is met by two threads.
* `Servers`: as many `interruptServer` threads as run at once; an interrupter that
  needs another one waits in the model.
* `three_tier_fast_notify` has `MaxCount` = 1, because it has no symmetry to reduce it (it checks liveness), and no spurious
  wakeups, which might keep the monitor's mutex busy for ever. 124,766 states.
* `Calls` and `InterruptKinds` choose which functions a run exercises: the runs
  split the state space by function, not by interleaving.
* `MaxThreads` = 4 (three slaves), `MaxTasks` = 2, `Forks` = 1: a slave that is
  reserved, one that is not, and one that fails or dies; a second task finds what
  the first one left behind; a fork finds tables in use. 101,735 states.
* `WorkPackets`: two threads, the smallest number that have to agree that nothing is
  left; the code treats a third like the second one. `InitialPackets` = 4 is the two packets per thread
  that the code's initialisation sees to, `PacketsPerBlock` = 1 with `MaxPackets` = 5 lets the lists
  grow once and then fail to, and twelve objects do not fit into what is left, so that
  packets are emptied by overflowing and single objects overflow. `Slots` = 3,
  `FullPacketThreshold` = `SatisfactoryCapacity` = 2: packets that are empty, nearly empty,
  relatively full and full are all different. `MaxPacketSearch` = 20 as in the code.
  614,033 states, two minutes.
* `ForwardedHeader`: four threads: a winner, two helpers, which is `MaxOutstanding`, and one that finds
  the count at its limit. `Sizes` = {3, 7, 17} with `DuplicateLimit` = 3, `Alignment` = `MinIncrement` = 4:
  a duplicated object, one with a first section and one more, and one with several sections; none
  is a multiple of the alignment. 211,299 states.
* `SublistPool`: `FragmentSize` = 2, `GrowSize` = 3: a puddle ends in a short fragment.
  `MaxPuddles` = 2: growth succeeds once and then overflows. Three objects,
  `MaxCycles` = 2: what a scavenge or a compaction left is scavenged again. 670,457 states, over two minutes.
* `MasterGCThread`: two mutators, `MaxCollections` = 6: a concurrent cycle takes two
  collections, and three cycles put each mutator in each role. 7,148 states.
* `ScanCaches`: three threads: one scans while two wait and a notification reaches one of them. Two sublists,
  one shared by two threads: a push and a pop of the same sublist race, and `popCache` moves
  from one to the other. `Rounds` = 2: slow threads of a scan meet fast ones of the next.
  `MaxCopies` = 2: a sublist with more than its first cache, a cache for each of two threads, a copy
  that fails after one that did not. 326,846 states, under a minute.
* `Units` = 2 in each loop: a unit for which there is a further one and a last one;
  with up to four threads some threads get none.

## Fairness

`FairSpec` of each module is weak fairness of what a thread does inside a call or
a task: the operating system runs every thread, and a mutex that is free
again and again is obtained. For the locks it also assumes that owners
exit, without which no lock lets anybody in. Nothing is assumed of new calls,
interrupts, tasks, forks or the shutdown. The liveness properties of the locks
(`CallsReturn`, `EntriesComplete`) are stated for behaviours in which from some
point on there are no new entries: neither lock is fair between threads (a
spinning thread may overtake a blocked one for ever, and readers a writer), and
the code does not claim to be.

In `WorkPackets`, `ForwardedHeader` and `ScanCaches` every thread of the task is run until it
is done, spinning in `copyOrWaitOutline` included. In `SublistPool` fairness covers adding an
object that was begun and everything in a scavenge or a compaction; in `MasterGCThread` the master,
a mutator in `garbageCollect` and the controller in `startup` or `shutdown`. No
fairness is assumed of a call being made.

## Proofs

**RWMutexProofs**, from `ThreadsAssumption` (a finite set of threads that does not
contain NULL) and `MaxDepthAssumption`:

| Theorem | States |
|---|---|
| `TypeCorrect` | `Spec => []TypeOK` |
| `Exclusion` | `Spec => []WriterExcludesAll` |
| `Accounting` | `Spec => []StatusAccountsForEntries` |
| `Wakeup` | `Spec => []NoLostWakeup` |
| `Refinement` | `Spec => ImplementsRWLock` |

None is inductive alone. The invariant `IInv` adds `MonInv` (a thread owns
`syncMon` exactly in its body and until it leaves, and only entering threads wait),
`CallInv` (what a thread holds in each function, and that the value a recursive writer has
loaded is still `status`: nobody else can change `status` while there is a writer,
which is why the unprotected `status--` is safe) and `WriterInv` (the field
`writer` names exactly the thread with write entries, counting the call in
progress, and then there are no readers: why the unprotected test of `writer` is
never wrong about the caller itself). `status` counts the entries of readers as
the cardinality of a set of pairs, and lemmas say how it changes by one entry. After an
`abort()` a second, trivial, disjunct holds. `NextIInv` has one lemma per action.
`Refinement` uses that the primed entries of each step are those of an RWLock step
or unchanged, and `WriterExcludesAll` for its guards.

**ThreeTierMonitorProofs**, from `ThreadsAssumption` (finitely many threads, without NULL;
a server is no caller) and `ModeAssumption`: theorem
`MutualExclusion`, `Spec => []SpinlockHasOneHolder`, for any number of callers and
servers, every build option, all limits, calls and interrupts. `IInv` adds
`OwnerPlaces` (where a thread can be while `monitor->owner` names it),
`SavedCount` (a waiting thread has an entry to restore, or an owner's count could
be zero), `ServerPlaces` and the types these need. The argument: every step of a
thread does one of five things to the spinlock, named by the operators `StaysOut`, `Keeps`,
`Takes`, `Releases` and `Untouched`, each of which preserves `IInv` by a lemma of its own; one lemma
per action says which. What makes it true is that the two operations
that take the spinlock (compare-and-exchange, and the exchange for EXCEEDED that
finds UNOWNED) find it UNOWNED, and that nobody but a holder writes UNOWNED.

About the queues, from the same assumptions:

| Theorem | States |
|---|---|
| `ExactQueues` | `Spec => []QueueInv` |
| `NotifyReaches` | `Spec => []NotifyReachesAWaiter` |
| `MonitorRefinement` | `Spec => ImplementsMonitor` |
| `NobodyStranded` | `SpinnersInsist` implies `Spec => []NoStrandedThread` |

Lemmas say what `Enqueue`, `Dequeue`, concatenation, `Head` and `Last` do to a sequence
without repetition, to its range and to numbers that grow along it. `QInv` is `IInv` and:
`PlaceInv`, the queue that the place and the flags of a thread decide, both ways; `FlagInv`, when a
thread is WAITING or NOTIFIED (an interrupted thread that has yet to leave its queue
is still WAITING, a fast-notified one never); `NumberInv`, wait numbers grow along
`notifyAllWaiting` and on along `waiting`, which is why one comparison with the last of
`notifyAllWaiting` tells the two apart; `MutexInv`, who is at a place under the
mutex has it, which keeps a notify from the gap between the release and the enqueueing of a wait;
`CallInv`, the function each thread is in and that an entry that has not returned counts one;
`SpinInv`, `spinThreads` is the number of threads that spin. The refinement
maps the owner to NULL until the entering call returns and the state of a wait to its flags:
`LockSteps` are the steps that are invisible or end a wait; the others are `Enter`,
`Exit`, `Wait`, `Reacquire`, `Notify` and `NotifyAll` of `Monitor`, one lemma each.
`NobodyStranded` adds `WakeInv`. Without spin-wake control: while anybody sleeps or is about
to, the spinlock is EXCEEDED or a thread is on its way to wake all blocked threads.
With it: while the spinlock is free, somebody `Insists`, that is, tries until it has the monitor.
An exit that wakes nobody relies on a spinning thread, so that thread must insist:
`SpinnersInsist` excludes the two that do not, a `try_enter` that spins and a thread that is
aborted, for which the property fails (above). In the build without spin-wake control
`SpinnersInsist` is TRUE.

**ParallelTaskProofs**, from the assumptions of `ParallelTask` on its constants (a
finite set of threads, any sequence of loops and synchronisation points, any number of units): `Synchronization`
(`Spec => []SynchronizationInv`), `Assertions` (`AssertionsHold`) and `WorkShared`
(`UnitsHandledOnce`). None is inductive: whether a thread is past a point depends
on its stale copy of `_synchronizeIndex`, so the invariant says who is `Beyond` a point though still
in the wait loop, and that all are beyond the same points (`Together`); `HeldInv`,
`CountInv` and `PointInv` tie `_synchronizeCount` and the recorded point to those that have
come; `FlagInv` ties `_synchronized` to the one thread that is released; `EndInv` is the same for `complete()`;
`MutexInv` and `PlaceInv` say where a thread is when it has the mutex. For the work units:
each thread counts for itself, `SeenInv` fixes that count by its place in the program, `ClaimInv` bounds the shared index by
it, and `LoopUnits` and `SectionUnits` say which units of a loop have been handled,
in the loops all threads run and in the section of a released thread.

**ParallelDispatcherProofs**: `InfoAlive` (`SlaveInfoAlive`), `EverybodyThere`
(`NobodyMissing`), `CompleteShutdown` (`ShutdownExact`) and the action property `DyingStays`
(`DyingIsFinal`), for any size of the tables and any number of tasks and forks, without further hypotheses.
`NobodyMissing` and `DyingIsFinal` speak of what happens before orders to die are overruled, and so do
the parts of the invariant about tasks: until then a task that is prepared finds the count 1 or slaves that serve.
`Serving`: a task runs only while the dispatcher is up, in its last shutdown or after it. `TaskInv`:
the threads in `_statusTable` are those the task counts on, and a task found by a shutdown was
begun before it; `SlaveInv`: a slave with a task is alive and not dying;
`Newest`: only the slave that is being created may not have reported; `StageInv` and `StartLife`,
`UpLife`, `DownLife`: which slaves there are at each stage of the controller, from which the
count of those who will report follows. Counts are cardinalities, and lemmas say how
they change by one slave.

**ForwardedHeaderProofs**: `SamePlace` (`OneDestination`), `CompleteCopies`
(`CopiedBeforeUse`), `WordAccounts` (`CopyInv`) and the action property `DecidedOnce`
(`ForwardingIsFinal`), for any finite set of threads, object size, alignment, increment and limit
of helpers. `HeaderInv`: when the header is self-forwarded, and that the hint stands exactly while the winner
is at work; `PlaceInv`: what a thread knows of the header at each place;
`SlotInv`: the place a thread hands out; `SpaceInv`: whose copy has space; `WordInv`: the bytes
copied, claimed and remaining partition the object, and the low bits of the word
are the number of threads that copy, which needs the word's two numbers not to run into each other
(`MaxOutstanding` below the alignment).

**MasterGCThreadProofs**: `Final` (`ShutdownIsFinal`) and `Handshake` (`HandshakeInv`), for any
set of mutators and any number of collections, without further hypotheses. The invariant is
`TypeOK /\ (collided \/ IInv)`: it holds up to the collision of a request with the shutdown, after which only the
types are kept; each step lemma shows that a step either sets `collided` or preserves `IInv`. `Life` ties the state word to the master's and the controller's progress, `Phase` the
places of the master to the state, `Calls` the one request in progress to the mutator with exclusive access, and
`Waits` says who waits on the one monitor: never two threads of which a single notification could
wake the wrong one.

**WorkPacketsProofs**, from the assumptions of `WorkPackets` on its constants (finitely many threads, any
heap, any roots in any number of rounds, any size and supply of packets, at least two per thread at the start):

| Theorem | States |
|---|---|
| `PacketsTheorem` | `Spec => []PacketInv` |
| `TerminationTheorem` | `Spec => TerminationSound` |
| `MarkingCompleteTheorem` | `Spec => []MarkingComplete` |

`IInv` has three parts. `Shape`: what the place of a thread and the call it is in tell about its packets, the
element it has to push and the slots it has to mark. `Control`: who has the monitor (`MonitorInv`); that a thread
which has not joined the waiting ones has read the current done index (`IndexInv`); and what detecting
the end rests on, `LastInv`: from the moment the last thread has counted itself until it has looked at all
lists, all others are counted, hold no work and sleep or queue for the monitor, so the lists it has passed stay
empty although it looks at them one after the other. `QuietInv` carries that on until the first thread
returns, `WalkInv` says that the others are held while the master walks the heap, and `CompleteInv` is
`MarkingComplete` for a thread that has been told and has yet to return. `Data`: every marked object is in one
slot of one packet, the element of one thread, has its overflow bit or was taken for scanning, and these
exclude each other (`WorkInv`); overflow bits are behind a set flag or ahead of the walk (`OverflowInv`);
what a scanned object refers to is marked or about to be (`ScanInv`). The packets are one function,
from places (an index in a list, in a hand, an input or an output) to their contents, and lemmas say what the
invariants of `Data` become when a packet moves from one place to another, is filled, drained or added. Steps
that leave the monitor, the wait and the lists alone are `Mild`, and one lemma frames `Control` for all of
them. Reachability is the least closed set, so completeness is one instance of it: when nothing is left, the
scanned objects have the roots and are closed under references.

**SublistPoolProofs**, from the assumptions of `SublistPool` on its constants (finitely many threads, one of them the
master; any objects, numbers of puddles and collections, and sizes above 0):

| Theorem | States |
|---|---|
| `PoolTheorem` | `Spec => []PoolInv` |
| `ConservedTheorem` | `Spec => []RememberedConserved` |
| `PruneTheorem` | `Spec => []PruneExact` |

`IInv` rests on `PhaseInv`: all threads are in the same phase of a collection, where a thread that adds an object counts
as being where it returns to. By phase: `LinkInv`,
the puddles are in the list, the previous list, a thread's hand or `compact()`'s, one place each; `RoomInv` and
`FragmentInv`, the rest of a fragment lies before the front of a puddle of the list, is NULL and nobody else's, and no
thread has a fragment where puddles are taken from under it; `EmptyInv`, what is behind the front is NULL, so a
reservation needs no clearing; `IteratorInv`, `UnitInv`, one thread at a time goes through a puddle. `SlotInv` is
`RememberedConserved` without cardinalities. `removeSlot` and `merge` rearrange slots: one lemma (`Rearranged`) says
that what is moved by an injection of the places keeps the number of entries, their uniqueness and who has one.
`FlagInv` says when a slot is flagged: behind an iterator while the puddles are scanned, and then for a young object only
while a part of its array is still to be scanned or the verdict is pending; before an iterator while they are pruned, and
then for an object that is not young. Its conjunct for entries is the converse. `SplitInv` keeps the slots that are left
with a part of an array behind the iterators, whose `removeSlot` moves only what is ahead of them: why the
assertion on `_arraySplitRememberedSlot` holds. `DoneInv` is `PruneExact` in the making. `compact()` is one step per
puddle; its frame lemma takes what each of the five cases does to the lists, and `merge`'s two cases, which differ in the
direction, are one.

`SpinnersInsist`, of `NobodyStranded`, is the only hypothesis of a theorem beside the assumptions on the
constants. `FairSpec` implies `Spec`, so the theorems hold of it as well.
Every inductive invariant was checked by TLC before it was proved.

Only model-checked: the liveness properties (`CallsReturn`, `EntriesComplete`, `TaskCompletes`,
`TasksAndShutdownEnd`, `MarkingEnds`, `AllReturn`, `ScavengeEnds`, `ScansEnd`, `CallsEnd`),
because the prover has neither fairness nor ENABLED; and the safety properties of `ScanCaches` (`ScanInv`,
`DoneMeansDone`), for three threads. Every other safety property that a passing run checks is stated
by a theorem.

## Not modelled

* The memory model: steps are atomic and in program order. The code's barriers
  (`VM_AtomicSupport::readBarrier`, `writeBarrier` in `threadhelpers.cpp`) are taken to work.
* In the monitor: pools and names of monitors, pinning, adaptive spinning, JLM
  statistics, destruction; the two-tier build; suspend, sleep, join and park, which
  share a thread's flags.
* `omrthread_rwmutex_destroy`; several mutexes in one process.
* In the dispatcher: `kill` and the tables' memory; a second fork after a restart that failed; the Metronome subclass; a
  shutdown concurrent with start-up, which the callers in
  `gc/startup/omrgcstartup.cpp` (215-242) exclude; thread priorities.
* The failure of `threadCreate` for an `interruptServer`, which
  `interrupt_waiting_thread` does not look at (`omrthread.c:2915`): the interrupt
  then ends the wait only when something else does.
* In the work packets: deferred packets (`_deferredPacketList`), lists split into
  sublists, the overflow handler of concurrent mark, `resetAllPackets`, yielding in VLHGC.
* In copying: how copy caches are filled, merged and freed, and the caches that mutators flush
  during a concurrent scavenge; fixing the heap up after a back-out, hot-field alignment, the overlap slot of
  compressed references; stop-the-world readers of a copy that its winner is still
  filling, whom the code keeps from scanning it by the caches.
* In the remembered set: the two passes of the concurrent scavenger
  (`scavengeRememberedSetListDirect`, `...Indirect`), back-out, ages of thread references, the NULLing of
  slots by a global collection, `allocateElementNoContention`, a heap walk that finds objects
  that died.
* In the master GC thread: `tearDown`; the other two values of its two flags, which no collector uses; and how exclusive VM access is obtained.
* Heap contents and the collectors' traversals (the state is the heap itself),
  the compiler (sequential, and about the meaning of programs), the port library
  and the platform layer (I/O), trace and verbose output (formatting), sequential
  utilities, DDR, tests and vendored code. `PROJECT.json` lists each part with its
  reason. Measured in lines these are nearly all of the repository: the
  compiler and its back ends alone are over half a million, in which nothing runs
  concurrently and a property would be about the meaning of compiled programs. The models
  cover the thread library's locks and the protocols of the collector's threads, a few
  thousand lines.

## Plan

Done: all modules above; proofs of the safety properties of RWMutex, ThreeTierMonitor,
ParallelTask, ParallelDispatcher, ForwardedHeader, MasterGCThread, WorkPackets and SublistPool. Next, in this order:

1. Proofs of the safety properties of ScanCaches, and `SublistPool` composed with it in place
   of `ScanComplete`.
2. `LightweightReaderWriterLock`: the packed word with its field widths;
   exclusion, no carry into a neighbouring field. Park and unpark; the two-tier
   monitor as another implementation of `Monitor`.
3. `ConcurrentGC`'s execution modes; hook registration against dispatch.
4. Composition: `ParallelDispatcher` over `ParallelTask`, in place of the count it
   uses now.
5. A liveness run with interrupts, for the two orders in which THREAD_LOCK and
   MONITOR_LOCK are taken.

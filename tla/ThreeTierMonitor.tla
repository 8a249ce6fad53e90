-------------------------- MODULE ThreeTierMonitor --------------------------
(***************************************************************************)
(* One omrthread monitor as built with OMR_THR_THREE_TIER_LOCKING:         *)
(* thread/common/omrthread.c and thread/common/threadhelpers.cpp.          *)
(*                                                                         *)
(* A thread first spins on spinlockState; when that fails it takes the     *)
(* monitor's OS mutex, marks the spinlock EXCEEDED, queues itself on       *)
(* `blocking' and waits on its own condition variable; whoever releases    *)
(* the spinlock wakes blocked threads.  Waiting threads queue on `waiting'.*)
(* A thread can be interrupted or aborted, by a thread that may have to    *)
(* start an interruptServer thread to do it.                               *)
(*                                                                         *)
(* One step is what other threads cannot see the inside of: an atomic      *)
(* operation on spinlockState or spinThreads, or a section under the       *)
(* monitor's mutex or a thread's mutex.  Fields that only their owner      *)
(* reads for a decision (owner, count, the flags about itself) are written *)
(* in the step next to the code that writes them.                          *)
(*                                                                         *)
(* Definitions marked `mutant' are seeded faults, used to show that the    *)
(* properties can fail.                                                    *)
(***************************************************************************)
EXTENDS Naturals, Sequences, SequencesExt

CONSTANTS
    Callers,          \* threads that call the monitor's functions
    Servers,          \* threads available to run interruptServer
    NoThread,         \* NULL
    SpinWakeControl,  \* built with OMR_THR_SPIN_WAKE_CONTROL
    FastNotify,       \* J9THREAD_LIB_FLAG_FAST_NOTIFY is set
    TryEnterSpin,     \* J9THREAD_MONITOR_TRY_ENTER_SPIN is set
    MaxSpinThreads,   \* lib->maxSpinThreads; 0 is OMRTHREAD_IGNORE_SPIN_THREAD_BOUND
    MaxWakeThreads,   \* lib->maxWakeThreads
    MaxCount,         \* bound on recursive entry
    MaxWaitNumber,    \* bound on the wait numbers, which grow while anybody waits
    Calls,            \* the functions the callers use
    InterruptKinds    \* interrupt flags that are raised

Threads == Callers \cup Servers

ASSUME ThreadsAssumption ==
    /\ IsFiniteSet(Threads) /\ NoThread \notin Threads
    /\ Callers \cap Servers = {}
ASSUME ModeAssumption ==
    /\ SpinWakeControl \in BOOLEAN /\ FastNotify \in BOOLEAN /\ TryEnterSpin \in BOOLEAN
    /\ MaxSpinThreads \in Nat /\ MaxWakeThreads \in Nat \ {0} /\ MaxCount \in Nat \ {0}
    /\ MaxWaitNumber \in Nat
    /\ InterruptKinds \subseteq {"INTERRUPTED", "PRIORITY_INTERRUPTED", "ABORTED"}

VARIABLES
    spinlockState,      \* monitor->spinlockState
    owner, count,       \* monitor->owner, monitor->count
    spinThreads,        \* monitor->spinThreads
    mutex,              \* the holder of monitor->mutex between two steps
    blocking, waiting, notifyAllWaiting,   \* the monitor's queues
    pc,                 \* where each thread is
    op,                 \* the function each thread is in
    abortable,          \* the isAbortable argument of monitor_enter_three_tier
    spinning,           \* the thread is counted in spinThreads
    saved,              \* the entry count monitor_wait will restore
    waitNumber,         \* thread->waitNumber
    flags,              \* thread->flags
    signalled,          \* the thread's condition was notified while it waited on it
    target,             \* the thread an interrupter is interrupting
    interrupter,        \* thread->interrupter
    canceled,           \* J9THREAD_FLAG_CANCELED of a server
    globalLock,         \* the holder of GLOBAL_LOCK between two steps
    threadLock          \* the holder of each THREAD_LOCK between two steps

lockVars  == <<spinlockState, owner, count>>
spinVars  == <<spinThreads, spinning>>
queueVars == <<blocking, waiting, notifyAllWaiting, waitNumber>>
callVars  == <<op, abortable, saved, target>>
serverVars == <<interrupter, canceled>>
vars == <<lockVars, spinVars, mutex, queueVars, pc, callVars, flags, signalled,
          serverVars, globalLock, threadLock>>

FlagNames == {"BLOCKED", "WAITING", "NOTIFIED", "TIMER_SET", "ABORTABLE", "INTERRUPTABLE",
              "INTERRUPTED", "PRIORITY_INTERRUPTED", "ABORTED"}
\* The functions a thread can be in.
Ops == {"none", "enter", "try_enter", "exit", "wait", "interrupt", "interruptServer"}
Places == {"idle", "unborn", "born", "bound", "spinAdd", "spin", "spun", "unspun", "mlock",
           "enqueue", "blocked", "post", "exSwap", "exLock", "wLock", "wEnqueue", "waiting",
           "wakeup", "timeout", "iBlocked", "iGot", "sGot"}

TypeOK ==
    /\ spinlockState \in {"UNOWNED", "OWNED", "EXCEEDED"}
    /\ owner \in Threads \cup {NoThread} /\ count \in 0..MaxCount
    /\ spinThreads \in Nat
    /\ mutex \in Threads \cup {NoThread}
    /\ blocking \in Seq(Threads) /\ waiting \in Seq(Threads) /\ notifyAllWaiting \in Seq(Threads)
    /\ pc \in [Threads -> Places]
    /\ op \in [Threads -> Ops]
    /\ abortable \in [Threads -> BOOLEAN] /\ spinning \in [Threads -> BOOLEAN]
    /\ saved \in [Threads -> 0..MaxCount]
    /\ waitNumber \in [Threads -> Nat]
    /\ flags \in [Threads -> SUBSET FlagNames]
    /\ signalled \in [Threads -> BOOLEAN]
    /\ target \in [Threads -> Threads \cup {NoThread}]
    /\ interrupter \in [Threads -> Servers \cup {NoThread}]
    /\ canceled \in [Threads -> BOOLEAN]
    /\ globalLock \in Threads \cup {NoThread}
    /\ threadLock \in [Threads -> Threads \cup {NoThread}]

\* monitor_init, and threads that have not called anything.
Init ==
    /\ spinlockState = "UNOWNED" /\ owner = NoThread /\ count = 0
    /\ spinThreads = 0
    /\ mutex = NoThread
    /\ blocking = <<>> /\ waiting = <<>> /\ notifyAllWaiting = <<>>
    /\ pc = [t \in Threads |-> IF t \in Servers THEN "unborn" ELSE "idle"]
    /\ op = [t \in Threads |-> "none"]
    /\ abortable = [t \in Threads |-> FALSE] /\ spinning = [t \in Threads |-> FALSE]
    /\ saved = [t \in Threads |-> 0]
    /\ waitNumber = [t \in Threads |-> 0]
    /\ flags = [t \in Threads |-> {}]
    /\ signalled = [t \in Threads |-> FALSE]
    /\ target = [t \in Threads |-> NoThread]
    /\ interrupter = [t \in Threads |-> NoThread]
    /\ canceled = [t \in Threads |-> FALSE]
    /\ globalLock = NoThread
    /\ threadLock = [t \in Threads |-> NoThread]

-----------------------------------------------------------------------------
(* Building blocks. *)

Goto(t, place) == pc' = [pc EXCEPT ![t] = place]

\* The call returns; an interrupter drops GLOBAL_LOCK, a server thread ends.
Return(t) ==
    /\ Goto(t, IF t \in Servers THEN "unborn" ELSE "idle")
    /\ op' = [op EXCEPT ![t] = "none"]
    /\ abortable' = [abortable EXCEPT ![t] = FALSE]
    /\ saved' = [saved EXCEPT ![t] = 0]
    /\ target' = [target EXCEPT ![t] = NoThread]
    /\ globalLock' = IF globalLock = t THEN NoThread ELSE globalLock

Idle(t, call) == pc[t] = "idle" /\ call \in Calls

\* threadEnqueue and threadDequeue.
Enqueue(queue, t) == Append(queue, t)
Dequeue(queue, t) ==
    IF t \in Range(queue) THEN RemoveAt(queue, CHOOSE i \in DOMAIN queue : queue[i] = t) ELSE queue

\* NOTIFY_WRAPPER for every thread of a set: only a thread that waits on its
\* condition is woken.
Signal(S) ==
    signalled' = [u \in Threads |->
                    signalled[u] \/ (u \in S /\ pc[u] \in {"blocked", "waiting"})]

\* The threads unblock_spinlock_threads notifies.
Unblocked ==
    IF SpinWakeControl
    THEN {blocking[i] : i \in {j \in DOMAIN blocking : j <= MaxWakeThreads}}
    ELSE Range(blocking)

NowOwnedBy(t) == owner' = t /\ count' = 1

\* The caller is in the course of entering: in monitor_enter_three_tier.
Entering(t) == op[t] \in {"enter", "wait", "interruptServer"}

-----------------------------------------------------------------------------
(* omrthread_monitor_enter, _enter_abortable, _try_enter *)

\* A thread that owns the monitor only counts.
EnterRecursively(t) ==
    /\ Idle(t, "enter") /\ owner = t /\ count < MaxCount
    /\ count' = count + 1
    /\ UNCHANGED <<spinlockState, owner, spinVars, mutex, queueVars, pc, callVars, flags,
                   signalled, serverVars, globalLock, threadLock>>

BeginCall(t, o, place, isAbortable) ==
    /\ op' = [op EXCEPT ![t] = o]
    /\ abortable' = [abortable EXCEPT ![t] = isAbortable]
    /\ Goto(t, place)

Enter(t) ==
    /\ owner # t
    /\ \/ Idle(t, "enter") /\ BeginCall(t, "enter", "bound", FALSE)
       \/ Idle(t, "enter_abortable") /\ BeginCall(t, "enter", "bound", TRUE)
    /\ UNCHANGED <<lockVars, spinVars, mutex, queueVars, saved, target, flags, signalled,
                   serverVars, globalLock, threadLock>>

\* omrthread_monitor_try_enter spins too, or makes one attempt.
TryEnter(t) ==
    /\ owner # t /\ Idle(t, "try_enter")
    /\ BeginCall(t, "try_enter", IF TryEnterSpin THEN "bound" ELSE "spin", FALSE)
    /\ UNCHANGED <<lockVars, spinVars, mutex, queueVars, saved, target, flags, signalled,
                   serverVars, globalLock, threadLock>>

\* omrthread_spinlock_acquire: is there room for one more spinning thread?
SpinBound(t) ==
    /\ pc[t] = "bound"
    /\ Goto(t, IF SpinWakeControl /\ MaxSpinThreads # 0 /\ spinThreads < MaxSpinThreads
               THEN "spinAdd" ELSE "spin")
    /\ UNCHANGED <<lockVars, spinVars, mutex, queueVars, callVars, flags, signalled,
                   serverVars, globalLock, threadLock>>

SpinAdd(t) ==
    /\ pc[t] = "spinAdd"
    /\ spinThreads' = spinThreads + 1
    /\ spinning' = [spinning EXCEPT ![t] = TRUE]
    /\ Goto(t, "spin")
    /\ UNCHANGED <<lockVars, mutex, queueVars, callVars, flags, signalled, serverVars,
                   globalLock, threadLock>>

\* A compare-and-exchange of UNOWNED for OWNED that succeeds, and the last one
\* of the loop when none did.
ExchangeUnlessOwned ==                                              \* mutant
    /\ spinlockState # "OWNED"
    /\ spinlockState' = "OWNED"
CompareExchange ==
    /\ spinlockState = "UNOWNED"
    /\ spinlockState' = "OWNED"

Spin(t) ==
    /\ pc[t] = "spin"
    /\ \/ CompareExchange /\ Goto(t, "spun")
       \/ spinlockState # "UNOWNED" /\ Goto(t, "unspun") /\ UNCHANGED spinlockState
    /\ UNCHANGED <<owner, count, spinVars, mutex, queueVars, callVars, flags, signalled,
                   serverVars, globalLock, threadLock>>

StopSpinning(t) ==
    /\ spinThreads' = IF spinning[t] THEN spinThreads - 1 ELSE spinThreads
    /\ spinning' = [spinning EXCEPT ![t] = FALSE]

\* The spinlock was acquired.  interrupt_waiting_thread now drops the
\* THREAD_LOCK of its target.
Acquired(t) ==
    /\ pc[t] = "spun"
    /\ StopSpinning(t)
    /\ NowOwnedBy(t)
    /\ \/ Entering(t) /\ Goto(t, "post") /\ UNCHANGED <<callVars, globalLock, threadLock>>
       \/ op[t] = "try_enter" /\ Return(t) /\ UNCHANGED threadLock
       \/ /\ op[t] = "interrupt" /\ Goto(t, "iGot")
          /\ threadLock' = [threadLock EXCEPT ![target[t]] = NoThread]
          /\ UNCHANGED <<callVars, globalLock>>
    /\ UNCHANGED <<spinlockState, mutex, queueVars, flags, signalled, serverVars>>

\* It was not.  interrupt_waiting_thread starts an interruptServer.
NotAcquired(t) ==
    /\ pc[t] = "unspun"
    /\ StopSpinning(t)
    /\ \/ /\ Entering(t) /\ Goto(t, "mlock")
          /\ UNCHANGED <<callVars, serverVars, globalLock, threadLock>>
       \/ /\ op[t] = "try_enter" /\ Return(t)
          /\ UNCHANGED <<serverVars, threadLock>>
       \/ /\ op[t] = "interrupt"
          /\ \E s \in {x \in Servers : pc[x] = "unborn"} :
                /\ interrupter' = [interrupter EXCEPT ![target[t]] = s]
                /\ canceled' = [canceled EXCEPT ![s] = FALSE]
                /\ target' = [target EXCEPT ![t] = NoThread, ![s] = target[t]]
                /\ op' = [op EXCEPT ![t] = "none", ![s] = "interruptServer"]
                /\ pc' = [pc EXCEPT ![t] = "idle", ![s] = "born"]
          /\ globalLock' = NoThread
          /\ threadLock' = [threadLock EXCEPT ![target[t]] = NoThread]
          /\ UNCHANGED <<abortable, saved>>
    /\ UNCHANGED <<lockVars, mutex, queueVars, flags, signalled>>

\* MONITOR_LOCK, and the exchange for EXCEEDED, which may find UNOWNED.
FoundNotExceeded == spinlockState # "EXCEEDED"                      \* mutant
FoundUnowned == spinlockState = "UNOWNED"

EnterSlowly(t) ==
    /\ pc[t] = "mlock" /\ mutex = NoThread
    /\ spinlockState' = "EXCEEDED"
    /\ IF FoundUnowned
       THEN NowOwnedBy(t) /\ Goto(t, "post") /\ UNCHANGED mutex
       ELSE mutex' = t /\ Goto(t, "enqueue") /\ UNCHANGED <<owner, count>>
    /\ UNCHANGED <<spinVars, queueVars, callVars, flags, signalled, serverVars, globalLock, threadLock>>

\* The call is to return J9THREAD_INTERRUPTED_MONITOR_ENTER.
IsAborted(t) == abortable[t] /\ "ABORTED" \in flags[t]
NotBlocked(t) == flags' = [flags EXCEPT ![t] = @ \ {"BLOCKED", "ABORTABLE"}]

\* Under the mutex: queue on blocking and wait on the condition, unless aborted.
Block(t) ==
    /\ pc[t] = "enqueue" /\ threadLock[t] = NoThread
    /\ mutex' = NoThread
    /\ \/ IsAborted(t) /\ NotBlocked(t) /\ Return(t) /\ UNCHANGED blocking
       \/ /\ ~IsAborted(t)
          /\ flags' = [flags EXCEPT ![t] = @ \cup (IF abortable[t] THEN {"BLOCKED", "ABORTABLE"} ELSE {"BLOCKED"})]
          /\ blocking' = Enqueue(blocking, t)
          /\ Goto(t, "blocked")
          /\ UNCHANGED <<callVars, globalLock>>
    /\ UNCHANGED <<lockVars, spinVars, waiting, notifyAllWaiting, waitNumber, signalled,
                   serverVars, threadLock>>

\* The condition wait ends: leave the queue, and try again unless aborted.
Unblock(t) ==
    /\ pc[t] = "blocked" /\ signalled[t] /\ mutex = NoThread
    /\ abortable[t] => threadLock[t] = NoThread
    /\ signalled' = [signalled EXCEPT ![t] = FALSE]
    /\ blocking' = Dequeue(blocking, t)
    /\ \/ IsAborted(t) /\ NotBlocked(t) /\ Return(t)
       \/ ~IsAborted(t) /\ Goto(t, "bound") /\ UNCHANGED <<flags, callVars, globalLock>>
    /\ UNCHANGED <<lockVars, spinVars, mutex, waiting, notifyAllWaiting, waitNumber, serverVars, threadLock>>

\* pthread_cond_wait may return although nobody notified the condition.
SpuriousWakeup(t) ==
    /\ pc[t] \in {"blocked", "waiting"} /\ ~signalled[t]
    /\ "spurious" \in Calls
    /\ signalled' = [signalled EXCEPT ![t] = TRUE]
    /\ UNCHANGED <<lockVars, spinVars, mutex, queueVars, pc, callVars, flags, serverVars,
                   globalLock, threadLock>>

\* The entry count of a thread that has the monitor; a wait restores its own.
CountAfterEnter(t) == count                                         \* mutant
RestoredCount(t) == IF op[t] = "wait" THEN saved[t] ELSE count

\* The end of monitor_enter_three_tier: the monitor is owned; an abort that
\* came in the meantime gives it up again.
EnterDone(t) ==
    /\ pc[t] = "post" /\ threadLock[t] = NoThread
    /\ NotBlocked(t)
    /\ \/ /\ IsAborted(t)
          /\ owner' = NoThread /\ count' = 0
          /\ Goto(t, "exSwap")
          /\ UNCHANGED <<callVars, globalLock>>
       \/ /\ ~IsAborted(t) /\ op[t] = "interruptServer"
          /\ Goto(t, "sGot")
          /\ UNCHANGED <<owner, count, callVars, globalLock>>
       \/ /\ ~IsAborted(t) /\ op[t] \in {"enter", "wait"}
          /\ count' = RestoredCount(t)
          /\ Return(t)
          /\ UNCHANGED owner
    /\ UNCHANGED <<spinlockState, spinVars, mutex, queueVars, signalled, serverVars, threadLock>>

-----------------------------------------------------------------------------
(* monitor_exit *)

Exit(t) ==
    /\ Idle(t, "enter") /\ owner = t
    /\ count' = count - 1
    /\ IF count = 1
       THEN owner' = NoThread /\ BeginCall(t, "exit", "exSwap", FALSE)
       ELSE UNCHANGED <<owner, op, abortable, pc>>
    /\ UNCHANGED <<spinlockState, spinVars, mutex, queueVars, saved, target, flags, signalled,
                   serverVars, globalLock, threadLock>>

\* The exchange for UNOWNED, and whether blocked threads have to be looked for.
WhenExceeded == spinlockState = "EXCEEDED"
NeverLook == FALSE                                                  \* mutant
ExitMustLook == SpinWakeControl \/ WhenExceeded

ExitSwap(t) ==
    /\ pc[t] = "exSwap"
    /\ spinlockState' = "UNOWNED"
    /\ IF ExitMustLook THEN Goto(t, "exLock") /\ UNCHANGED <<callVars, globalLock>>
                       ELSE Return(t)
    /\ UNCHANGED <<owner, count, spinVars, mutex, queueVars, flags, signalled, serverVars, threadLock>>

\* A spinning thread will do instead of a blocked one.
AlwaysSpinner == SpinWakeControl                                    \* mutant
SpinnerWillDo == SpinWakeControl /\ spinThreads # 0

ExitWake(t) ==
    /\ pc[t] = "exLock" /\ mutex = NoThread
    /\ Signal(IF SpinnerWillDo THEN {} ELSE Unblocked)
    /\ Return(t)
    /\ UNCHANGED <<lockVars, spinVars, mutex, queueVars, flags, serverVars, threadLock>>

-----------------------------------------------------------------------------
(* monitor_wait_original and monitor_wait_three_tier *)

\* The `interruptible' argument of the wait functions.
WaitModes == [wait |-> {}, wait_abortable |-> {"ABORTABLE"},
              wait_interruptable |-> {"ABORTABLE", "INTERRUPTABLE"}]

\* The interrupt flags that end a wait in a mode, the most urgent first.
Interrupted(f, mode) == "INTERRUPTABLE" \in mode /\ "INTERRUPTED" \in f
PriorityInterrupted(f, mode) ==
    \/ "INTERRUPTABLE" \in mode /\ "PRIORITY_INTERRUPTED" \in f
    \/ "ABORTABLE" \in mode /\ "ABORTED" \in f

\* Interrupted before waiting: return with the monitor, clearing the flag.
WaitNot(t, mode) ==
    /\ flags' = [flags EXCEPT ![t] =
                    IF Interrupted(@, mode) THEN @ \ {"INTERRUPTED"}
                    ELSE IF "INTERRUPTABLE" \in mode THEN @ \ {"PRIORITY_INTERRUPTED"}
                    ELSE @]
    /\ UNCHANGED <<owner, count, pc, op, abortable, saved>>

\* monitor_maximum_wait_number
MaximumOfWaiting ==                                                 \* mutant
    IF waiting # <<>> THEN waitNumber[Last(waiting)] ELSE 0
MaximumWaitNumber ==
    IF waiting # <<>> THEN waitNumber[Last(waiting)]
    ELSE IF notifyAllWaiting # <<>> THEN waitNumber[Last(notifyAllWaiting)]
    ELSE 0

Wait(t) ==
    /\ pc[t] = "idle" /\ owner = t /\ threadLock[t] = NoThread
    /\ MaximumWaitNumber < MaxWaitNumber
    /\ \E call \in Calls \cap DOMAIN WaitModes, timed \in (Calls \cap {"TIMER_SET"}) \cup {"FOREVER"} :
        LET mode == WaitModes[call] IN
        \/ (Interrupted(flags[t], mode) \/ PriorityInterrupted(flags[t], mode)) /\ WaitNot(t, mode)
        \/ /\ ~Interrupted(flags[t], mode) /\ ~PriorityInterrupted(flags[t], mode)
           /\ flags' = [flags EXCEPT ![t] = @ \cup {"WAITING"} \cup mode \cup ({timed} \ {"FOREVER"})]
           /\ saved' = [saved EXCEPT ![t] = count]
           /\ owner' = NoThread /\ count' = 0
           /\ BeginCall(t, "wait", "wLock", "ABORTABLE" \in mode)
    /\ UNCHANGED <<spinlockState, spinVars, mutex, queueVars, target, signalled, serverVars,
                   globalLock, threadLock>>

\* MONITOR_LOCK and the exchange for UNOWNED.
WaitRelease(t) ==
    /\ pc[t] = "wLock" /\ mutex = NoThread
    /\ mutex' = t
    /\ spinlockState' = "UNOWNED"
    /\ Signal(IF ~SpinWakeControl /\ WhenExceeded THEN Unblocked ELSE {})
    /\ Goto(t, "wEnqueue")
    /\ UNCHANGED <<owner, count, spinVars, queueVars, callVars, flags, serverVars, globalLock, threadLock>>

\* Still under the mutex: queue on waiting and wait on the condition.
WaitEnqueue(t) ==
    /\ pc[t] = "wEnqueue"
    /\ Signal(IF SpinWakeControl /\ spinThreads = 0 THEN Unblocked ELSE {})
    /\ waitNumber' = IF FastNotify THEN waitNumber
                     ELSE [waitNumber EXCEPT ![t] = MaximumWaitNumber + 1]
    /\ waiting' = Enqueue(waiting, t)
    /\ mutex' = NoThread
    /\ Goto(t, "waiting")
    /\ UNCHANGED <<lockVars, spinVars, blocking, notifyAllWaiting, callVars, flags, serverVars,
                   globalLock, threadLock>>

\* The condition wait ends, holding the mutex.
WaitEnds(t) ==
    /\ pc[t] = "waiting" /\ mutex = NoThread
    /\ \/ signalled[t] /\ Goto(t, "wakeup")
       \/ "TIMER_SET" \in flags[t] /\ Goto(t, "timeout")
    /\ mutex' = t
    /\ signalled' = [signalled EXCEPT ![t] = FALSE]
    /\ UNCHANGED <<lockVars, spinVars, queueVars, callVars, flags, serverVars, globalLock, threadLock>>

\* monitor_on_notify_all_wait_list and check_notified
OnNotifyAllWaitList(t) ==
    notifyAllWaiting # <<>> /\ waitNumber[t] <= waitNumber[Last(notifyAllWaiting)]
Notified(t) == "NOTIFIED" \in flags[t] \/ (~FastNotify /\ OnNotifyAllWaitList(t))

\* The queues that monitor_wait_three_tier and monitor_wait_original leave.
LeaveWaitingOnly(t) ==                                              \* mutant
    waiting' = Dequeue(waiting, t) /\ UNCHANGED <<blocking, notifyAllWaiting>>
LeaveQueue(t) ==
    \/ /\ FastNotify /\ Notified(t)
       /\ blocking' = Dequeue(blocking, t) /\ UNCHANGED <<waiting, notifyAllWaiting>>
    \/ /\ ~FastNotify /\ OnNotifyAllWaitList(t)
       /\ notifyAllWaiting' = Dequeue(notifyAllWaiting, t) /\ UNCHANGED <<waiting, blocking>>
    \/ /\ ~(IF FastNotify THEN Notified(t) ELSE OnNotifyAllWaitList(t))
       /\ waiting' = Dequeue(waiting, t) /\ UNCHANGED <<blocking, notifyAllWaiting>>

\* Why the wait ends; a wakeup without a reason goes back to waiting.
Resume(t) ==
    /\ pc[t] \in {"wakeup", "timeout"} /\ threadLock[t] = NoThread
    /\ mutex' = NoThread
    /\ LET f   == flags[t]
           int == Interrupted(f, f)
           pri == PriorityInterrupted(f, f)
           timedOut == ~(int \/ pri \/ Notified(t))
       IN \/ /\ timedOut /\ pc[t] = "wakeup"
             /\ Goto(t, "waiting")
             /\ UNCHANGED <<queueVars, flags, serverVars>>
          \/ /\ ~timedOut \/ pc[t] = "timeout"
             /\ LeaveQueue(t)
             /\ waitNumber' = [waitNumber EXCEPT ![t] = 0]
             /\ flags' = [flags EXCEPT ![t] =
                    ((@ \cup (IF timedOut THEN {"BLOCKED"} ELSE {}))
                       \ {"WAITING", "TIMER_SET", "INTERRUPTABLE", "NOTIFIED"})
                       \ ((IF "INTERRUPTABLE" \in f THEN {"PRIORITY_INTERRUPTED"} ELSE {})
                          \cup (IF int /\ ~(Notified(t) \/ pri) THEN {"INTERRUPTED"} ELSE {}))]
             /\ canceled' = [s \in Threads |-> canceled[s] \/ s = interrupter[t]]
             /\ interrupter' = [interrupter EXCEPT ![t] = NoThread]
             /\ Goto(t, "bound")
    /\ UNCHANGED <<lockVars, spinVars, callVars, signalled, globalLock, threadLock>>

-----------------------------------------------------------------------------
(* monitor_notify_original and monitor_notify_three_tier *)

\* threadNotify: the flags of the threads that are notified.
NotifyFlags(S) ==
    flags' = [u \in Threads |-> IF u \in S THEN (flags[u] \ {"WAITING"}) \cup {"BLOCKED", "NOTIFIED"}
                                ELSE flags[u]]

\* Those of the wait queue that notify picks: one that is still WAITING, or all.
FirstOfQueue(all) ==                                                \* mutant
    IF all THEN Range(waiting) ELSE {waiting[i] : i \in {j \in DOMAIN waiting : j = 1}}
ChosenToNotify(all) ==
    LET still == {i \in DOMAIN waiting : "WAITING" \in flags[waiting[i]]}
    IN {waiting[i] : i \in IF all THEN still ELSE {j \in still : \A k \in still : j <= k}}

NotifyOriginal(all) ==
    /\ NotifyFlags(ChosenToNotify(all))
    /\ Signal(ChosenToNotify(all))
    /\ IF all THEN waiting' = <<>> /\ notifyAllWaiting' = notifyAllWaiting \o waiting
              ELSE UNCHANGED <<waiting, notifyAllWaiting>>
    /\ UNCHANGED <<spinlockState, blocking>>

\* Fast notify does not wake anybody: the threads move to the blocking queue,
\* and the exit of the notifier will.
Moved(all) == IF all \/ waiting = <<>> THEN waiting ELSE <<Head(waiting)>>
NotifyThreeTier(all) ==
    /\ spinlockState' = IF waiting # <<>> THEN "EXCEEDED" ELSE spinlockState
    /\ NotifyFlags(Range(Moved(all)))
    /\ waiting' = IF Moved(all) = waiting THEN <<>> ELSE Tail(waiting)
    /\ blocking' = blocking \o Moved(all)
    /\ UNCHANGED <<notifyAllWaiting, signalled>>

Notify(t) ==
    /\ pc[t] = "idle" /\ owner = t /\ mutex = NoThread
    /\ \E call \in {"notify", "notify_all"} \cap Calls :
        LET all == call = "notify_all" IN
        /\ \A u \in Range(waiting) : threadLock[u] = NoThread
        /\ IF FastNotify THEN NotifyThreeTier(all) ELSE NotifyOriginal(all)
    /\ UNCHANGED <<owner, count, spinVars, mutex, waitNumber, pc, callVars, serverVars,
                   globalLock, threadLock>>

-----------------------------------------------------------------------------
(* omrthread_interrupt, _priority_interrupt and _abort *)

\* threadInterrupt(u, f) by t, up to where it needs the monitor of u.  A
\* blocked thread is notified under its monitor's mutex if that is free; a
\* waiting one under its monitor, which t tries to enter holding the
\* THREAD_LOCK of u.
CanInterrupt(u, f) ==
    "INTERRUPTABLE" \in flags[u] \/ (f = "ABORTED" /\ "ABORTABLE" \in flags[u])

BeginInterrupt(t, u, place) ==
    /\ op' = [op EXCEPT ![t] = "interrupt"]
    /\ target' = [target EXCEPT ![t] = u]
    /\ globalLock' = t
    /\ Goto(t, place)

Interrupt(t, u, f) ==
    /\ pc[t] = "idle" /\ globalLock = NoThread /\ threadLock[u] = NoThread /\ f \notin flags[u]
    /\ flags' = [flags EXCEPT ![u] = @ \cup {f}]
    /\ \/ /\ CanInterrupt(u, f) /\ "WAITING" \in flags[u]
          /\ IF owner = t
             THEN /\ count < MaxCount /\ count' = count + 1
                  /\ BeginInterrupt(t, u, "iGot")
                  /\ UNCHANGED threadLock
             ELSE /\ BeginInterrupt(t, u, IF TryEnterSpin THEN "bound" ELSE "spin")
                  /\ threadLock' = [threadLock EXCEPT ![u] = t]
                  /\ UNCHANGED count
          /\ UNCHANGED signalled
       \/ /\ CanInterrupt(u, f) /\ "WAITING" \notin flags[u] /\ "BLOCKED" \in flags[u]
          /\ IF mutex = NoThread
             THEN Signal({u}) /\ UNCHANGED <<pc, op, target, globalLock>>
             ELSE BeginInterrupt(t, u, "iBlocked") /\ UNCHANGED signalled
          /\ UNCHANGED <<count, threadLock>>
       \/ /\ ~CanInterrupt(u, f) \/ flags[u] \cap {"WAITING", "BLOCKED"} = {}
          /\ UNCHANGED <<count, pc, op, target, globalLock, signalled, threadLock>>
    /\ UNCHANGED <<spinlockState, owner, spinVars, mutex, queueVars, abortable, saved, serverVars>>

\* interrupt_blocked_thread, when it had to wait for the mutex.
InterruptBlocked(t) ==
    /\ pc[t] = "iBlocked" /\ mutex = NoThread /\ threadLock[target[t]] = NoThread
    /\ Signal(IF {"BLOCKED", "ABORTABLE", "ABORTED"} \subseteq flags[target[t]] THEN {target[t]} ELSE {})
    /\ Return(t)
    /\ UNCHANGED <<lockVars, spinVars, mutex, queueVars, flags, serverVars, threadLock>>

\* threadInterruptWake, if u is still WAITING.
InterruptWake(u) ==
    IF "WAITING" \in flags[u]
    THEN flags' = [flags EXCEPT ![u] = @ \cup {"BLOCKED"}] /\ Signal({u})
    ELSE UNCHANGED <<flags, signalled>>

\* interrupt_waiting_thread in the monitor, and the beginning of its exit.
InterruptWaiting(t) ==
    /\ pc[t] = "iGot" /\ mutex = NoThread /\ threadLock[target[t]] = NoThread
    /\ InterruptWake(target[t])
    /\ count' = count - 1
    /\ IF count = 1
       THEN owner' = NoThread /\ Goto(t, "exSwap") /\ UNCHANGED <<callVars, globalLock>>
       ELSE Return(t) /\ UNCHANGED owner
    /\ UNCHANGED <<spinlockState, spinVars, mutex, queueVars, serverVars, threadLock>>

\* interruptServer: before it enters the monitor of its target ...
ServerStart(s) ==
    /\ pc[s] = "born" /\ globalLock = NoThread /\ threadLock[target[s]] = NoThread
    /\ IF canceled[s] \/ interrupter[target[s]] # s
       THEN Return(s)
       ELSE Goto(s, "bound") /\ UNCHANGED <<callVars, globalLock>>
    /\ UNCHANGED <<lockVars, spinVars, mutex, queueVars, flags, signalled, serverVars, threadLock>>

\* ... and in it; omrthread_exit(monitor) then leaves the monitor.
ServerInterrupts(s) ==
    /\ pc[s] = "sGot" /\ globalLock = NoThread /\ threadLock[target[s]] = NoThread
    /\ IF canceled[s]
       THEN UNCHANGED <<flags, signalled, interrupter>>
       ELSE /\ IF interrupter[target[s]] = s THEN InterruptWake(target[s])
                                             ELSE UNCHANGED <<flags, signalled>>
            /\ interrupter' = [interrupter EXCEPT ![target[s]] = NoThread]
    /\ owner' = NoThread /\ count' = 0
    /\ Goto(s, "exSwap")
    /\ UNCHANGED <<spinlockState, spinVars, mutex, queueVars, callVars, canceled, globalLock, threadLock>>

\* omrthread_clear_interrupted and omrthread_clear_priority_interrupted
ClearInterrupted(t) ==
    /\ pc[t] = "idle" /\ threadLock[t] = NoThread
    /\ \E f \in {"INTERRUPTED", "PRIORITY_INTERRUPTED"} \cap flags[t] :
          flags' = [flags EXCEPT ![t] = @ \ {f}]
    /\ UNCHANGED <<lockVars, spinVars, mutex, queueVars, pc, callVars, signalled, serverVars,
                   globalLock, threadLock>>

-----------------------------------------------------------------------------
\* The steps of a call that has begun.
Step(t) ==
    \/ SpinBound(t) \/ SpinAdd(t) \/ Spin(t) \/ Acquired(t) \/ NotAcquired(t)
    \/ EnterSlowly(t) \/ Block(t) \/ Unblock(t) \/ EnterDone(t)
    \/ ExitSwap(t) \/ ExitWake(t)
    \/ WaitRelease(t) \/ WaitEnqueue(t) \/ WaitEnds(t) \/ Resume(t)
    \/ InterruptBlocked(t) \/ InterruptWaiting(t) \/ ServerStart(t) \/ ServerInterrupts(t)

Next ==
    \E t \in Threads :
        \/ EnterRecursively(t) \/ Enter(t) \/ TryEnter(t) \/ Exit(t) \/ Wait(t) \/ Notify(t)
        \/ ClearInterrupted(t) \/ SpuriousWakeup(t)
        \/ \E u \in Callers \ {t}, f \in InterruptKinds : Interrupt(t, u, f)
        \/ Step(t)

Spec == Init /\ [][Next]_vars

\* The scheduler runs every thread, the mutexes are handed on, and owners exit.
FairSpec == Spec /\ \A t \in Threads : WF_vars(Step(t)) /\ WF_vars(Exit(t))

-----------------------------------------------------------------------------
(* What makes the monitor correct. *)

\* The threads that hold the spinlock: from the atomic operation that found it
\* UNOWNED to the exchange that makes it so again.
Holders ==
    {t \in Threads : owner = t \/ pc[t] \in {"spun", "post", "iGot", "sGot", "exSwap", "wLock"}}

\* spinlockState is UNOWNED exactly when nobody holds the monitor, and never
\* two threads do, although three different atomic operations race for it and
\* EXCEEDED is written over OWNED by threads that do not own it.
SpinlockHasOneHolder ==
    /\ spinlockState = "UNOWNED" <=> Holders = {}
    /\ \A t, u \in Holders : t = u
    /\ owner # NoThread => count > 0

\* The queues hold who they should: a thread is on one queue at most, and the
\* wait numbers tell exactly who was moved by notify_all, which is how
\* monitor_wait finds the queue to leave and whether it was notified.
QueuesAreExact ==
    LET all == notifyAllWaiting \o waiting \o blocking IN
    /\ IsInjective(all)
    /\ \A t \in Threads :
        /\ (t \in Range(blocking)) <=>
               \/ pc[t] = "blocked"
               \/ FastNotify /\ pc[t] \in {"waiting", "wakeup", "timeout"} /\ "NOTIFIED" \in flags[t]
        /\ (t \in Range(all)) <=> pc[t] \in {"blocked", "waiting", "wakeup", "timeout"}
        /\ ~FastNotify /\ pc[t] \in {"waiting", "wakeup", "timeout"} =>
               (OnNotifyAllWaitList(t) <=> t \in Range(notifyAllWaiting))

\* Threads asleep in monitor_enter, or notified by fast notify, that nothing
\* has woken.
Sleeping(t) == t \in Range(blocking) /\ pc[t] \in {"blocked", "waiting"} /\ ~signalled[t]

\* A thread on its way to take the spinlock, or to wake blocked threads.
WillTryOrWake(t) ==
    \/ pc[t] \in {"exLock", "wEnqueue"}
    \/ pc[t] \in {"bound", "spinAdd", "spin"}
    \/ pc[t] \in {"unspun", "mlock"} /\ op[t] # "try_enter"
    \/ pc[t] = "born" /\ ~canceled[t]
    \/ t \in Range(blocking) /\ ~Sleeping(t)

\* While threads sleep on a free monitor somebody is about to take it, whose
\* exit will wake them, or to wake them itself.
NoStrandedThread ==
    (\E t \in Threads : Sleeping(t)) /\ spinlockState = "UNOWNED"
        => \E t \in Threads : WillTryOrWake(t)

\* The record of every thread and of the monitor is well-formed, counters within
\* their limits, and each thread is in exactly the queue its flags say.
QueueInv == TypeOK /\ QueuesAreExact

\* An interrupter that has yet to wake u.
Interrupting(t, u) ==
    /\ target[t] = u
    /\ \/ op[t] = "interrupt" /\ pc[t] # "exSwap" /\ pc[t] # "exLock"
       \/ op[t] = "interruptServer" /\ interrupter[u] = t /\ ~canceled[t]

\* A thread that waits in a wait which an interrupt, that has been delivered to
\* its flags, should end, is woken or will be.
InterruptNotLost ==
    \A u \in Threads :
        /\ pc[u] = "waiting" /\ ~signalled[u]
        /\ Interrupted(flags[u], flags[u]) \/ PriorityInterrupted(flags[u], flags[u])
        => Notified(u) \/ \E t \in Threads : Interrupting(t, u)

\* The assertion of interrupt_waiting_thread and interrupt_blocked_thread.
OneInterrupterAtATime ==
    \A t, u \in Threads :
        op[t] = "interrupt" /\ target[t] = u /\ pc[t] \in {"bound", "spinAdd", "spin", "unspun"}
            => interrupter[u] = NoThread

\* With notified threads moved to the blocking queue, each thread is on the queue that its
\* flags and place say, and an exit, which wakes only some of that queue, strands nobody.
FastNotifyInv == QueueInv /\ NoStrandedThread

\* Once nobody makes a new call but exits, every call to enter or exit returns, although
\* an exit wakes only some of the blocked threads, or none while another one spins.
NewCall(t) == (pc[t] = "idle" /\ pc'[t] # "idle" /\ ~Exit(t)) \/ EnterRecursively(t)

EntriesComplete ==
    <>[][\A t \in Threads : ~NewCall(t)]_vars =>
        \A t \in Threads : (op[t] \in {"enter", "try_enter", "exit"}) ~> (op[t] = "none")

-----------------------------------------------------------------------------
(* The monitor its users see: module Monitor. *)

\* The owner of the spinlock is the owner once its call returns it.
Returned == owner # NoThread /\ pc[owner] # "post"
WaitState(t) ==
    IF op[t] # "wait" THEN "none" ELSE IF "WAITING" \in flags[t] THEN "waiting" ELSE "woken"

Mon == INSTANCE Monitor WITH
    owner     <- IF Returned THEN owner ELSE NoThread,
    count     <- IF Returned THEN count ELSE 0,
    waitState <- [t \in Threads |-> WaitState(t)]

\* Every step of the three-tier monitor is a step of the abstract monitor or
\* none: one thread at a time has it, only its owner releases it, waits or
\* notifies, and a wait that returns with the monitor has its entry count back.
ImplementsMonitor == Mon!Spec

\* A notification is not wasted: while a thread waits that was not notified,
\* whatever already notified or interrupted threads are on the queue with it,
\* the notify of an owner makes a thread stop waiting.
NotifyReachesAWaiter ==
    owner # NoThread /\ mutex = NoThread /\ Mon!Waiters # {}
        => (IF FastNotify THEN Range(Moved(FALSE)) ELSE ChosenToNotify(FALSE)) \cap Mon!Waiters # {}
=============================================================================

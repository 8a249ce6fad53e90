------------------------- MODULE ParallelDispatcher -------------------------
(***************************************************************************)
(* MM_ParallelDispatcher, gc/base/ParallelDispatcher.cpp, and the run() of *)
(* its base class, gc/base/Dispatcher.cpp: how GC slave threads are        *)
(* started, given to tasks and shut down.                                  *)
(*                                                                         *)
(* The controller is the thread that calls startUpThreads, then            *)
(* shutDownThreads (gc/startup/omrgcstartup.cpp).  The master is whichever *)
(* thread has exclusive VM access and runs a task as slave 0; during a     *)
(* shutdown it may be a slave that is detaching.  The slaves are 1, 2, ... *)
(*                                                                         *)
(* No thread holds _slaveThreadMutex or _dispatcherMonitor across a wait   *)
(* for anything but that monitor, so a section under one of them, up to    *)
(* its exit or its wait, is one step; the monitor's wait set remains.      *)
(* What is written without a monitor is a step of its own.  The task is    *)
(* what ParallelTask shows of it: its complete() counts the threads and    *)
(* lets the master return when all have come.                              *)
(*                                                                         *)
(* Definitions marked `mutant' are seeded faults, used to show that the    *)
(* properties can fail.                                                    *)
(***************************************************************************)
EXTENDS Naturals, FiniteSets

CONSTANTS
    MaxThreads,         \* gcThreadCount, the size of the thread tables
    MaxTasks,           \* bound on the tasks that are run
    Forks               \* bound on the forks after which the dispatcher is restarted

ASSUME MaxThreadsAssumption == MaxThreads \in Nat \ {0}
ASSUME BoundsAssumption == MaxTasks \in Nat /\ Forks \in Nat

VARIABLES
    threadCountMaximum, threadCount, activeThreadCount,
    threadShutdownCount, slaveThreadsReservedForGC, inShutdown,
    statusTable,        \* _statusTable
    slaveFlags,         \* slaveInfo.slaveFlags, on the stack of startUpThreads
    slaveID,            \* slaveThreadCount: the slave being started
    slavePc,            \* where each slave is
    slaveWaiters,       \* slaves that wait on _slaveThreadMutex and were not notified
    controllerPc,       \* where the controller is
    controllerWaits,    \* it waits on the monitor of its section and was not notified
    returnTo,           \* where it goes on when shutDownThreads returns
    masterPc,           \* where the thread that runs a task is
    default,            \* its local variable defaultThreadCount
    taskTotal, taskLeft,    \* the task's _totalThreadCount and _threadCount
    tasks, forks,       \* tasks begun and forks made so far
    orders              \* history: what shutDownThreads last told the slaves, and whether
                        \* a task's thread count has overruled it

countVars == <<threadCountMaximum, threadCount, activeThreadCount>>
shutdownVars == <<threadShutdownCount, inShutdown>>
startVars == <<slaveFlags, slaveID>>
controllerVars == <<controllerPc, controllerWaits, returnTo>>
slaveVars == <<slavePc, slaveWaiters>>
taskVars == <<taskTotal, taskLeft, tasks>>
masterVars == <<masterPc, default>>
vars == <<countVars, shutdownVars, slaveThreadsReservedForGC, statusTable, startVars,
          controllerVars, slaveVars, taskVars, masterVars, forks, orders>>

IDs == 0..(MaxThreads - 1)
Slaves == IDs \ {0}

TypeOK ==
    /\ threadCountMaximum \in 1..MaxThreads /\ threadCount \in 1..MaxThreads
    /\ activeThreadCount \in 1..MaxThreads
    /\ threadShutdownCount \in 0..MaxThreads
    /\ slaveThreadsReservedForGC \in BOOLEAN /\ inShutdown \in BOOLEAN
    /\ statusTable \in [IDs -> {"inactive", "waiting", "reserved", "active", "dying"}]
    /\ slaveFlags \in {"none", "OK", "FAILED"} /\ slaveID \in 1..MaxThreads
    /\ slavePc \in [Slaves -> {"unborn", "started", "flagged", "failing", "loop", "task", "detach", "gone"}]
    /\ slaveWaiters \subseteq Slaves
    /\ controllerPc \in {"new", "create", "starting", "up", "shut1", "shut2", "shut3", "down", "failed"}
    /\ controllerWaits \in BOOLEAN /\ returnTo \in {"down", "shut1", "failed", "up"}
    /\ masterPc \in {"idle", "ask", "prepare", "accept", "run", "complete", "cleanup", "restore"}
    /\ default \in 1..MaxThreads
    /\ taskTotal \in 0..MaxThreads /\ taskLeft \in 0..MaxThreads
    /\ tasks \in 0..MaxTasks /\ forks \in 0..Forks
    /\ orders \in {"serve", "die", "overruled"}

\* The constructor and initialize().
Init ==
    /\ threadCountMaximum = MaxThreads /\ threadCount = 1 /\ activeThreadCount = 1
    /\ threadShutdownCount = 0
    /\ slaveThreadsReservedForGC = FALSE /\ inShutdown = FALSE
    /\ statusTable = [i \in IDs |-> "inactive"]
    /\ slaveFlags = "none" /\ slaveID = 1
    /\ slavePc = [s \in Slaves |-> "unborn"]
    /\ slaveWaiters = {}
    /\ controllerPc = "new" /\ controllerWaits = FALSE /\ returnTo = "down"
    /\ masterPc = "idle" /\ default = 1
    /\ taskTotal = 0 /\ taskLeft = 0
    /\ tasks = 0 /\ forks = 0 /\ orders = "serve"

-----------------------------------------------------------------------------
(* startUpThreads *)

StartUpThreads ==
    /\ controllerPc = "new"
    /\ threadShutdownCount' = 0
    /\ slaveID' = 1
    /\ controllerPc' = "create"
    /\ UNCHANGED <<countVars, inShutdown, slaveThreadsReservedForGC, statusTable, slaveFlags,
                   controllerWaits, returnTo, slaveVars, taskVars, masterVars, forks, orders>>

\* startUpThreads calls shutDownThreads when it fails.  Its first caller then does the
\* same; reinitAfterFork ignores the result, and the dispatcher remains, without slaves.
StartFails == controllerPc' = "shut1" /\ returnTo' = IF forks = 0 THEN "shut1" ELSE "up"

\* Fork the next slave and wait until it has reported; or there is none.
CreateThread ==
    /\ controllerPc = "create" /\ slaveID < threadCountMaximum
    /\ slaveFlags' = "none"
    /\ \/ /\ slavePc' = [slavePc EXCEPT ![slaveID] = "started"]
          /\ controllerPc' = "starting" /\ controllerWaits' = TRUE
          /\ UNCHANGED returnTo
       \/ StartFails /\ UNCHANGED <<slavePc, controllerWaits>>
    /\ UNCHANGED <<countVars, shutdownVars, slaveThreadsReservedForGC, statusTable, slaveID,
                   slaveWaiters, taskVars, masterVars, forks, orders>>

\* The slave has reported, and startUpThreads has heard of it.
NotAwaited == TRUE                                                  \* mutant
Reported == ~controllerWaits /\ slaveFlags # "none"

\* A slave that has started will report its end.
CountedStart == threadShutdownCount' = threadShutdownCount + 1

ThreadStarted ==
    /\ controllerPc = "starting" /\ Reported
    /\ \/ /\ slaveFlags = "OK"
          /\ CountedStart
          /\ slaveID' = slaveID + 1
          /\ controllerPc' = "create"
          /\ UNCHANGED returnTo
       \/ slaveFlags # "OK" /\ StartFails /\ UNCHANGED <<threadShutdownCount, slaveID>>
    /\ UNCHANGED <<countVars, inShutdown, slaveThreadsReservedForGC, statusTable, slaveFlags,
                   controllerWaits, slaveVars, taskVars, masterVars, forks, orders>>

\* adjustThreadCount: the heap size and the CPUs may ask for fewer threads.
Adjusted(n) == 1..n

AllStarted ==
    /\ controllerPc = "create" /\ slaveID >= threadCountMaximum
    /\ threadCount' = threadCountMaximum
    /\ activeThreadCount' \in Adjusted(threadCountMaximum)
    /\ controllerPc' = "up"
    /\ UNCHANGED <<threadCountMaximum, shutdownVars, slaveThreadsReservedForGC, statusTable,
                   startVars, controllerWaits, returnTo, slaveVars, taskVars, masterVars, forks, orders>>

\* reinitAfterFork in the child process, which has none of the slaves; a
\* smaller thread count may be asked for.  It enters startUpThreads.  (A process
\* whose restart has failed, and in which _inShutdown stays set, is not forked again.)
ReinitAfterFork ==
    /\ controllerPc = "up" /\ masterPc = "idle" /\ ~inShutdown /\ forks < Forks
    /\ forks' = forks + 1
    /\ statusTable' = [i \in IDs |-> IF i < threadCountMaximum THEN "dying" ELSE statusTable[i]]
    /\ threadCountMaximum' \in 1..threadCountMaximum
    /\ slavePc' = [s \in Slaves |-> "unborn"] /\ slaveWaiters' = {}
    /\ threadShutdownCount' = 0 /\ slaveID' = 1
    /\ controllerPc' = "create"
    /\ UNCHANGED <<threadCount, activeThreadCount, inShutdown, slaveThreadsReservedForGC,
                   slaveFlags, controllerWaits, returnTo, taskVars, masterVars, orders>>

-----------------------------------------------------------------------------
(* shutDownThreads *)

BeginShutdown ==
    /\ controllerPc = "up"
    /\ controllerPc' = "shut1" /\ returnTo' = "down"
    /\ UNCHANGED <<countVars, shutdownVars, slaveThreadsReservedForGC, statusTable, startVars,
                   controllerWaits, slaveVars, taskVars, masterVars, forks, orders>>

\* _inShutdown is set without a monitor; nobody waits on _dispatcherMonitor yet.
SetInShutdown ==
    /\ controllerPc = "shut1"
    /\ inShutdown' = TRUE
    /\ controllerPc' = "shut2"
    /\ UNCHANGED <<countVars, threadShutdownCount, slaveThreadsReservedForGC, statusTable, startVars,
                   controllerWaits, returnTo, slaveVars, taskVars, masterVars, forks, orders>>

\* Under _slaveThreadMutex: wait for the end of a task ...
NeverWaitForTask == FALSE                                           \* mutant
MustWaitForTask == slaveThreadsReservedForGC

WaitForTask ==
    /\ controllerPc = "shut2" /\ ~controllerWaits
    /\ MustWaitForTask
    /\ controllerWaits' = TRUE
    /\ UNCHANGED <<countVars, shutdownVars, slaveThreadsReservedForGC, statusTable, startVars,
                   controllerPc, returnTo, slaveVars, taskVars, masterVars, forks, orders>>

\* ... and tell every slave to die.
AllWoken == {}

KillSlaves ==
    /\ controllerPc = "shut2" /\ ~controllerWaits /\ ~MustWaitForTask
    /\ statusTable' = [i \in IDs |-> IF i < threadCountMaximum THEN "dying" ELSE statusTable[i]]
    /\ threadCount' = 1
    /\ slaveWaiters' = AllWoken
    /\ orders' = IF orders = "serve" THEN "die" ELSE orders
    /\ controllerPc' = "shut3"
    /\ UNCHANGED <<threadCountMaximum, activeThreadCount, shutdownVars, slaveThreadsReservedForGC,
                   startVars, controllerWaits, returnTo, slavePc, taskVars, masterVars, forks>>

\* Under _dispatcherMonitor: wait for the slaves that were started.
AnyLeft == threadShutdownCount # 0

WaitForSlaves ==
    /\ controllerPc = "shut3" /\ ~controllerWaits
    /\ \/ AnyLeft /\ controllerWaits' = TRUE /\ UNCHANGED <<controllerPc, returnTo>>
       \/ /\ ~AnyLeft
          /\ controllerPc' = returnTo
          /\ returnTo' = IF returnTo = "shut1" THEN "failed" ELSE returnTo
          /\ UNCHANGED controllerWaits
    /\ UNCHANGED <<countVars, shutdownVars, slaveThreadsReservedForGC, statusTable, startVars,
                   slaveVars, taskVars, masterVars, forks, orders>>

-----------------------------------------------------------------------------
(* dispatcher_thread_proc2 and slaveEntryPoint *)

\* The controller, if it waits on _dispatcherMonitor, is notified.
NotifyDispatcher == controllerWaits' = (controllerWaits /\ controllerPc = "shut2")

\* Attaching succeeds or fails; the flag is written without a monitor.
Attach(s) ==
    /\ slavePc[s] = "started"
    /\ \/ slaveFlags' = "OK" /\ slavePc' = [slavePc EXCEPT ![s] = "flagged"]
       \/ slaveFlags' = "FAILED" /\ slavePc' = [slavePc EXCEPT ![s] = "failing"]
    /\ UNCHANGED <<countVars, shutdownVars, slaveThreadsReservedForGC, statusTable, slaveID,
                   controllerVars, slaveWaiters, taskVars, masterVars, forks, orders>>

AttachFailed(s) ==
    /\ slavePc[s] = "failing"
    /\ NotifyDispatcher
    /\ slavePc' = [slavePc EXCEPT ![s] = "gone"]
    /\ UNCHANGED <<countVars, shutdownVars, slaveThreadsReservedForGC, statusTable, startVars,
                   controllerPc, returnTo, slaveWaiters, taskVars, masterVars, forks, orders>>

SetThreadInitializationComplete(s) ==
    /\ slavePc[s] = "flagged"
    /\ statusTable' = [statusTable EXCEPT ![s] = "waiting"]
    /\ NotifyDispatcher
    /\ slavePc' = [slavePc EXCEPT ![s] = "loop"]
    /\ UNCHANGED <<countVars, shutdownVars, slaveThreadsReservedForGC, startVars, controllerPc,
                   returnTo, slaveWaiters, taskVars, masterVars, forks, orders>>

\* A turn of the loop under _slaveThreadMutex: wait, accept a task, or leave.
SlaveLoop(s) ==
    /\ slavePc[s] = "loop" /\ s \notin slaveWaiters
    /\ \/ /\ statusTable[s] = "waiting"
          /\ slaveWaiters' = slaveWaiters \cup {s}
          /\ UNCHANGED <<slavePc, statusTable>>
       \/ /\ statusTable[s] = "reserved"
          /\ statusTable' = [statusTable EXCEPT ![s] = "active"]
          /\ slavePc' = [slavePc EXCEPT ![s] = "task"]
          /\ UNCHANGED slaveWaiters
       \/ /\ statusTable[s] = "dying"
          /\ slavePc' = [slavePc EXCEPT ![s] = "detach"]
          /\ UNCHANGED <<statusTable, slaveWaiters>>
    /\ UNCHANGED <<countVars, shutdownVars, slaveThreadsReservedForGC, startVars, controllerVars,
                   taskVars, masterVars, forks, orders>>

\* The task's run() has returned; completeTask, and the loop is back at its test.
SlaveCompletesTask(s) ==
    /\ slavePc[s] = "task"
    /\ statusTable' = [statusTable EXCEPT ![s] = "waiting"]
    /\ taskLeft' = taskLeft - 1
    /\ slavePc' = [slavePc EXCEPT ![s] = "loop"]
    /\ slaveWaiters' = slaveWaiters \cup {s}
    /\ UNCHANGED <<countVars, shutdownVars, slaveThreadsReservedForGC, startVars, controllerVars,
                   taskTotal, tasks, masterVars, forks, orders>>

\* The slave has detached, which may take a GC, and reports its end.
UncountedExit == UNCHANGED threadShutdownCount                      \* mutant
CountedExit == threadShutdownCount' = threadShutdownCount - 1

SlaveExits(s) ==
    /\ slavePc[s] = "detach"
    /\ CountedExit
    /\ NotifyDispatcher
    /\ slavePc' = [slavePc EXCEPT ![s] = "gone"]
    /\ UNCHANGED <<countVars, inShutdown, slaveThreadsReservedForGC, statusTable, startVars,
                   controllerPc, returnTo, slaveWaiters, taskVars, masterVars, forks, orders>>

-----------------------------------------------------------------------------
(* MM_Dispatcher::run by the master *)

\* Read the default thread count.  A caller may give another one for its task, as
\* the concurrent scavenger does.  GCs go on while the dispatcher is shut down.
RunTask ==
    /\ masterPc = "idle" /\ tasks < MaxTasks
    /\ controllerPc = "up" \/ (controllerPc \in {"shut1", "shut2", "shut3"} /\ returnTo = "down")
    /\ tasks' = tasks + 1
    /\ default' = threadCount
    /\ masterPc' \in {"ask", "prepare"}
    /\ UNCHANGED <<countVars, shutdownVars, slaveThreadsReservedForGC, statusTable, startVars,
                   controllerVars, slaveVars, taskTotal, taskLeft, forks, orders>>

\* setThreadCount(newThreadCount), without a monitor.
SetThreadCount ==
    /\ masterPc = "ask"
    /\ threadCount' \in 1..threadCountMaximum
    /\ masterPc' = "prepare"
    /\ UNCHANGED <<threadCountMaximum, activeThreadCount, shutdownVars, slaveThreadsReservedForGC,
                   statusTable, startVars, controllerVars, slaveVars, taskVars, default, forks, orders>>

\* The threads a task is given to.
ReserveOneMore(n) == {i \in IDs : i <= n}                           \* mutant
Reserved(n) == {i \in IDs : i < n}

PrepareThreadsForTask ==
    /\ masterPc = "prepare"
    /\ slaveThreadsReservedForGC' = TRUE
    /\ \E n \in Adjusted(threadCount) :
        /\ activeThreadCount' = n
        /\ taskTotal' = n /\ taskLeft' = n
        /\ statusTable' = [i \in IDs |-> IF i \in Reserved(n) THEN "reserved" ELSE statusTable[i]]
    /\ slaveWaiters' = AllWoken
    /\ orders' = IF orders = "die" /\ threadCount > 1 THEN "overruled" ELSE orders
    /\ masterPc' = "accept"
    /\ UNCHANGED <<threadCountMaximum, threadCount, shutdownVars, startVars, controllerVars,
                   slavePc, tasks, default, forks>>

\* The master accepts and, when its run() has returned, completes without
\* _slaveThreadMutex.
MasterAccepts ==
    /\ masterPc = "accept"
    /\ statusTable' = [statusTable EXCEPT ![0] = "active"]
    /\ masterPc' = "run"
    /\ UNCHANGED <<countVars, shutdownVars, slaveThreadsReservedForGC, startVars, controllerVars,
                   slaveVars, taskVars, default, forks, orders>>

MasterCompletes ==
    /\ masterPc = "run"
    /\ statusTable' = [statusTable EXCEPT ![0] = "waiting"]
    /\ taskLeft' = taskLeft - 1
    /\ masterPc' = "complete"
    /\ UNCHANGED <<countVars, shutdownVars, slaveThreadsReservedForGC, startVars, controllerVars,
                   slaveVars, taskTotal, tasks, default, forks, orders>>

\* The task's complete() returns to the master; then cleanupAfterTask.
TaskDone ==
    /\ masterPc = "complete" /\ taskLeft = 0
    /\ masterPc' = "cleanup"
    /\ UNCHANGED <<countVars, shutdownVars, slaveThreadsReservedForGC, statusTable, startVars,
                   controllerVars, slaveVars, taskVars, default, forks, orders>>

\* Is a shutdown told of the end of the task?
NeverTold == FALSE                                                  \* mutant
ShutdownIsTold == inShutdown

CleanupAfterTask ==
    /\ masterPc = "cleanup"
    /\ slaveThreadsReservedForGC' = FALSE
    /\ IF ShutdownIsTold
       THEN slaveWaiters' = AllWoken /\ controllerWaits' = (controllerWaits /\ controllerPc # "shut2")
       ELSE UNCHANGED <<slaveWaiters, controllerWaits>>
    /\ masterPc' = "restore"
    /\ UNCHANGED <<countVars, shutdownVars, statusTable, startVars, controllerPc, returnTo, slavePc,
                   taskVars, default, forks, orders>>

\* setThreadCount(defaultThreadCount), without a monitor.
RestoreThreadCount ==
    /\ masterPc = "restore"
    /\ threadCount' = default
    /\ masterPc' = "idle"
    /\ UNCHANGED <<threadCountMaximum, activeThreadCount, shutdownVars, slaveThreadsReservedForGC,
                   statusTable, startVars, controllerVars, slaveVars, taskVars, default, forks, orders>>

-----------------------------------------------------------------------------
Controller ==
    \/ StartUpThreads \/ CreateThread \/ ThreadStarted \/ AllStarted
    \/ SetInShutdown \/ WaitForTask \/ KillSlaves \/ WaitForSlaves
Slave(s) ==
    \/ Attach(s) \/ AttachFailed(s) \/ SetThreadInitializationComplete(s)
    \/ SlaveLoop(s) \/ SlaveCompletesTask(s) \/ SlaveExits(s)
Master ==
    \/ SetThreadCount \/ PrepareThreadsForTask \/ MasterAccepts \/ MasterCompletes \/ TaskDone
    \/ CleanupAfterTask \/ RestoreThreadCount

\* The dispatcher is down and nothing runs any more; or a task may wait for slaves
\* that are gone.
Down == controllerPc \in {"down", "failed"} /\ masterPc = "idle" /\ UNCHANGED vars
Hung == orders = "overruled" /\ UNCHANGED vars

Next ==
    \/ Controller \/ BeginShutdown \/ ReinitAfterFork
    \/ \E s \in Slaves : Slave(s)
    \/ RunTask \/ Master
    \/ Down \/ Hung

Spec == Init /\ [][Next]_vars

\* The scheduler runs every thread; nobody has to run a task, fork or shut down.
FairSpec ==
    /\ Spec
    /\ WF_vars(Controller) /\ WF_vars(Master) /\ \A s \in Slaves : WF_vars(Slave(s))

-----------------------------------------------------------------------------
(* What makes the dispatcher correct. *)

Alive(s) == slavePc[s] \notin {"unborn", "gone"}

\* A slave that starts uses slaveInfo, on the stack of startUpThreads, only while
\* startUpThreads is there and waits for this slave.
SlaveInfoAlive ==
    \A s \in Slaves : slavePc[s] = "started" =>
        controllerPc = "starting" /\ slaveID = s /\ slaveFlags = "none"

\* Slaves that were told to die are left alone: no task was prepared with a thread count
\* above one that setThreadCount had written over the 1 of shutDownThreads, by a task
\* that asks for a count (Dispatcher.cpp:95) or restores the one it had read (:107).
NotOverruled == orders # "overruled"

\* While a task is in progress, the threads it still counts on are exactly those
\* that have it in the tables, and each of these slaves is there to take it; also
\* when shutDownThreads kills the slaves before the task's prepareThreadsForTask,
\* unless that finds the thread count of one overwritten.
NobodyMissing ==
    NotOverruled /\ masterPc \in {"accept", "run", "complete"} =>
        /\ taskLeft = Cardinality({i \in IDs : statusTable[i] \in {"reserved", "active"}})
        /\ \A s \in Slaves :
              /\ statusTable[s] = "reserved" => slavePc[s] = "loop" /\ s \notin slaveWaiters
              /\ statusTable[s] = "active" <=> slavePc[s] = "task"

\* _threadShutdownCount is the number of slaves that will report their end, so
\* that a shutdown waits for every one, and for no one else.
ShutdownCountExact ==
    threadShutdownCount =
        Cardinality({s \in Slaves : Alive(s) /\ ~(controllerPc = "starting" /\ s = slaveID)})

\* When shutDownThreads has returned for the last time and the dispatcher may be
\* deleted, no slave is left that could use it.
ShutdownIsComplete == controllerPc \in {"down", "failed"} => \A s \in Slaves : ~Alive(s)

\* The tables and counts of the dispatcher keep their ranges, a shutdown waits for
\* exactly the slaves there are, and has seen them all go when it returns.
ShutdownExact == TypeOK /\ ShutdownCountExact /\ ShutdownIsComplete

\* A slave that runs and was told to die by shutDownThreads is not made to forget
\* it, by a task's preparation or by its own completeTask: it would sleep forever.
\* Only a task that overrules the count of one does that.
DyingIsFinal ==
    [][NotOverruled' => \A s \in Slaves :
        statusTable[s] = "dying" /\ slavePc[s] \in {"loop", "task", "detach"} =>
            statusTable'[s] = "dying"]_vars

\* A task that was begun ends, and a shutdown that was begun ends, unless a task
\* counts on slaves that were told to die.
TasksEnd == (masterPc # "idle") ~> (masterPc = "idle" \/ ~NotOverruled)
ShutdownEnds ==
    (controllerPc \in {"shut1", "shut2", "shut3"}) ~> (controllerPc \in {"up", "down", "failed"} \/ ~NotOverruled)
TasksAndShutdownEnd == TasksEnd /\ ShutdownEnds

\* What shutDownThreads says of its `_threadCount = 1', that a GC then is "a single
\* threaded GC" (ParallelDispatcher.cpp:366-368), and recomputeActiveThreadCount of the
\* count it finds, "1 if we ... are in process of shutting down" (:412-416).  The code
\* does not keep to it.
SingleThreadedInShutdown ==
    [][orders = "die" /\ masterPc = "prepare" /\ masterPc' = "accept" => taskTotal' = 1]_vars
=============================================================================

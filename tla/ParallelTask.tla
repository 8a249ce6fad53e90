---------------------------- MODULE ParallelTask ----------------------------
(***************************************************************************)
(* The life of one MM_ParallelTask, gc/base/ParallelTask.cpp: the GC       *)
(* threads that were reserved for it, the work units they share out, and   *)
(* the points where they synchronise on _synchronizeMutex (an INSTANCE of  *)
(* Monitor).                                                               *)
(*                                                                         *)
(* Every thread runs the same Program, as the run() of a task is written:  *)
(* loops over work units, barriers, barriers that let one thread on while  *)
(* the others are held, and, past its end, complete().  A call is split    *)
(* where it enters or leaves the mutex, waits, or touches a field of the   *)
(* task without the mutex.                                                 *)
(*                                                                         *)
(* Definitions marked `mutant' are seeded faults, used to show that the    *)
(* properties can fail.                                                    *)
(***************************************************************************)
EXTENDS Naturals, Sequences, FiniteSets

CONSTANTS
    Threads,    \* GC threads of the dispatcher
    Master,     \* the one with slave ID 0
    NoThread,   \* NULL
    Program,    \* what run() does: a sequence of Kinds
    Units       \* work units of a loop

Kinds == {"work", "sync", "master", "single"}

ASSUME ThreadsAssumption == IsFiniteSet(Threads) /\ Master \in Threads /\ NoThread \notin Threads
ASSUME ProgramAssumption == Program \in Seq(Kinds) /\ Units \in Nat \ {0}

VARIABLES
    team,               \* the threads reserved for the task
    synchronized,       \* _synchronized
    syncPointUniqueId, syncPointWorkUnitIndex,
    threadCount,        \* _threadCount
    workUnitIndex,      \* _workUnitIndex
    synchronizeIndex, synchronizeCount,
    owner, count, waitState, saved,     \* _synchronizeMutex
    pc,                 \* where each thread is in a call
    at,                 \* where each thread is in the program
    unit,               \* work units it has seen in the loop it is in
    index,              \* the local variable `index'
    env,                \* env->_workUnitIndex and env->_workUnitToHandle
    handled             \* how often each unit of each loop was handled

Mutex == INSTANCE Monitor

mutexVars == <<owner, count, waitState, saved>>
pointVars == <<syncPointUniqueId, syncPointWorkUnitIndex>>
barrierVars == <<synchronizeIndex, synchronizeCount, threadCount>>
workVars == <<workUnitIndex, unit, env, handled>>
vars == <<team, synchronized, pointVars, barrierVars, mutexVars, pc, at, index, workVars>>

Steps == 1..Len(Program)
Complete == Len(Program) + 1
Kind(t) == IF at[t] = Complete THEN "complete" ELSE Program[at[t]]

totalThreadCount == Cardinality(team)

Places == {"run", "want", "in", "loop", "leave", "leaveReleased", "take",
           "section", "release", "releaseWant", "releaseIn", "done"}

TypeOK ==
    /\ team \in SUBSET Threads /\ Master \in team
    /\ synchronized \in BOOLEAN
    /\ syncPointUniqueId \in 0..Complete /\ syncPointWorkUnitIndex \in Nat
    /\ threadCount \in 0..totalThreadCount /\ workUnitIndex \in Nat
    /\ synchronizeIndex \in Nat /\ synchronizeCount \in 0..totalThreadCount
    /\ Mutex!TypeOK
    /\ pc \in [Threads -> Places]
    /\ at \in [Threads -> 1..Complete]
    /\ unit \in [Threads -> 0..(Units - 1)]
    /\ index \in [Threads -> Nat]
    /\ env \in [Threads -> [workUnitIndex : Nat, workUnitToHandle : Nat]]
    /\ handled \in [Steps -> [0..(Units - 1) -> Nat]]

\* A new task, after prepareThreadsForTask and the acceptTask of every thread.
Init ==
    /\ team \in {S \in SUBSET Threads : Master \in S}
    /\ synchronized = FALSE
    /\ syncPointUniqueId = 0 /\ syncPointWorkUnitIndex = 0
    /\ threadCount = totalThreadCount
    /\ workUnitIndex = 0
    /\ synchronizeIndex = 0 /\ synchronizeCount = 0
    /\ Mutex!Init
    /\ pc = [t \in Threads |-> "run"]
    /\ at = [t \in Threads |-> 1]
    /\ unit = [t \in Threads |-> 0]
    /\ index = [t \in Threads |-> 0]
    /\ env = [t \in Threads |-> [workUnitIndex |-> 1, workUnitToHandle |-> 0]]
    /\ handled = [i \in Steps |-> [k \in 0..(Units - 1) |-> 0]]

-----------------------------------------------------------------------------
(* Building blocks. *)

Goto(t, place) == pc' = [pc EXCEPT ![t] = place] /\ UNCHANGED at

\* The call of this step of the program returns.
NextStep(t) ==
    IF at[t] = Complete
    THEN Goto(t, "done")
    ELSE at' = [at EXCEPT ![t] = @ + 1] /\ pc' = [pc EXCEPT ![t] = "run"]

-----------------------------------------------------------------------------
(* handleNextWorkUnit *)

\* Does the calling thread handle all units: it is alone, or the others are held?
OnlyWhenAlone == totalThreadCount = 1                               \* mutant
HandlesAll == totalThreadCount = 1 \/ synchronized

\* The next unit the thread will handle, when it has reached the last one.
NextToHandle(t) == env[t].workUnitToHandle + 1                      \* mutant
ToHandle(t) == IF env[t].workUnitIndex > env[t].workUnitToHandle THEN workUnitIndex + 1
                                                                 ELSE env[t].workUnitToHandle

\* A turn of a loop over work units, in run() or in a section where the other
\* threads are held; the thread handles the unit if the call returned true.
HandleNextWorkUnit(t) ==
    LET mine == HandlesAll \/ env[t].workUnitIndex = ToHandle(t)
        last == unit[t] + 1 = Units
    IN
    /\ \/ pc[t] = "run" /\ Kind(t) = "work" /\ (IF last THEN NextStep(t) ELSE UNCHANGED <<pc, at>>)
       \/ pc[t] = "section" /\ Goto(t, IF last THEN "release" ELSE "section")
    /\ unit' = [unit EXCEPT ![t] = IF last THEN 0 ELSE @ + 1]
    /\ handled' = IF mine THEN [handled EXCEPT ![at[t]][unit[t]] = @ + 1] ELSE handled
    /\ IF HandlesAll
       THEN UNCHANGED <<env, workUnitIndex>>
       ELSE /\ env' = [env EXCEPT ![t] = [workUnitIndex |-> @.workUnitIndex + 1,
                                          workUnitToHandle |-> ToHandle(t)]]
            /\ workUnitIndex' = IF env[t].workUnitIndex > env[t].workUnitToHandle
                                THEN workUnitIndex + 1 ELSE workUnitIndex
    /\ UNCHANGED <<team, synchronized, pointVars, barrierVars, mutexVars, index>>

-----------------------------------------------------------------------------
(* synchronizeGCThreads, ...AndReleaseMaster, ...AndReleaseSingleThread and complete, *)
(* up to the mutex. *)

\* The two that release a thread read _synchronizeIndex before they enter.
Call(t) ==
    /\ pc[t] = "run" /\ Kind(t) # "work" /\ totalThreadCount > 1
    /\ index' = IF Kind(t) \in {"master", "single"} THEN [index EXCEPT ![t] = synchronizeIndex] ELSE index
    /\ Goto(t, "want")
    /\ UNCHANGED <<team, synchronized, pointVars, barrierVars, mutexVars, workVars>>

\* The calls of a thread that is alone.
CallAlone(t) ==
    /\ pc[t] = "run" /\ Kind(t) # "work" /\ totalThreadCount = 1
    /\ \/ Kind(t) = "sync" /\ NextStep(t) /\ UNCHANGED <<synchronized, threadCount>>
       \/ Kind(t) \in {"master", "single"} /\ synchronized' = TRUE /\ Goto(t, "section") /\ UNCHANGED threadCount
       \/ Kind(t) = "complete" /\ threadCount' = threadCount - 1 /\ NextStep(t) /\ UNCHANGED synchronized
    /\ UNCHANGED <<team, pointVars, synchronizeIndex, synchronizeCount, mutexVars, index, workVars>>

MutexEnter(t) ==
    /\ \/ pc[t] = "want" /\ Goto(t, "in")
       \/ pc[t] = "releaseWant" /\ Goto(t, "releaseIn")
    /\ Mutex!Enter(t)
    /\ UNCHANGED <<team, synchronized, pointVars, barrierVars, index, workVars>>

\* omrthread_monitor_wait returns.
MutexReacquire(t) ==
    /\ pc[t] = "loop" /\ Mutex!Reacquire(t)
    /\ UNCHANGED <<team, synchronized, pointVars, barrierVars, pc, at, index, workVars>>

-----------------------------------------------------------------------------
(* The bodies under the mutex. *)

\* The check of the synchronisation point: the first thread records where it
\* is, the others assert that they are there too.  A failed assertion stops
\* the program.
FirstAtPoint == synchronizeCount = 0
SamePoint(t) ==
    /\ syncPointUniqueId = at[t]
    /\ Kind(t) # "complete" => syncPointWorkUnitIndex = env[t].workUnitIndex

RecordPoint(t) ==
    IF FirstAtPoint
    THEN syncPointUniqueId' = at[t] /\ syncPointWorkUnitIndex' = env[t].workUnitIndex
    ELSE UNCHANGED pointVars

Arrive(t) == pc[t] = "in" /\ (FirstAtPoint \/ SamePoint(t))

\* Is the arriving thread the last one?
LastButOneArrives == synchronizeCount + 2 = threadCount             \* mutant
LastArrives == synchronizeCount + 1 = threadCount

\* What releasing a barrier does.
OpenBarrier(t) ==
    synchronizeCount' = 0 /\ synchronizeIndex' = synchronizeIndex + 1 /\ Mutex!NotifyAll(t)

SyncBody(t) ==
    /\ Kind(t) = "sync" /\ Arrive(t) /\ RecordPoint(t)
    /\ \/ LastArrives /\ OpenBarrier(t) /\ Goto(t, "leave") /\ UNCHANGED index
       \/ /\ ~LastArrives
          /\ synchronizeCount' = synchronizeCount + 1
          /\ index' = [index EXCEPT ![t] = synchronizeIndex]
          /\ Mutex!Wait(t) /\ Goto(t, "loop")
          /\ UNCHANGED synchronizeIndex
    /\ UNCHANGED <<team, synchronized, threadCount, workVars>>

\* A last slave notifies, so that the master, which waits, finds out.
MasterBody(t) ==
    /\ Kind(t) = "master" /\ Arrive(t) /\ RecordPoint(t)
    /\ synchronizeCount' = synchronizeCount + 1
    /\ \/ LastArrives /\ t = Master /\ Goto(t, "leaveReleased") /\ UNCHANGED mutexVars
       \/ LastArrives /\ t # Master /\ Mutex!NotifyAll(t) /\ Goto(t, "loop")
       \/ ~LastArrives /\ Goto(t, "loop") /\ UNCHANGED mutexVars
    /\ UNCHANGED <<team, synchronized, synchronizeIndex, threadCount, index, workVars>>

SingleBody(t) ==
    /\ Kind(t) = "single" /\ Arrive(t) /\ RecordPoint(t)
    /\ synchronizeCount' = synchronizeCount + 1
    /\ \/ LastArrives /\ Goto(t, "leaveReleased") /\ UNCHANGED mutexVars
       \/ ~LastArrives /\ Mutex!Wait(t) /\ Goto(t, "loop")
    /\ UNCHANGED <<team, synchronized, synchronizeIndex, threadCount, index, workVars>>

\* Does a slave that completes have to notify the master?
FirstNotifies == threadCount = totalThreadCount                     \* mutant
LastCompletes == threadCount = 1

OneLess == threadCount' = threadCount - 1

CompleteBody(t) ==
    /\ Kind(t) = "complete" /\ Arrive(t) /\ RecordPoint(t)
    /\ synchronizeCount' = synchronizeCount + 1
    /\ OneLess
    /\ \/ t = Master /\ Goto(t, "loop") /\ UNCHANGED mutexVars
       \/ t # Master /\ Goto(t, "leave") /\ (IF LastCompletes THEN Mutex!NotifyAll(t) ELSE UNCHANGED mutexVars)
    /\ UNCHANGED <<team, synchronized, synchronizeIndex, index, workVars>>

\* The wait loops, whenever the thread has the mutex in one.
MasterIsReleased(t) == t = Master /\ synchronizeCount = threadCount

MustWait(t) ==
    CASE Kind(t) \in {"sync", "single"} -> index[t] = synchronizeIndex
      [] Kind(t) = "master"   -> index[t] = synchronizeIndex /\ ~MasterIsReleased(t)
      [] Kind(t) = "complete" -> threadCount # 0

LoopBody(t) ==
    /\ pc[t] = "loop" /\ owner = t
    /\ \/ MustWait(t) /\ Mutex!Wait(t) /\ UNCHANGED <<pc, at>>
       \/ /\ ~MustWait(t)
          /\ Goto(t, IF Kind(t) = "master" /\ index[t] = synchronizeIndex THEN "leaveReleased" ELSE "leave")
          /\ UNCHANGED mutexVars
    /\ UNCHANGED <<team, synchronized, pointVars, barrierVars, index, workVars>>

\* omrthread_monitor_exit and the return.
Leave(t) ==
    /\ pc[t] = "leave" /\ Mutex!Exit(t) /\ NextStep(t)
    /\ UNCHANGED <<team, synchronized, pointVars, barrierVars, index, workVars>>

-----------------------------------------------------------------------------
(* The released thread, and releaseSynchronizedGCThreads. *)

\* The released thread leaves the mutex and only then sets _synchronized.
LeaveReleased(t) ==
    /\ pc[t] = "leaveReleased" /\ Mutex!Exit(t) /\ Goto(t, "take")
    /\ UNCHANGED <<team, synchronized, pointVars, barrierVars, index, workVars>>

Take(t) ==
    /\ pc[t] = "take" /\ synchronized' = TRUE /\ Goto(t, "section")
    /\ UNCHANGED <<team, pointVars, barrierVars, mutexVars, index, workVars>>

\* It clears _synchronized before it enters the mutex.
Release(t) ==
    /\ pc[t] = "release"
    /\ \/ totalThreadCount = 1 /\ synchronized' = FALSE /\ NextStep(t)
       \/ totalThreadCount > 1 /\ synchronized /\ synchronized' = FALSE /\ Goto(t, "releaseWant")
    /\ UNCHANGED <<team, pointVars, barrierVars, mutexVars, index, workVars>>

ReleaseBody(t) ==
    /\ pc[t] = "releaseIn" /\ OpenBarrier(t) /\ Goto(t, "leave")
    /\ UNCHANGED <<team, synchronized, pointVars, threadCount, index, workVars>>

-----------------------------------------------------------------------------
Step(t) ==
    \/ HandleNextWorkUnit(t) \/ Call(t) \/ CallAlone(t) \/ MutexEnter(t) \/ MutexReacquire(t)
    \/ SyncBody(t) \/ MasterBody(t) \/ SingleBody(t) \/ CompleteBody(t)
    \/ LoopBody(t) \/ Leave(t) \/ LeaveReleased(t) \/ Take(t) \/ Release(t) \/ ReleaseBody(t)

Finished == (\A t \in team : pc[t] = "done") /\ UNCHANGED vars

Next == (\E t \in team : Step(t)) \/ Finished

Spec == Init /\ [][Next]_vars

\* The scheduler runs every GC thread.
FairSpec == Spec /\ \A t \in Threads : WF_vars(t \in team /\ Step(t))

-----------------------------------------------------------------------------
(* What makes the task correct. *)

IsBarrier(i) == i \in Steps /\ Program[i] # "work"

\* A thread has come to step i; it is past it.
ArrivedAt(t, i) == at[t] > i \/ (at[t] = i /\ pc[t] \notin {"run", "want", "in"})
Released(t) == pc[t] \in {"leaveReleased", "take", "section", "release", "releaseWant", "releaseIn"}
PastOf(t, i) == at[t] > i \/ (at[t] = i /\ Released(t))

\* Nobody is past a synchronisation point, as one of all threads or as the one
\* that was released, before everybody has come to it.
BarrierHolds ==
    \A t \in team, i \in Steps : IsBarrier(i) /\ PastOf(t, i) => \A u \in team : ArrivedAt(u, i)

\* A thread that was released runs alone, until it has opened the barrier: the
\* others are held in the mutex's wait loop at the same point, although
\* _synchronized is set after leaving the mutex and cleared before entering it.
ReleasedAlone ==
    \A t \in team : Released(t) => \A u \in team \ {t} : at[u] = at[t] /\ pc[u] = "loop"

\* Work units are shared out: no unit is handled twice, and when a thread is past
\* a synchronisation point every unit before it has been handled, although each
\* thread counts the units for itself and a held thread does not count at all.
UnitsHandledOnce ==
    \A i \in Steps, k \in 0..(Units - 1) :
        /\ handled[i][k] <= 1
        /\ \A j \in Steps, t \in team :
              i < j /\ IsBarrier(j) /\ PastOf(t, j) /\ Program[i] # "sync" => handled[i][k] = 1

\* The assertions of the code: all threads come to the same point with the same
\* number of work units, and only a synchronised task is released.
AssertionsHold ==
    \A t \in team :
        /\ pc[t] = "in" => FirstAtPoint \/ SamePoint(t)
        /\ pc[t] = "release" => synchronized

\* The master returns from complete(), after which the task object may go, only
\* when no other thread is in a function of the task any more.
MasterLeavesLast == pc[Master] = "done" => \A t \in team : pc[t] = "done"

\* The synchronisation points, the release of one thread and the end of the task are
\* what the tasks take them for, and _threadCount and the other counters keep their
\* ranges meanwhile.
SynchronizationInv == TypeOK /\ BarrierHolds /\ ReleasedAlone /\ MasterLeavesLast

\* Every thread gets through the task: nobody is held for ever.
TaskCompletes == <>(\A t \in team : pc[t] = "done")
=============================================================================

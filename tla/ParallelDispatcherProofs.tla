---------------------- MODULE ParallelDispatcherProofs ----------------------
(***************************************************************************)
(* Proofs about ParallelDispatcher, for any size of the thread tables and  *)
(* any number of tasks and forks: a task counts on the slaves it has and   *)
(* no slave forgets that it has to die, unless a task's thread count has   *)
(* overruled shutDownThreads; and whatever tasks do, a shutdown waits for  *)
(* exactly the slaves there are and nobody uses what has gone.             *)
(***************************************************************************)
EXTENDS ParallelDispatcher, FiniteSetTheorems, TLAPS

-----------------------------------------------------------------------------
(* The inductive invariant. *)

ShuttingDown == controllerPc \in {"shut1", "shut2", "shut3"}

\* The threads that have a task in _statusTable.
Busy == {i \in IDs : statusTable[i] \in {"reserved", "active"}}

\* The slaves that will report their end.
Counted == {s \in Slaves : Alive(s) /\ ~(controllerPc = "starting" /\ s = slaveID)}

\* The dispatcher has come up and has not failed: tasks are run.
Serving == controllerPc \in {"up", "down"} \/ (ShuttingDown /\ returnTo = "down")

\* The task in progress.
TaskInv ==
    /\ slaveThreadsReservedForGC <=> masterPc \in {"accept", "run", "complete", "cleanup"}
    /\ IF masterPc \in {"accept", "run", "complete"} THEN taskLeft = Cardinality(Busy) ELSE Busy = {}
    /\ masterPc = "accept" => statusTable[0] = "reserved"
    /\ masterPc = "run" => statusTable[0] = "active"
    /\ masterPc # "idle" => Serving /\ default <= threadCountMaximum
    /\ Serving \/ controllerPc = "shut3" => threadCount <= threadCountMaximum

\* A slave's place and its entry in _statusTable.
SlaveInv ==
    \A s \in Slaves :
        /\ statusTable[s] = "active" <=> slavePc[s] = "task"
        /\ orders # "overruled" /\ statusTable[s] = "reserved" => slavePc[s] = "loop"
        /\ s \in slaveWaiters => slavePc[s] = "loop" /\ statusTable[s] = "waiting"
        /\ slavePc[s] = "loop" => \/ statusTable[s] \in {"waiting", "reserved"}
                                  \/ statusTable[s] = "dying" /\ controllerPc = "shut3"

\* The slave that startUpThreads waits for.
Newest ==
    \/ slavePc[slaveID] = "started" /\ slaveFlags = "none" /\ controllerWaits
    \/ slavePc[slaveID] = "flagged" /\ slaveFlags = "OK" /\ controllerWaits
    \/ slavePc[slaveID] = "failing" /\ slaveFlags = "FAILED" /\ controllerWaits
    \/ slavePc[slaveID] = "loop" /\ slaveFlags = "OK" /\ ~controllerWaits
    \/ slavePc[slaveID] = "gone" /\ slaveFlags = "FAILED" /\ ~controllerWaits

\* The counts and flags of start-up and shutdown.
StageInv ==
    /\ controllerPc = "starting" => slaveID < threadCountMaximum /\ Newest
    /\ controllerPc = "create" => slaveID <= threadCountMaximum
    /\ controllerPc \in {"shut2", "shut3"} \/ orders # "serve" => inShutdown = TRUE
    /\ controllerPc \in {"new", "create", "starting"} => orders = "serve"
    /\ controllerPc \in {"shut3", "down", "failed"} => orders # "serve"

\* Which slaves there are, as start-up goes on, ...
StartLife ==
    \A s \in Slaves :
        /\ controllerPc = "new" => slavePc[s] = "unborn"
        /\ controllerPc = "create" => slavePc[s] = IF s < slaveID THEN "loop" ELSE "unborn"
        /\ controllerPc = "starting" => /\ s < slaveID => slavePc[s] = "loop"
                                        /\ s > slaveID => slavePc[s] = "unborn"

\* ... while tasks are run ...
UpLife ==
    orders = "serve" /\ (controllerPc = "up" \/ (controllerPc \in {"shut1", "shut2"} /\ returnTo = "down")) =>
        \A s \in Slaves : slavePc[s] \in IF s < threadCountMaximum THEN {"loop", "task"} ELSE {"unborn"}

\* ... and as the shutdown goes on.
DownLife ==
    \A s \in Slaves :
        /\ controllerPc \in {"shut1", "shut2"} =>
              /\ slavePc[s] \in {"unborn", "gone", "loop", "task"}
              /\ slavePc[s] \in {"loop", "task"} => s < threadCountMaximum
        /\ controllerPc = "shut3" =>
              /\ slavePc[s] \in {"unborn", "gone", "loop", "task", "detach"}
              /\ orders = "die" => slavePc[s] # "task" /\ (slavePc[s] = "loop" => statusTable[s] = "dying")
        /\ orders # "serve" /\ controllerPc # "shut3" => slavePc[s] \in {"unborn", "gone"}

IInv ==
    /\ TypeOK /\ TaskInv /\ SlaveInv /\ StageInv /\ StartLife /\ UpLife /\ DownLife
    /\ ShutdownCountExact

\* The Boolean part of TypeOK.
Flags == slaveThreadsReservedForGC \in BOOLEAN /\ inShutdown \in BOOLEAN /\ controllerWaits \in BOOLEAN

-----------------------------------------------------------------------------
(* Counting. *)

LEMMA Finite ==
    /\ IsFiniteSet(IDs) /\ IsFiniteSet(Slaves) /\ Slaves \subseteq IDs /\ 0 \in IDs /\ 0 \notin Slaves
    /\ Cardinality(IDs) = MaxThreads /\ Cardinality(Slaves) = MaxThreads - 1
    /\ \A s : s \in Slaves <=> s \in Nat /\ 0 < s /\ s < MaxThreads
<1>1. IsFiniteSet(IDs) /\ Cardinality(IDs) = MaxThreads /\ 0 \in IDs
  BY FS_Interval, MaxThreadsAssumption DEF IDs
<1>2. IsFiniteSet(Slaves) /\ Cardinality(Slaves) = MaxThreads - 1
  BY <1>1, FS_RemoveElement DEF Slaves
<1>3. \A s : s \in Slaves <=> s \in Nat /\ 0 < s /\ s < MaxThreads
  BY MaxThreadsAssumption DEF Slaves, IDs
<1> QED BY <1>1, <1>2, <1>3 DEF Slaves

LEMMA CountBounds ==
    /\ IsFiniteSet(Busy) /\ Cardinality(Busy) \in 0..MaxThreads
    /\ IsFiniteSet(Counted) /\ Cardinality(Counted) \in 0..(MaxThreads - 1)
<1>1. IsFiniteSet(Busy) /\ Cardinality(Busy) <= MaxThreads
  BY Finite, FS_Subset DEF Busy
<1>2. IsFiniteSet(Counted) /\ Cardinality(Counted) <= MaxThreads - 1
  BY Finite, FS_Subset DEF Counted
<1> QED BY <1>1, <1>2, FS_CardinalityType, MaxThreadsAssumption

\* One thread less has the task.
LEMMA OneLessBusy ==
    ASSUME NEW i \in Busy, Busy' = Busy \ {i}
    PROVE  Cardinality(Busy) \in Nat \ {0} /\ Cardinality(Busy') = Cardinality(Busy) - 1
<1>1. Cardinality(Busy) # 0 /\ Cardinality(Busy) \in Nat
  BY CountBounds, FS_EmptySet
<1>2. Cardinality(Busy \ {i}) = Cardinality(Busy) - 1
  BY CountBounds, FS_RemoveElement
<1> QED BY <1>1, <1>2

-----------------------------------------------------------------------------
(* Every step preserves it. *)

\* A slave that has not reported is the one that startUpThreads waits for.
LEMMA NewSlave ==
    ASSUME IInv, NEW s \in Slaves, slavePc[s] \in {"started", "flagged", "failing"}
    PROVE  controllerPc = "starting" /\ s = slaveID /\ Newest /\ masterPc = "idle"
<1>1. controllerPc = "starting"
  BY DEF IInv, TypeOK, StageInv, StartLife, UpLife, DownLife
<1>2. s = slaveID
  BY <1>1, Finite DEF IInv, TypeOK, StartLife
<1> QED BY <1>1, <1>2 DEF IInv, StageInv, TaskInv, Serving, ShuttingDown

LEMMA InitIInv == Init => IInv
<1> SUFFICES ASSUME Init PROVE IInv
  OBVIOUS
<1> USE MaxThreadsAssumption, BoundsAssumption DEF Init
<1>1. TypeOK
  <2>1. Flags
    BY Zenon DEF Flags
  <2> QED BY <2>1 DEF TypeOK, Flags, IDs, Slaves
<1>2. TaskInv
  BY Finite DEF TaskInv, Busy
<1>3. SlaveInv /\ StageInv /\ StartLife /\ UpLife /\ DownLife
  BY Finite DEF SlaveInv, StageInv, StartLife, UpLife, DownLife, ShuttingDown
<1>4. ShutdownCountExact
  <2>1. Counted = {}
    BY DEF Counted, Alive
  <2> QED BY <2>1, FS_EmptySet DEF ShutdownCountExact, Counted
<1> QED BY <1>1, <1>2, <1>3, <1>4 DEF IInv

LEMMA StartUpThreadsStep ==
    ASSUME IInv, StartUpThreads
    PROVE  IInv'
<1> USE MaxThreadsAssumption, BoundsAssumption DEF IInv, StartUpThreads, countVars, slaveVars, taskVars, masterVars
<1>0. masterPc = "idle"
  BY DEF TaskInv, Serving, ShuttingDown
<1>1. TypeOK'
  <2>1. Flags'
    BY Zenon DEF TypeOK, Flags
  <2> QED BY <2>1 DEF TypeOK, Flags, IDs, Slaves, StageInv
<1>2. TaskInv'
  <2>1. Busy' = Busy
    BY DEF TypeOK, Busy, SlaveInv
  <2> HIDE DEF Busy
  <2> QED BY <2>1 DEF TypeOK, TaskInv, Serving, ShuttingDown, StageInv
<1>3. SlaveInv'
  BY Finite DEF TypeOK, TaskInv, SlaveInv, DownLife
<1>4. StageInv'
  BY DEF TypeOK, TaskInv, StageInv, StartLife, Newest, Serving, ShuttingDown
<1>5. StartLife'
  BY Finite DEF TypeOK, StageInv, StartLife
<1>6. UpLife'
  BY Finite DEF TypeOK, TaskInv, StageInv, StartLife, UpLife
<1>7. DownLife'
  BY Finite DEF TypeOK, SlaveInv, StageInv, StartLife, UpLife, DownLife
<1>8. ShutdownCountExact'
  <2>1. Counted' = {}
    BY DEF Counted, Alive, StartLife, TypeOK
  <2> QED BY <2>1, FS_EmptySet DEF ShutdownCountExact, Counted
<1> QED BY <1>1, <1>2, <1>3, <1>4, <1>5, <1>6, <1>7, <1>8

LEMMA CreateThreadStep ==
    ASSUME IInv, CreateThread
    PROVE  IInv'
<1> USE MaxThreadsAssumption, BoundsAssumption DEF IInv, CreateThread, StartFails, countVars, shutdownVars, taskVars, masterVars
<1>0. masterPc = "idle" /\ slaveID \in Slaves /\ \A i \in IDs : statusTable[i] \notin {"reserved", "active"}
  BY Finite DEF TypeOK, TaskInv, Serving, ShuttingDown, Busy
<1>1. TypeOK'
  <2>1. Flags'
    BY Zenon DEF TypeOK, Flags
  <2> QED BY <2>1 DEF TypeOK, Flags, IDs, Slaves, StageInv
<1>2. TaskInv'
  <2>1. Busy' = Busy
    BY DEF TypeOK, Busy, SlaveInv
  <2> HIDE DEF Busy
  <2> QED BY <2>1 DEF TypeOK, TaskInv, Serving, ShuttingDown, StageInv
<1>3. SlaveInv'
  BY <1>0 DEF TypeOK, SlaveInv, StartLife
<1>4. StageInv'
  BY <1>0 DEF TypeOK, StageInv, Newest, Serving, ShuttingDown
<1>5. StartLife'
  BY <1>0, Finite DEF TypeOK, StartLife
<1>6. UpLife'
  BY <1>0 DEF UpLife
<1>7. DownLife'
  BY <1>0, Finite DEF TypeOK, StageInv, StartLife, DownLife
<1>8. ShutdownCountExact'
  <2>1. Counted' = Counted
    BY DEF TypeOK, Counted, Alive, StageInv, StartLife, DownLife
  <2> QED BY <2>1 DEF ShutdownCountExact, Counted
<1> QED BY <1>1, <1>2, <1>3, <1>4, <1>5, <1>6, <1>7, <1>8

LEMMA ThreadStartedStep ==
    ASSUME IInv, ThreadStarted
    PROVE  IInv'
<1> USE MaxThreadsAssumption, BoundsAssumption DEF IInv, ThreadStarted, Reported, CountedStart, StartFails, countVars, slaveVars, taskVars, masterVars
<1>0. /\ masterPc = "idle" /\ slaveID \in Slaves /\ slaveID < threadCountMaximum /\ Newest
      /\ threadCountMaximum \in Nat /\ Cardinality(Counted) \in 0..(MaxThreads - 1) /\ threadShutdownCount = Cardinality(Counted)
      /\ slaveFlags = "OK" => slavePc[slaveID] = "loop"
      /\ slaveFlags # "OK" => slavePc[slaveID] = "gone"
  <2>1. masterPc = "idle" /\ slaveID < threadCountMaximum /\ Newest
    BY DEF TaskInv, StageInv, Serving, ShuttingDown
  <2>2. slaveID \in Slaves /\ threadCountMaximum \in Nat
    BY <2>1, Finite DEF TypeOK
  <2> QED BY <2>1, <2>2, CountBounds DEF ShutdownCountExact, Counted, Newest
<1>1. TypeOK'
  <2>1. Flags'
    BY Zenon DEF TypeOK, Flags
  <2> QED BY <1>0, <2>1 DEF TypeOK, Flags, IDs, Slaves, StageInv
<1>2. TaskInv'
  <2>1. Busy' = Busy
    BY DEF TypeOK, Busy, SlaveInv
  <2> HIDE DEF Busy
  <2> QED BY <2>1 DEF TypeOK, TaskInv, Serving, ShuttingDown, StageInv
<1>3. SlaveInv'
  BY Finite DEF TypeOK, TaskInv, SlaveInv, DownLife
<1>4. StageInv'
  BY DEF TypeOK, TaskInv, StageInv, StartLife, Newest, Serving, ShuttingDown
<1>5. StartLife'
  BY <1>0, Finite DEF TypeOK, StartLife
<1>6. UpLife'
  BY <1>0 DEF UpLife
<1>7. DownLife'
  BY <1>0, Finite DEF TypeOK, StartLife, DownLife
<1>8. ShutdownCountExact'
  <2>1. CASE slaveFlags = "OK"
    <3>1. Counted' = Counted \cup {slaveID} /\ slaveID \notin Counted
      BY <1>0, <2>1 DEF Counted, Alive
    <3>2. Cardinality(Counted') = Cardinality(Counted) + 1
      BY <3>1, CountBounds, FS_AddElement
    <3> QED BY <1>0, <2>1, <3>2 DEF ShutdownCountExact, Counted
  <2>2. CASE slaveFlags # "OK"
    <3>1. Counted' = Counted
      BY <1>0, <2>2 DEF Counted, Alive
    <3> QED BY <2>2, <3>1 DEF ShutdownCountExact, Counted
  <2> QED BY <2>1, <2>2
<1> QED BY <1>1, <1>2, <1>3, <1>4, <1>5, <1>6, <1>7, <1>8

LEMMA AllStartedStep ==
    ASSUME IInv, AllStarted
    PROVE  IInv'
<1> USE MaxThreadsAssumption, BoundsAssumption DEF IInv, AllStarted, Adjusted, shutdownVars, startVars, slaveVars, taskVars, masterVars
<1>1. TypeOK'
  <2>1. Flags'
    BY Zenon DEF TypeOK, Flags
  <2> QED BY <2>1 DEF TypeOK, Flags, IDs, Slaves, StageInv
<1>2. TaskInv'
  <2>1. Busy' = Busy
    BY DEF TypeOK, Busy, SlaveInv
  <2> HIDE DEF Busy
  <2> QED BY <2>1 DEF TypeOK, TaskInv, Serving, ShuttingDown, StageInv
<1>3. SlaveInv'
  BY Finite DEF TypeOK, TaskInv, SlaveInv, DownLife
<1>4. StageInv'
  BY DEF TypeOK, TaskInv, StageInv, StartLife, Newest, Serving, ShuttingDown
<1>5. StartLife'
  BY Finite DEF TypeOK, StageInv, StartLife
<1>6. UpLife'
  BY Finite DEF TypeOK, TaskInv, StageInv, StartLife, UpLife
<1>7. DownLife'
  BY Finite DEF TypeOK, SlaveInv, StageInv, StartLife, UpLife, DownLife
<1>8. ShutdownCountExact'
  <2>1. Counted' = Counted
    BY DEF TypeOK, Counted, Alive, StageInv, StartLife, DownLife
  <2> QED BY <2>1 DEF ShutdownCountExact, Counted
<1> QED BY <1>1, <1>2, <1>3, <1>4, <1>5, <1>6, <1>7, <1>8

LEMMA ReinitAfterForkStep ==
    ASSUME IInv, ReinitAfterFork
    PROVE  IInv'
<1> USE MaxThreadsAssumption, BoundsAssumption DEF IInv, ReinitAfterFork, taskVars, masterVars
<1>0. \A i \in IDs : statusTable[i] \notin {"reserved", "active"} /\ statusTable'[i] \notin {"reserved", "active"}
  BY DEF TypeOK, TaskInv, Busy
<1>1. TypeOK'
  <2>1. Flags'
    BY Zenon DEF TypeOK, Flags
  <2> QED BY <2>1 DEF TypeOK, Flags, IDs, Slaves, StageInv
<1>2. TaskInv'
  <2>1. Busy' = {}
    BY <1>0 DEF Busy
  <2> HIDE DEF Busy
  <2> QED BY <2>1 DEF TypeOK, TaskInv, Serving, ShuttingDown
<1>3. SlaveInv'
  BY <1>0, Finite DEF TypeOK, SlaveInv
<1>4. StageInv'
  BY DEF TypeOK, TaskInv, StageInv, StartLife, Newest, Serving, ShuttingDown
<1>5. StartLife'
  BY Finite DEF TypeOK, StartLife
<1>6. UpLife'
  BY Finite DEF TypeOK, TaskInv, StageInv, StartLife, UpLife
<1>7. DownLife'
  BY Finite DEF TypeOK, SlaveInv, StageInv, StartLife, UpLife, DownLife
<1>8. ShutdownCountExact'
  <2>1. Counted' = {}
    BY DEF Counted, Alive
  <2> QED BY <2>1, FS_EmptySet DEF ShutdownCountExact, Counted
<1> QED BY <1>1, <1>2, <1>3, <1>4, <1>5, <1>6, <1>7, <1>8

LEMMA BeginShutdownStep ==
    ASSUME IInv, BeginShutdown
    PROVE  IInv'
<1> USE MaxThreadsAssumption, BoundsAssumption DEF IInv, BeginShutdown, countVars, shutdownVars, startVars, slaveVars, taskVars, masterVars
<1>1. TypeOK'
  <2>1. Flags'
    BY Zenon DEF TypeOK, Flags
  <2> QED BY <2>1 DEF TypeOK, Flags, IDs, Slaves, StageInv
<1>2. TaskInv'
  <2>1. Busy' = Busy
    BY DEF TypeOK, Busy, SlaveInv
  <2> HIDE DEF Busy
  <2> QED BY <2>1 DEF TypeOK, TaskInv, Serving, ShuttingDown, StageInv
<1>3. SlaveInv'
  BY Finite DEF TypeOK, TaskInv, SlaveInv, DownLife
<1>4. StageInv'
  BY DEF TypeOK, TaskInv, StageInv, StartLife, Newest, Serving, ShuttingDown
<1>5. StartLife'
  BY Finite DEF TypeOK, StageInv, StartLife
<1>6. UpLife'
  BY Finite DEF TypeOK, TaskInv, StageInv, StartLife, UpLife
<1>7. DownLife'
  BY Finite DEF TypeOK, SlaveInv, StageInv, StartLife, UpLife, DownLife
<1>8. ShutdownCountExact'
  <2>1. Counted' = Counted
    BY DEF TypeOK, Counted, Alive, StageInv, StartLife, DownLife
  <2> QED BY <2>1 DEF ShutdownCountExact, Counted
<1> QED BY <1>1, <1>2, <1>3, <1>4, <1>5, <1>6, <1>7, <1>8

LEMMA SetInShutdownStep ==
    ASSUME IInv, SetInShutdown
    PROVE  IInv'
<1> USE MaxThreadsAssumption, BoundsAssumption DEF IInv, SetInShutdown, countVars, startVars, slaveVars, taskVars, masterVars
<1>1. TypeOK'
  <2>1. Flags'
    BY Zenon DEF TypeOK, Flags
  <2> QED BY <2>1 DEF TypeOK, Flags, IDs, Slaves, StageInv
<1>2. TaskInv'
  <2>1. Busy' = Busy
    BY DEF TypeOK, Busy, SlaveInv
  <2> HIDE DEF Busy
  <2> QED BY <2>1 DEF TypeOK, TaskInv, Serving, ShuttingDown, StageInv
<1>3. SlaveInv'
  BY Finite DEF TypeOK, TaskInv, SlaveInv, DownLife
<1>4. StageInv'
  BY DEF TypeOK, TaskInv, StageInv, StartLife, Newest, Serving, ShuttingDown
<1>5. StartLife'
  BY Finite DEF TypeOK, StageInv, StartLife
<1>6. UpLife'
  BY Finite DEF TypeOK, TaskInv, StageInv, StartLife, UpLife
<1>7. DownLife'
  BY Finite DEF TypeOK, SlaveInv, StageInv, StartLife, UpLife, DownLife
<1>8. ShutdownCountExact'
  <2>1. Counted' = Counted
    BY DEF TypeOK, Counted, Alive, StageInv, StartLife, DownLife
  <2> QED BY <2>1 DEF ShutdownCountExact, Counted
<1> QED BY <1>1, <1>2, <1>3, <1>4, <1>5, <1>6, <1>7, <1>8

LEMMA WaitForTaskStep ==
    ASSUME IInv, WaitForTask
    PROVE  IInv'
<1> USE MaxThreadsAssumption, BoundsAssumption DEF IInv, WaitForTask, MustWaitForTask, countVars, shutdownVars, startVars, slaveVars, taskVars, masterVars
<1>1. TypeOK'
  <2>1. Flags'
    BY Zenon DEF TypeOK, Flags
  <2> QED BY <2>1 DEF TypeOK, Flags, IDs, Slaves, StageInv
<1>2. TaskInv'
  <2>1. Busy' = Busy
    BY DEF TypeOK, Busy, SlaveInv
  <2> HIDE DEF Busy
  <2> QED BY <2>1 DEF TypeOK, TaskInv, Serving, ShuttingDown, StageInv
<1>3. SlaveInv'
  BY Finite DEF TypeOK, TaskInv, SlaveInv, DownLife
<1>4. StageInv'
  BY DEF TypeOK, TaskInv, StageInv, StartLife, Newest, Serving, ShuttingDown
<1>5. StartLife'
  BY Finite DEF TypeOK, StageInv, StartLife
<1>6. UpLife'
  BY Finite DEF TypeOK, TaskInv, StageInv, StartLife, UpLife
<1>7. DownLife'
  BY Finite DEF TypeOK, SlaveInv, StageInv, StartLife, UpLife, DownLife
<1>8. ShutdownCountExact'
  <2>1. Counted' = Counted
    BY DEF TypeOK, Counted, Alive, StageInv, StartLife, DownLife
  <2> QED BY <2>1 DEF ShutdownCountExact, Counted
<1> QED BY <1>1, <1>2, <1>3, <1>4, <1>5, <1>6, <1>7, <1>8

LEMMA KillSlavesStep ==
    ASSUME IInv, KillSlaves
    PROVE  IInv'
<1> USE MaxThreadsAssumption, BoundsAssumption DEF IInv, KillSlaves, MustWaitForTask, AllWoken, shutdownVars, startVars, taskVars, masterVars
<1>0. /\ masterPc \in {"idle", "ask", "prepare", "restore"} /\ ShuttingDown
      /\ \A i \in IDs : statusTable[i] \notin {"reserved", "active"} /\ statusTable'[i] \notin {"reserved", "active"}
  BY DEF TypeOK, TaskInv, Busy, ShuttingDown
<1>a. \A s \in Slaves : /\ slavePc[s] \in {"unborn", "gone", "loop"}
                        /\ slavePc[s] = "loop" => statusTable'[s] = "dying"
  BY <1>0, Finite DEF TypeOK, DownLife, SlaveInv
<1>1. TypeOK'
  <2>1. Flags'
    BY Zenon DEF TypeOK, Flags
  <2> QED BY <2>1 DEF TypeOK, Flags, IDs, Slaves, StageInv
<1>2. TaskInv'
  <2>1. Busy' = {}
    BY <1>0 DEF Busy
  <2> HIDE DEF Busy
  <2> QED BY <1>0, <2>1 DEF TypeOK, TaskInv, Serving, ShuttingDown
<1>3. SlaveInv'
  BY <1>0, <1>a, Finite DEF SlaveInv
<1>4. StageInv'
  BY DEF TypeOK, TaskInv, StageInv, StartLife, Newest, Serving, ShuttingDown
<1>5. StartLife'
  BY Finite DEF TypeOK, StageInv, StartLife
<1>6. UpLife'
  BY Finite DEF TypeOK, TaskInv, StageInv, StartLife, UpLife
<1>7. DownLife'
  BY <1>a DEF DownLife
<1>8. ShutdownCountExact'
  <2>1. Counted' = Counted
    BY DEF TypeOK, Counted, Alive, StageInv, StartLife, DownLife
  <2> QED BY <2>1 DEF ShutdownCountExact, Counted
<1> QED BY <1>1, <1>2, <1>3, <1>4, <1>5, <1>6, <1>7, <1>8

LEMMA WaitForSlavesStep ==
    ASSUME IInv, WaitForSlaves
    PROVE  IInv'
<1> USE MaxThreadsAssumption, BoundsAssumption DEF IInv, WaitForSlaves, AnyLeft, countVars, shutdownVars, startVars, slaveVars, taskVars, masterVars
<1>0. masterPc # "idle" => returnTo = "down"
  BY DEF TaskInv, Serving, ShuttingDown
<1>a. ~AnyLeft => \A s \in Slaves : slavePc[s] \in {"unborn", "gone"}
  <2>1. ~AnyLeft => Counted = {}
    BY CountBounds, FS_EmptySet DEF ShutdownCountExact, Counted
  <2> QED BY <2>1 DEF TypeOK, Counted, Alive
<1>1. TypeOK'
  <2>1. Flags'
    BY Zenon DEF TypeOK, Flags
  <2> QED BY <1>0, <2>1 DEF TypeOK, Flags
<1>2. TaskInv'
  <2>1. Busy' = Busy
    BY DEF TypeOK, Busy, SlaveInv
  <2> HIDE DEF Busy
  <2> QED BY <2>1 DEF TypeOK, TaskInv, Serving, ShuttingDown, StageInv
<1>3. SlaveInv'
  BY <1>a DEF SlaveInv
<1>4. StageInv'
  BY <1>0 DEF TypeOK, StageInv, ShuttingDown
<1>5. StartLife'
  BY Finite DEF TypeOK, StageInv, StartLife
<1>6. UpLife'
  BY Finite DEF TypeOK, TaskInv, StageInv, StartLife, UpLife
<1>7. DownLife'
  BY <1>a, <1>0 DEF DownLife
<1>8. ShutdownCountExact'
  <2>1. Counted' = Counted
    BY DEF TypeOK, Counted, Alive, StageInv, StartLife, DownLife
  <2> QED BY <2>1 DEF ShutdownCountExact, Counted
<1> QED BY <1>1, <1>2, <1>3, <1>4, <1>5, <1>6, <1>7, <1>8

LEMMA AttachStep ==
    ASSUME IInv, NEW s \in Slaves, Attach(s)
    PROVE  IInv'
<1> USE MaxThreadsAssumption, BoundsAssumption DEF IInv, Attach, countVars, shutdownVars, controllerVars, taskVars, masterVars
<1>0. controllerPc = "starting" /\ s = slaveID /\ Newest /\ masterPc = "idle"
  BY NewSlave
<1>1. TypeOK'
  <2>1. Flags'
    BY Zenon DEF TypeOK, Flags
  <2> QED BY <2>1 DEF TypeOK, Flags, IDs, Slaves, StageInv
<1>2. TaskInv'
  <2>1. Busy' = Busy
    BY DEF TypeOK, Busy, SlaveInv
  <2> HIDE DEF Busy
  <2> QED BY <2>1 DEF TypeOK, TaskInv, Serving, ShuttingDown, StageInv
<1>3. SlaveInv'
  BY Finite DEF TypeOK, TaskInv, SlaveInv, DownLife
<1>4. StageInv'
  BY <1>0 DEF TypeOK, StageInv, Newest, Serving, ShuttingDown
<1>5. StartLife'
  BY <1>0, Finite DEF TypeOK, StartLife
<1>6. UpLife'
  BY <1>0 DEF UpLife
<1>7. DownLife'
  BY <1>0 DEF DownLife
<1>8. ShutdownCountExact'
  <2>1. Counted' = Counted
    BY <1>0 DEF TypeOK, Counted, Alive
  <2> QED BY <2>1 DEF ShutdownCountExact, Counted
<1> QED BY <1>1, <1>2, <1>3, <1>4, <1>5, <1>6, <1>7, <1>8

LEMMA AttachFailedStep ==
    ASSUME IInv, NEW s \in Slaves, AttachFailed(s)
    PROVE  IInv'
<1> USE MaxThreadsAssumption, BoundsAssumption DEF IInv, AttachFailed, NotifyDispatcher, countVars, shutdownVars, startVars, taskVars, masterVars
<1>0. controllerPc = "starting" /\ s = slaveID /\ Newest /\ masterPc = "idle"
  BY NewSlave
<1>1. TypeOK'
  <2>1. Flags'
    BY Zenon DEF TypeOK, Flags
  <2> QED BY <2>1 DEF TypeOK, Flags, IDs, Slaves, StageInv
<1>2. TaskInv'
  <2>1. Busy' = Busy
    BY DEF TypeOK, Busy, SlaveInv
  <2> HIDE DEF Busy
  <2> QED BY <2>1 DEF TypeOK, TaskInv, Serving, ShuttingDown, StageInv
<1>3. SlaveInv'
  BY Finite DEF TypeOK, TaskInv, SlaveInv, DownLife
<1>4. StageInv'
  BY <1>0 DEF TypeOK, StageInv, Newest, Serving, ShuttingDown
<1>5. StartLife'
  BY <1>0, Finite DEF TypeOK, StartLife
<1>6. UpLife'
  BY <1>0 DEF UpLife
<1>7. DownLife'
  BY <1>0 DEF DownLife
<1>8. ShutdownCountExact'
  <2>1. Counted' = Counted
    BY <1>0 DEF TypeOK, Counted, Alive
  <2> QED BY <2>1 DEF ShutdownCountExact, Counted
<1> QED BY <1>1, <1>2, <1>3, <1>4, <1>5, <1>6, <1>7, <1>8

LEMMA SetThreadInitializationCompleteStep ==
    ASSUME IInv, NEW s \in Slaves, SetThreadInitializationComplete(s)
    PROVE  IInv'
<1> USE MaxThreadsAssumption, BoundsAssumption DEF IInv, SetThreadInitializationComplete, NotifyDispatcher, countVars, shutdownVars, startVars, taskVars, masterVars
<1>0. controllerPc = "starting" /\ s = slaveID /\ Newest /\ masterPc = "idle"
  BY NewSlave
<1>1. TypeOK'
  <2>1. Flags'
    BY Zenon DEF TypeOK, Flags
  <2> QED BY <2>1 DEF TypeOK, Flags, IDs, Slaves, StageInv
<1>2. TaskInv'
  <2>1. Busy' = Busy
    BY <1>0 DEF TypeOK, Busy, SlaveInv, StageInv
  <2> HIDE DEF Busy
  <2> QED BY <1>0, <2>1 DEF TaskInv, Serving, ShuttingDown
<1>3. SlaveInv'
  BY Finite DEF TypeOK, TaskInv, SlaveInv, DownLife
<1>4. StageInv'
  BY <1>0 DEF TypeOK, StageInv, Newest, Serving, ShuttingDown
<1>5. StartLife'
  BY <1>0, Finite DEF TypeOK, StartLife
<1>6. UpLife'
  BY <1>0 DEF UpLife
<1>7. DownLife'
  BY <1>0 DEF DownLife
<1>8. ShutdownCountExact'
  <2>1. Counted' = Counted
    BY <1>0 DEF TypeOK, Counted, Alive
  <2> QED BY <2>1 DEF ShutdownCountExact, Counted
<1> QED BY <1>1, <1>2, <1>3, <1>4, <1>5, <1>6, <1>7, <1>8

LEMMA SlaveLoopStep ==
    ASSUME IInv, NEW s \in Slaves, SlaveLoop(s)
    PROVE  IInv'
<1> USE MaxThreadsAssumption, BoundsAssumption DEF IInv, SlaveLoop, countVars, shutdownVars, startVars, controllerVars, taskVars, masterVars
<1>0. /\ slavePc'[s] \in {"loop", "task"} \/ (controllerPc = "shut3" /\ slavePc'[s] = "detach")
      /\ slavePc'[s] = "task" => masterPc # "idle" /\ s \in Busy
      /\ \A u \in Slaves \ {s} : slavePc'[u] = slavePc[u]
      /\ UNCHANGED <<controllerPc, controllerWaits, slaveID, slaveFlags, masterPc, threadCountMaximum>>
  BY Finite DEF TypeOK, SlaveInv, TaskInv, Busy
<1>a. masterPc # "idle" => controllerPc \in {"up", "shut1", "shut2", "shut3", "down"}
  BY DEF TaskInv, Serving, ShuttingDown
<1>1. TypeOK'
  <2>1. Flags'
    BY Zenon DEF TypeOK, Flags
  <2> QED BY <2>1 DEF TypeOK, Flags
<1>2. TaskInv'
  <2>1. Busy' = Busy
    BY DEF TypeOK, Busy, SlaveInv
  <2>2. statusTable'[0] = statusTable[0]
    BY Finite DEF TypeOK
  <2> HIDE DEF Busy, SlaveLoop
  <2>3. UNCHANGED <<slaveThreadsReservedForGC, masterPc, taskLeft, controllerPc, returnTo, threadCount,
                    threadCountMaximum, default>>
    BY DEF SlaveLoop
  <2> QED BY <2>1, <2>2, <2>3 DEF TaskInv, Serving, ShuttingDown
<1>3. SlaveInv'
  BY Finite DEF TypeOK, TaskInv, SlaveInv, DownLife
<1>4. StageInv'
  BY <1>0, <1>a, Finite DEF TypeOK, StageInv, Newest, Serving, ShuttingDown
<1>5. StartLife'
  BY <1>0, <1>a DEF StartLife
<1>6. UpLife'
  BY <1>0, <1>a DEF UpLife
<1>7. DownLife'
  BY Finite DEF TypeOK, SlaveInv, StageInv, StartLife, UpLife, DownLife
<1>8. ShutdownCountExact'
  <2>1. Counted' = Counted
    BY DEF TypeOK, Counted, Alive, StageInv, StartLife, DownLife
  <2> QED BY <2>1 DEF ShutdownCountExact, Counted
<1> QED BY <1>1, <1>2, <1>3, <1>4, <1>5, <1>6, <1>7, <1>8

LEMMA SlaveCompletesTaskStep ==
    ASSUME IInv, NEW s \in Slaves, SlaveCompletesTask(s)
    PROVE  IInv'
<1> USE MaxThreadsAssumption, BoundsAssumption DEF IInv, SlaveCompletesTask, countVars, shutdownVars, startVars, controllerVars, masterVars
<1>0. s \in Busy /\ Busy' = Busy \ {s} /\ masterPc \in {"accept", "run", "complete"}
  BY Finite DEF TypeOK, SlaveInv, TaskInv, Busy
<1>a. /\ taskLeft = Cardinality(Busy) /\ Cardinality(Busy) \in (0..MaxThreads) \ {0}
      /\ Cardinality(Busy') = Cardinality(Busy) - 1
  BY <1>0, OneLessBusy, CountBounds DEF TaskInv
<1>1. TypeOK'
  <2>1. Flags'
    BY Zenon DEF TypeOK, Flags
  <2>2. taskLeft' \in 0..MaxThreads
    BY <1>a
  <2> QED BY <2>1, <2>2, Finite DEF TypeOK, Flags
<1>2. TaskInv'
  <2>1. taskLeft' = Cardinality(Busy')
    BY <1>a
  <2>2. \A i \in IDs \ {s} : statusTable'[i] = statusTable[i]
    BY DEF TypeOK
  <2> HIDE DEF Busy
  <2> QED BY <1>0, <2>1, <2>2, Finite DEF TaskInv, Serving, ShuttingDown
<1>3. SlaveInv'
  BY Finite DEF TypeOK, TaskInv, SlaveInv, DownLife
<1>4. StageInv'
  BY DEF TypeOK, TaskInv, StageInv, StartLife, Newest, Serving, ShuttingDown
<1>5. StartLife'
  BY Finite DEF TypeOK, StageInv, StartLife
<1>6. UpLife'
  BY Finite DEF TypeOK, TaskInv, StageInv, StartLife, UpLife
<1>7. DownLife'
  BY Finite DEF TypeOK, SlaveInv, StageInv, StartLife, UpLife, DownLife
<1>8. ShutdownCountExact'
  <2>1. Counted' = Counted
    BY DEF TypeOK, Counted, Alive, StageInv, StartLife, DownLife
  <2> QED BY <2>1 DEF ShutdownCountExact, Counted
<1> QED BY <1>1, <1>2, <1>3, <1>4, <1>5, <1>6, <1>7, <1>8

LEMMA SlaveExitsStep ==
    ASSUME IInv, NEW s \in Slaves, SlaveExits(s)
    PROVE  IInv'
<1> USE MaxThreadsAssumption, BoundsAssumption DEF IInv, SlaveExits, CountedExit, NotifyDispatcher, countVars, startVars, taskVars, masterVars
<1>0. /\ controllerPc = "shut3" /\ s \in Counted /\ Counted' = Counted \ {s}
      /\ threadShutdownCount = Cardinality(Counted)
  <2>1. controllerPc = "shut3"
    BY Finite DEF TypeOK, StartLife, StageInv, Newest, UpLife, DownLife
  <2> QED BY <2>1 DEF TypeOK, Counted, Alive, ShutdownCountExact
<1>a. /\ Cardinality(Counted) \in (0..(MaxThreads - 1)) \ {0}
      /\ Cardinality(Counted') = Cardinality(Counted) - 1
  <2>1. Cardinality(Counted) # 0
    BY <1>0, CountBounds, FS_EmptySet
  <2>2. Cardinality(Counted \ {s}) = Cardinality(Counted) - 1
    BY <1>0, CountBounds, FS_RemoveElement
  <2> QED BY <1>0, <2>1, <2>2, CountBounds
<1>1. TypeOK'
  <2>1. Flags'
    BY Zenon DEF TypeOK, Flags
  <2> QED BY <1>0, <1>a, <2>1 DEF TypeOK, Flags
<1>2. TaskInv'
  <2>1. Busy' = Busy
    BY DEF TypeOK, Busy, SlaveInv
  <2> HIDE DEF Busy
  <2> QED BY <2>1 DEF TypeOK, TaskInv, Serving, ShuttingDown, StageInv
<1>3. SlaveInv'
  BY Finite DEF TypeOK, TaskInv, SlaveInv, DownLife
<1>4. StageInv'
  BY <1>0 DEF StageInv, ShuttingDown
<1>5. StartLife'
  BY Finite DEF TypeOK, StageInv, StartLife
<1>6. UpLife'
  BY Finite DEF TypeOK, TaskInv, StageInv, StartLife, UpLife
<1>7. DownLife'
  BY Finite DEF TypeOK, SlaveInv, StageInv, StartLife, UpLife, DownLife
<1>8. ShutdownCountExact'
  BY <1>0, <1>a DEF ShutdownCountExact, Counted
<1> QED BY <1>1, <1>2, <1>3, <1>4, <1>5, <1>6, <1>7, <1>8

LEMMA RunTaskStep ==
    ASSUME IInv, RunTask
    PROVE  IInv'
<1> USE MaxThreadsAssumption, BoundsAssumption DEF IInv, RunTask, countVars, shutdownVars, startVars, controllerVars, slaveVars
<1>1. TypeOK'
  <2>1. Flags'
    BY Zenon DEF TypeOK, Flags
  <2> QED BY <2>1 DEF TypeOK, Flags, IDs, Slaves, StageInv
<1>2. TaskInv'
  <2>1. Busy' = Busy
    BY DEF TypeOK, Busy, SlaveInv
  <2> HIDE DEF Busy
  <2> QED BY <2>1 DEF TypeOK, TaskInv, Serving, ShuttingDown, StageInv
<1>3. SlaveInv'
  BY Finite DEF TypeOK, TaskInv, SlaveInv, DownLife
<1>4. StageInv'
  BY DEF TypeOK, TaskInv, StageInv, StartLife, Newest, Serving, ShuttingDown
<1>5. StartLife'
  BY Finite DEF TypeOK, StageInv, StartLife
<1>6. UpLife'
  BY Finite DEF TypeOK, TaskInv, StageInv, StartLife, UpLife
<1>7. DownLife'
  BY Finite DEF TypeOK, SlaveInv, StageInv, StartLife, UpLife, DownLife
<1>8. ShutdownCountExact'
  <2>1. Counted' = Counted
    BY DEF TypeOK, Counted, Alive, StageInv, StartLife, DownLife
  <2> QED BY <2>1 DEF ShutdownCountExact, Counted
<1> QED BY <1>1, <1>2, <1>3, <1>4, <1>5, <1>6, <1>7, <1>8

LEMMA SetThreadCountStep ==
    ASSUME IInv, SetThreadCount
    PROVE  IInv'
<1> USE MaxThreadsAssumption, BoundsAssumption DEF IInv, SetThreadCount, shutdownVars, startVars, controllerVars, slaveVars, taskVars
<1>1. TypeOK'
  <2>1. Flags'
    BY Zenon DEF TypeOK, Flags
  <2> QED BY <2>1 DEF TypeOK, Flags, IDs, Slaves, StageInv
<1>2. TaskInv'
  <2>1. Busy' = Busy
    BY DEF TypeOK, Busy, SlaveInv
  <2> HIDE DEF Busy
  <2> QED BY <2>1 DEF TypeOK, TaskInv, Serving, ShuttingDown, StageInv
<1>3. SlaveInv'
  BY Finite DEF TypeOK, TaskInv, SlaveInv, DownLife
<1>4. StageInv'
  BY DEF TypeOK, TaskInv, StageInv, StartLife, Newest, Serving, ShuttingDown
<1>5. StartLife'
  BY Finite DEF TypeOK, StageInv, StartLife
<1>6. UpLife'
  BY Finite DEF TypeOK, TaskInv, StageInv, StartLife, UpLife
<1>7. DownLife'
  BY Finite DEF TypeOK, SlaveInv, StageInv, StartLife, UpLife, DownLife
<1>8. ShutdownCountExact'
  <2>1. Counted' = Counted
    BY DEF TypeOK, Counted, Alive, StageInv, StartLife, DownLife
  <2> QED BY <2>1 DEF ShutdownCountExact, Counted
<1> QED BY <1>1, <1>2, <1>3, <1>4, <1>5, <1>6, <1>7, <1>8

LEMMA PrepareThreadsForTaskStep ==
    ASSUME IInv, PrepareThreadsForTask
    PROVE  IInv'
<1> USE MaxThreadsAssumption, BoundsAssumption DEF IInv, PrepareThreadsForTask, Adjusted, Reserved, AllWoken, shutdownVars, startVars, controllerVars
<1>0. PICK n \in 1..threadCount :
        /\ activeThreadCount' = n /\ taskTotal' = n /\ taskLeft' = n
        /\ statusTable' = [i \in IDs |-> IF i \in Reserved(n) THEN "reserved" ELSE statusTable[i]]
  OBVIOUS
<1>a. n \in 1..MaxThreads /\ n <= threadCountMaximum /\ threadCountMaximum \in 1..MaxThreads
  BY DEF TypeOK, TaskInv
<1>b. \A i \in IDs : i \in Nat /\ statusTable[i] \notin {"reserved", "active"}
  BY MaxThreadsAssumption DEF TaskInv, Busy, IDs
<1>c. orders' # "overruled" => \A s \in Slaves : s < n => slavePc[s] = "loop" /\ orders = "serve"
  <2>1. CASE orders = "serve"
    <3>1. controllerPc = "up" \/ (controllerPc \in {"shut1", "shut2"} /\ returnTo = "down")
      BY <2>1 DEF TaskInv, Serving, ShuttingDown, StageInv
    <3> QED BY <1>a, <1>b, <2>1, <3>1, Finite DEF UpLife, SlaveInv
  <2>2. CASE orders = "die"
    <3>1. orders' # "overruled" => n = 1
      BY <1>0, <2>2 DEF TypeOK
    <3> QED BY <3>1, Finite
  <2> QED BY <2>1, <2>2 DEF TypeOK
<1>1. TypeOK'
  <2>1. Flags'
    BY Zenon DEF TypeOK, Flags
  <2> QED BY <1>0, <1>a, <2>1 DEF TypeOK, Flags
<1>2. TaskInv'
  <2>1. Busy' = 0..(n - 1)
    BY <1>0, <1>a, <1>b, MaxThreadsAssumption DEF Busy, IDs
  <2>2. Cardinality(Busy') = n
    BY <1>a, <2>1, FS_Interval
  <2>3. statusTable'[0] = "reserved"
    BY <1>0, <1>a, Finite
  <2> HIDE DEF Busy
  <2> QED BY <1>0, <2>2, <2>3 DEF TaskInv, Serving, ShuttingDown
<1>3. SlaveInv'
  BY <1>0, <1>b, <1>c, Finite DEF SlaveInv
<1>4. StageInv'
  BY DEF TypeOK, TaskInv, StageInv, StartLife, Newest, Serving, ShuttingDown
<1>5. StartLife'
  BY Finite DEF TypeOK, StageInv, StartLife
<1>6. UpLife'
  BY Finite DEF TypeOK, TaskInv, StageInv, StartLife, UpLife
<1>7. DownLife'
  BY <1>0, <1>c, Finite DEF DownLife
<1>8. ShutdownCountExact'
  <2>1. Counted' = Counted
    BY DEF TypeOK, Counted, Alive, StageInv, StartLife, DownLife
  <2> QED BY <2>1 DEF ShutdownCountExact, Counted
<1> QED BY <1>1, <1>2, <1>3, <1>4, <1>5, <1>6, <1>7, <1>8

LEMMA MasterAcceptsStep ==
    ASSUME IInv, MasterAccepts
    PROVE  IInv'
<1> USE MaxThreadsAssumption, BoundsAssumption DEF IInv, MasterAccepts, countVars, shutdownVars, startVars, controllerVars, slaveVars, taskVars
<1>1. TypeOK'
  <2>1. Flags'
    BY Zenon DEF TypeOK, Flags
  <2> QED BY <2>1 DEF TypeOK, Flags, IDs, Slaves, StageInv
<1>2. TaskInv'
  <2>1. Busy' = Busy /\ statusTable'[0] = "active"
    BY Finite DEF TypeOK, Busy, TaskInv
  <2> HIDE DEF Busy
  <2> QED BY <2>1 DEF TaskInv, Serving, ShuttingDown
<1>3. SlaveInv'
  BY Finite DEF TypeOK, TaskInv, SlaveInv, DownLife
<1>4. StageInv'
  BY DEF TypeOK, TaskInv, StageInv, StartLife, Newest, Serving, ShuttingDown
<1>5. StartLife'
  BY Finite DEF TypeOK, StageInv, StartLife
<1>6. UpLife'
  BY Finite DEF TypeOK, TaskInv, StageInv, StartLife, UpLife
<1>7. DownLife'
  BY Finite DEF TypeOK, SlaveInv, StageInv, StartLife, UpLife, DownLife
<1>8. ShutdownCountExact'
  <2>1. Counted' = Counted
    BY DEF TypeOK, Counted, Alive, StageInv, StartLife, DownLife
  <2> QED BY <2>1 DEF ShutdownCountExact, Counted
<1> QED BY <1>1, <1>2, <1>3, <1>4, <1>5, <1>6, <1>7, <1>8

LEMMA MasterCompletesStep ==
    ASSUME IInv, MasterCompletes
    PROVE  IInv'
<1> USE MaxThreadsAssumption, BoundsAssumption DEF IInv, MasterCompletes, countVars, shutdownVars, startVars, controllerVars, slaveVars
<1>0. 0 \in Busy /\ Busy' = Busy \ {0} /\ masterPc \in {"accept", "run", "complete"}
  BY Finite DEF TypeOK, SlaveInv, TaskInv, Busy
<1>a. /\ taskLeft = Cardinality(Busy) /\ Cardinality(Busy) \in (0..MaxThreads) \ {0}
      /\ Cardinality(Busy') = Cardinality(Busy) - 1
  BY <1>0, OneLessBusy, CountBounds DEF TaskInv
<1>1. TypeOK'
  <2>1. Flags'
    BY Zenon DEF TypeOK, Flags
  <2>2. taskLeft' \in 0..MaxThreads
    BY <1>a
  <2> QED BY <2>1, <2>2, Finite DEF TypeOK, Flags
<1>2. TaskInv'
  <2>1. taskLeft' = Cardinality(Busy')
    BY <1>a
  <2>2. \A i \in IDs \ {0} : statusTable'[i] = statusTable[i]
    BY DEF TypeOK
  <2> HIDE DEF Busy
  <2> QED BY <1>0, <2>1, <2>2, Finite DEF TaskInv, Serving, ShuttingDown
<1>3. SlaveInv'
  BY Finite DEF TypeOK, TaskInv, SlaveInv, DownLife
<1>4. StageInv'
  BY DEF TypeOK, TaskInv, StageInv, StartLife, Newest, Serving, ShuttingDown
<1>5. StartLife'
  BY Finite DEF TypeOK, StageInv, StartLife
<1>6. UpLife'
  BY Finite DEF TypeOK, TaskInv, StageInv, StartLife, UpLife
<1>7. DownLife'
  BY Finite DEF TypeOK, SlaveInv, StageInv, StartLife, UpLife, DownLife
<1>8. ShutdownCountExact'
  <2>1. Counted' = Counted
    BY DEF TypeOK, Counted, Alive, StageInv, StartLife, DownLife
  <2> QED BY <2>1 DEF ShutdownCountExact, Counted
<1> QED BY <1>1, <1>2, <1>3, <1>4, <1>5, <1>6, <1>7, <1>8

LEMMA TaskDoneStep ==
    ASSUME IInv, TaskDone
    PROVE  IInv'
<1> USE MaxThreadsAssumption, BoundsAssumption DEF IInv, TaskDone, countVars, shutdownVars, startVars, controllerVars, slaveVars, taskVars
<1>1. TypeOK'
  <2>1. Flags'
    BY Zenon DEF TypeOK, Flags
  <2> QED BY <2>1 DEF TypeOK, Flags, IDs, Slaves, StageInv
<1>2. TaskInv'
  <2>1. Busy' = Busy /\ Busy = {}
    BY CountBounds, FS_EmptySet DEF TaskInv, Busy
  <2> HIDE DEF Busy
  <2> QED BY <2>1 DEF TaskInv, Serving, ShuttingDown
<1>3. SlaveInv'
  BY Finite DEF TypeOK, TaskInv, SlaveInv, DownLife
<1>4. StageInv'
  BY DEF TypeOK, TaskInv, StageInv, StartLife, Newest, Serving, ShuttingDown
<1>5. StartLife'
  BY Finite DEF TypeOK, StageInv, StartLife
<1>6. UpLife'
  BY Finite DEF TypeOK, TaskInv, StageInv, StartLife, UpLife
<1>7. DownLife'
  BY Finite DEF TypeOK, SlaveInv, StageInv, StartLife, UpLife, DownLife
<1>8. ShutdownCountExact'
  <2>1. Counted' = Counted
    BY DEF TypeOK, Counted, Alive, StageInv, StartLife, DownLife
  <2> QED BY <2>1 DEF ShutdownCountExact, Counted
<1> QED BY <1>1, <1>2, <1>3, <1>4, <1>5, <1>6, <1>7, <1>8

LEMMA CleanupAfterTaskStep ==
    ASSUME IInv, CleanupAfterTask
    PROVE  IInv'
<1> USE MaxThreadsAssumption, BoundsAssumption DEF IInv, CleanupAfterTask, ShutdownIsTold, AllWoken, countVars, shutdownVars, startVars, taskVars
<1>1. TypeOK'
  <2>1. Flags'
    BY Zenon DEF TypeOK, Flags
  <2> QED BY <2>1 DEF TypeOK, Flags, IDs, Slaves, StageInv
<1>2. TaskInv'
  <2>1. Busy' = Busy
    BY DEF TypeOK, Busy, SlaveInv
  <2> HIDE DEF Busy
  <2> QED BY <2>1 DEF TypeOK, TaskInv, Serving, ShuttingDown, StageInv
<1>3. SlaveInv'
  BY Finite DEF TypeOK, TaskInv, SlaveInv, DownLife
<1>4. StageInv'
  BY DEF TypeOK, TaskInv, StageInv, StartLife, Newest, Serving, ShuttingDown
<1>5. StartLife'
  BY Finite DEF TypeOK, StageInv, StartLife
<1>6. UpLife'
  BY Finite DEF TypeOK, TaskInv, StageInv, StartLife, UpLife
<1>7. DownLife'
  BY Finite DEF TypeOK, SlaveInv, StageInv, StartLife, UpLife, DownLife
<1>8. ShutdownCountExact'
  <2>1. Counted' = Counted
    BY DEF TypeOK, Counted, Alive, StageInv, StartLife, DownLife
  <2> QED BY <2>1 DEF ShutdownCountExact, Counted
<1> QED BY <1>1, <1>2, <1>3, <1>4, <1>5, <1>6, <1>7, <1>8

LEMMA RestoreThreadCountStep ==
    ASSUME IInv, RestoreThreadCount
    PROVE  IInv'
<1> USE MaxThreadsAssumption, BoundsAssumption DEF IInv, RestoreThreadCount, shutdownVars, startVars, controllerVars, slaveVars, taskVars
<1>1. TypeOK'
  <2>1. Flags'
    BY Zenon DEF TypeOK, Flags
  <2> QED BY <2>1 DEF TypeOK, Flags, IDs, Slaves, StageInv
<1>2. TaskInv'
  <2>1. Busy' = Busy
    BY DEF TypeOK, Busy, SlaveInv
  <2> HIDE DEF Busy
  <2> QED BY <2>1 DEF TypeOK, TaskInv, Serving, ShuttingDown, StageInv
<1>3. SlaveInv'
  BY Finite DEF TypeOK, TaskInv, SlaveInv, DownLife
<1>4. StageInv'
  BY DEF TypeOK, TaskInv, StageInv, StartLife, Newest, Serving, ShuttingDown
<1>5. StartLife'
  BY Finite DEF TypeOK, StageInv, StartLife
<1>6. UpLife'
  BY Finite DEF TypeOK, TaskInv, StageInv, StartLife, UpLife
<1>7. DownLife'
  BY Finite DEF TypeOK, SlaveInv, StageInv, StartLife, UpLife, DownLife
<1>8. ShutdownCountExact'
  <2>1. Counted' = Counted
    BY DEF TypeOK, Counted, Alive, StageInv, StartLife, DownLife
  <2> QED BY <2>1 DEF ShutdownCountExact, Counted
<1> QED BY <1>1, <1>2, <1>3, <1>4, <1>5, <1>6, <1>7, <1>8

-----------------------------------------------------------------------------
(* The theorems. *)

LEMMA Inductive ==
    IInv /\ [Next]_vars => IInv'
<1> SUFFICES ASSUME IInv, [Next]_vars PROVE IInv'
  OBVIOUS
<1>1. CASE UNCHANGED vars
  BY <1>1 DEF vars, countVars, shutdownVars, startVars, controllerVars, slaveVars, taskVars,
     masterVars,
              IInv, TypeOK, TaskInv, Serving, ShuttingDown, Busy, SlaveInv, StageInv, Newest, StartLife, UpLife,
              DownLife, ShutdownCountExact, Alive
<1>2. CASE Controller \/ BeginShutdown \/ ReinitAfterFork
  BY <1>2, StartUpThreadsStep, CreateThreadStep, ThreadStartedStep, AllStartedStep,
     SetInShutdownStep,
     WaitForTaskStep, KillSlavesStep, WaitForSlavesStep, BeginShutdownStep, ReinitAfterForkStep
     DEF Controller
<1>3. ASSUME NEW s \in Slaves, Slave(s) PROVE IInv'
  BY <1>3, AttachStep, AttachFailedStep, SetThreadInitializationCompleteStep, SlaveLoopStep,
     SlaveCompletesTaskStep, SlaveExitsStep DEF Slave
<1>4. CASE RunTask \/ Master
  BY <1>4, RunTaskStep, SetThreadCountStep, PrepareThreadsForTaskStep, MasterAcceptsStep, MasterCompletesStep,
     TaskDoneStep, CleanupAfterTaskStep, RestoreThreadCountStep DEF Master
<1> QED BY <1>1, <1>2, <1>3, <1>4 DEF Next, Down, Hung

LEMMA Invariance ==
    Spec => []IInv
  BY InitIInv, Inductive, PTL DEF Spec

\* For any number of threads, a slave that is being started uses the slaveInfo on the
\* stack of startUpThreads only while that function waits for it.
THEOREM InfoAlive ==
    Spec => []SlaveInfoAlive
<1>1. IInv => SlaveInfoAlive
  <2> SUFFICES ASSUME IInv, NEW s \in Slaves, slavePc[s] = "started"
               PROVE  controllerPc = "starting" /\ slaveID = s /\ slaveFlags = "none"
    BY DEF SlaveInfoAlive
  <2> QED BY NewSlave DEF Newest
<1> QED BY <1>1, Invariance, PTL

\* For any number of threads, tasks and forks, the threads a task still counts on are
\* those in _statusTable, and every one of these slaves is there to take its part: the
\* master's wait for them in complete() is not in vain.  shutDownThreads may get in
\* anywhere, also between run()'s read of the thread count, its setThreadCount and
\* prepareThreadsForTask; the only exception is a task prepared with a count that was
\* written over the 1 of shutDownThreads.
THEOREM EverybodyThere ==
    Spec => []NobodyMissing
<1>1. IInv => NobodyMissing
  BY DEF IInv, TaskInv, Busy, SlaveInv, NobodyMissing, NotOverruled
<1> QED BY <1>1, Invariance, PTL

\* For any number of threads, _threadShutdownCount is the number of slaves that will
\* report their end, and when shutDownThreads has returned for the last time none is left;
\* tasks that are prepared in the shutdown, with whatever thread count, do not change that.
THEOREM CompleteShutdown ==
    Spec => []ShutdownExact
<1>1. IInv => ShutdownExact
  BY DEF IInv, StageInv, DownLife, ShutdownExact, ShutdownIsComplete, Alive
<1> QED BY <1>1, Invariance, PTL

\* A slave that was told to die is not told anything else before it is gone, by a task
\* begun at any time before or in the shutdown, unless the task's thread count was written
\* over the 1 of shutDownThreads.
THEOREM DyingStays == Spec => DyingIsFinal
<1>1. IInv /\ [Next]_vars =>
        [NotOverruled' => \A s \in Slaves :
            statusTable[s] = "dying" /\ slavePc[s] \in {"loop", "task", "detach"} =>
                statusTable'[s] = "dying"]_vars
  <2> SUFFICES ASSUME IInv, Next, orders' # "overruled", NEW s \in Slaves,
                      statusTable[s] = "dying", slavePc[s] \in {"loop", "task", "detach"}
               PROVE  statusTable'[s] = "dying"
    BY DEF NotOverruled
  <2>1. controllerPc = "shut3" /\ slavePc[s] # "task" /\ s # 0 /\ s \in IDs
    <3>1. s # 0 /\ s \in IDs /\ slavePc[s] # "task"
      BY Finite DEF IInv, SlaveInv
    <3>2. CASE slavePc[s] = "loop"
      BY <3>1, <3>2 DEF IInv, SlaveInv
    <3>3. CASE slavePc[s] = "detach"
      BY <3>3, Finite DEF IInv, TypeOK, StartLife, StageInv, Newest, UpLife, DownLife
    <3> QED BY <3>1, <3>2, <3>3
  <2>2. CASE UNCHANGED statusTable
    BY <2>2
  <2>3. ASSUME NEW u \in Slaves, SetThreadInitializationComplete(u) PROVE FALSE
    BY <2>1, <2>3, NewSlave DEF SetThreadInitializationComplete
  <2>4. ASSUME NEW u \in Slaves, SlaveLoop(u) PROVE statusTable'[s] = "dying"
    BY <2>1, <2>4 DEF IInv, TypeOK, SlaveLoop
  <2>5. ASSUME NEW u \in Slaves, SlaveCompletesTask(u) PROVE statusTable'[s] = "dying"
    BY <2>1, <2>5 DEF IInv, TypeOK, SlaveInv, SlaveCompletesTask
  <2>6. CASE PrepareThreadsForTask
    <3>1. orders = "die" /\ threadCount = 1
      BY <2>1, <2>6 DEF IInv, TypeOK, StageInv, PrepareThreadsForTask
    <3> QED BY <2>1, <2>6, <3>1, Finite DEF PrepareThreadsForTask, Adjusted, Reserved
  <2>7. CASE MasterAccepts \/ MasterCompletes
    BY <2>1, <2>7 DEF IInv, TypeOK, MasterAccepts, MasterCompletes
  <2>8. CASE Controller \/ BeginShutdown \/ ReinitAfterFork
    BY <2>1, <2>2, <2>8
       DEF Controller, BeginShutdown, ReinitAfterFork, StartUpThreads, CreateThread, ThreadStarted,
           AllStarted, SetInShutdown, WaitForTask, KillSlaves, WaitForSlaves
  <2>9. ASSUME NEW u \in Slaves, Slave(u) PROVE statusTable'[s] = "dying"
    BY <2>2, <2>3, <2>4, <2>5, <2>9 DEF Slave, Attach, AttachFailed, SlaveExits
  <2>10. CASE RunTask \/ Master
    BY <2>2, <2>6, <2>7, <2>10
       DEF RunTask, Master, SetThreadCount, TaskDone, CleanupAfterTask, RestoreThreadCount
  <2>11. CASE Down \/ Hung
    BY <2>2, <2>11 DEF Down, Hung, vars
  <2> QED BY <2>8, <2>9, <2>10, <2>11 DEF Next
<1> QED BY <1>1, Invariance, PTL DEF Spec, DyingIsFinal
=============================================================================

------------------------------ MODULE RWMutex ------------------------------
(***************************************************************************)
(* The read/write mutex of the thread library, thread/common/rwmutex.c.    *)
(*                                                                         *)
(* One mutex, its syncMon (an INSTANCE of Monitor) and the threads that    *)
(* call its five entry points and fork.  A call is split where another     *)
(* thread can observe or disturb it: the unsynchronised test of            *)
(* mutex->writer, the unsynchronised read-modify-write of mutex->status by *)
(* a recursive writer, entering syncMon, the body under syncMon (which may *)
(* wait and come back), and leaving syncMon.                               *)
(*                                                                         *)
(* reads, nested and writes are what the callers know: the entries they    *)
(* made that returned OK, less the exits they have called.  They restrict  *)
(* the callers to what the header comments of the functions demand: exits  *)
(* match entries in the opposite order, and a thread with read access does *)
(* not ask for write access.                                               *)
(*                                                                         *)
(* Definitions marked `mutant' are seeded faults, used to show that the    *)
(* properties can fail.                                                    *)
(***************************************************************************)
EXTENDS Integers, FiniteSets

CONSTANTS
    Threads,    \* threads using the mutex
    NoThread,   \* NULL
    MaxDepth    \* bound on the entries of one kind one thread holds at a time

ASSUME ThreadsAssumption == IsFiniteSet(Threads) /\ NoThread \notin Threads
ASSUME MaxDepthAssumption == MaxDepth \in Nat \ {0}

VARIABLES
    status,     \* mutex->status: > 0 entries of readers, < 0 depth of the writer
    writer,     \* mutex->writer
    owner, count, waitState, saved,   \* mutex->syncMon
    pc,         \* where each thread is
    op,         \* the function each thread is in
    loaded,     \* the value of mutex->status a recursive writer has read
    reads,      \* read entries held by a thread that is not the writer
    nested,     \* read entries the writer made inside its write entries
    writes,     \* write entries held
    alive       \* the threads of the process; after fork() only the caller

syncMon == INSTANCE Monitor

monVars    == <<owner, count, waitState, saved>>
callerVars == <<reads, nested, writes>>
vars == <<status, writer, monVars, pc, op, loaded, callerVars, alive>>

Ops == {"enter_read", "exit_read", "enter_write", "try_enter_write", "exit_write"}

TypeOK ==
    /\ status \in Int
    /\ writer \in Threads \cup {NoThread}
    /\ syncMon!TypeOK
    /\ pc \in [Threads -> {"idle", "recurse", "mon", "body", "leave", "fail", "aborted"}]
    /\ op \in [Threads -> Ops \cup {"none"}]
    /\ loaded \in [Threads -> (0 - MaxDepth)..0]
    /\ reads \in [Threads -> 0..MaxDepth]
    /\ nested \in [Threads -> 0..MaxDepth]
    /\ writes \in [Threads -> 0..MaxDepth]
    /\ alive \subseteq Threads

\* omrthread_rwmutex_init.
Init ==
    /\ status = 0
    /\ writer = NoThread
    /\ syncMon!Init
    /\ pc = [t \in Threads |-> "idle"]
    /\ op = [t \in Threads |-> "none"]
    /\ loaded = [t \in Threads |-> 0]
    /\ reads = [t \in Threads |-> 0]
    /\ nested = [t \in Threads |-> 0]
    /\ writes = [t \in Threads |-> 0]
    /\ alive = Threads

-----------------------------------------------------------------------------
(* The calls, up to the point where they want syncMon. *)

WantsMonitor(t, o) ==
    /\ op' = [op EXCEPT ![t] = o]
    /\ pc' = [pc EXCEPT ![t] = "mon"]
    /\ UNCHANGED <<status, writer, monVars, loaded, alive>>

\* mutex->writer == omrthread_self(), read without syncMon.
SelfIsWriter(t) == writer = t

\* omrthread_rwmutex_enter_read; the writer itself returns at once.
enter_read(t) ==
    /\ pc[t] = "idle" /\ reads[t] < MaxDepth
    /\ \/ /\ SelfIsWriter(t) /\ nested[t] < MaxDepth
          /\ nested' = [nested EXCEPT ![t] = @ + 1]
          /\ UNCHANGED <<status, writer, monVars, pc, op, loaded, reads, writes, alive>>
       \/ /\ ~SelfIsWriter(t)
          /\ WantsMonitor(t, "enter_read")
          /\ UNCHANGED callerVars

\* omrthread_rwmutex_exit_read; the writer itself returns at once.
exit_read(t) ==
    /\ pc[t] = "idle"
    /\ \/ reads[t] > 0 /\ reads' = [reads EXCEPT ![t] = @ - 1] /\ UNCHANGED nested
       \/ nested[t] > 0 /\ nested' = [nested EXCEPT ![t] = @ - 1] /\ UNCHANGED reads
    /\ UNCHANGED writes
    /\ IF SelfIsWriter(t)
       THEN UNCHANGED <<status, writer, monVars, pc, op, loaded, alive>>
       ELSE WantsMonitor(t, "exit_read")

\* omrthread_rwmutex_enter_write and _try_enter_write: a writer that enters
\* again loads mutex->status, without syncMon, to decrement it.
CallForWrite(t, o) ==
    /\ pc[t] = "idle" /\ reads[t] = 0 /\ nested[t] = 0 /\ writes[t] < MaxDepth
    /\ \/ /\ SelfIsWriter(t)
          /\ loaded' = [loaded EXCEPT ![t] = status]
          /\ op' = [op EXCEPT ![t] = o]
          /\ pc' = [pc EXCEPT ![t] = "recurse"]
          /\ UNCHANGED <<status, writer, monVars, callerVars, alive>>
       \/ /\ ~SelfIsWriter(t)
          /\ WantsMonitor(t, o)
          /\ UNCHANGED callerVars

enter_write(t)     == CallForWrite(t, "enter_write")
try_enter_write(t) == CallForWrite(t, "try_enter_write")

\* omrthread_rwmutex_exit_write.
exit_write(t) ==
    /\ pc[t] = "idle" /\ nested[t] = 0 /\ writes[t] > 0
    /\ writes' = [writes EXCEPT ![t] = @ - 1]
    /\ UNCHANGED <<reads, nested>>
    /\ WantsMonitor(t, "exit_write")

\* The depth a recursive entry stores.
UncountedDepth(t) == loaded[t]                                      \* mutant
DeeperStatus(t) == loaded[t] - 1

\* The store of the recursive writer's mutex->status--, and its return.
RecursiveWriteStore(t) ==
    /\ pc[t] = "recurse"
    /\ status' = DeeperStatus(t)
    /\ writes' = [writes EXCEPT ![t] = @ + 1]
    /\ pc' = [pc EXCEPT ![t] = "idle"]
    /\ op' = [op EXCEPT ![t] = "none"]
    /\ loaded' = [loaded EXCEPT ![t] = 0]
    /\ UNCHANGED <<writer, monVars, reads, nested, alive>>

-----------------------------------------------------------------------------
(* The bodies under syncMon. *)

\* omrthread_monitor_enter(mutex->syncMon).
MonitorEnter(t) ==
    /\ pc[t] = "mon"
    /\ syncMon!Enter(t)
    /\ pc' = [pc EXCEPT ![t] = "body"]
    /\ UNCHANGED <<status, writer, op, loaded, callerVars, alive>>

\* omrthread_monitor_wait(mutex->syncMon) returns into the loop.
MonitorReacquire(t) ==
    /\ pc[t] = "body"
    /\ syncMon!Reacquire(t)
    /\ UNCHANGED <<status, writer, pc, op, loaded, callerVars, alive>>

InBody(t, ops) == pc[t] = "body" /\ owner = t /\ op[t] \in ops

\* The conditions of the two wait loops.
ReadWaitsForNestedWriter == status < -1                             \* mutant
ReadMustWait == status < 0
WriteWaitsForWriter == status < 0                                   \* mutant
WriteMustWait == status # 0

\* while (mutex->status < 0) wait;  mutex->status++
EnterReadBody(t) ==
    /\ InBody(t, {"enter_read"})
    /\ \/ /\ ReadMustWait
          /\ syncMon!Wait(t)
          /\ UNCHANGED <<status, pc>>
       \/ /\ ~ReadMustWait
          /\ status' = status + 1
          /\ pc' = [pc EXCEPT ![t] = "leave"]
          /\ UNCHANGED monVars
    /\ UNCHANGED <<writer, op, loaded, callerVars, alive>>

\* The notifications of the exits, when status reaches zero.
NoNotification(t) == UNCHANGED monVars                              \* mutant
ReadExitNotifies(t) == syncMon!Notify(t)
NotifyOneOnly(t) == syncMon!Notify(t)                               \* mutant
WriteExitNotifies(t) == syncMon!NotifyAll(t)

\* mutex->status--, and one waiting thread is notified when it reaches zero
ExitReadBody(t) ==
    /\ InBody(t, {"exit_read"})
    /\ status' = status - 1
    /\ IF status' = 0 THEN ReadExitNotifies(t) ELSE UNCHANGED monVars
    /\ pc' = [pc EXCEPT ![t] = "leave"]
    /\ UNCHANGED <<writer, op, loaded, callerVars, alive>>

\* while (mutex->status != 0) wait, or give up;  mutex->status--;  writer = self
EnterWriteBody(t) ==
    /\ InBody(t, {"enter_write", "try_enter_write"})
    /\ \/ /\ WriteMustWait /\ op[t] = "enter_write"
          /\ syncMon!Wait(t)
          /\ UNCHANGED <<status, writer, pc>>
       \/ /\ WriteMustWait /\ op[t] = "try_enter_write"
          /\ pc' = [pc EXCEPT ![t] = "fail"]
          /\ UNCHANGED <<status, writer, monVars>>
       \/ /\ ~WriteMustWait
          /\ status' = status - 1
          /\ writer' = t
          /\ pc' = [pc EXCEPT ![t] = "leave"]
          /\ UNCHANGED monVars
    /\ UNCHANGED <<op, loaded, callerVars, alive>>

\* mutex->status++, and at zero the writer is gone and everyone is notified
ExitWriteBody(t) ==
    /\ InBody(t, {"exit_write"})
    /\ status' = status + 1
    /\ IF status' = 0
       THEN writer' = NoThread /\ WriteExitNotifies(t)
       ELSE UNCHANGED <<writer, monVars>>
    /\ pc' = [pc EXCEPT ![t] = "leave"]
    /\ UNCHANGED <<op, loaded, callerVars, alive>>

\* omrthread_monitor_exit(mutex->syncMon) and the return to the caller: OK,
\* or J9THREAD_RWMUTEX_WOULDBLOCK from "fail".
MonitorExit(t) ==
    /\ pc[t] \in {"leave", "fail"}
    /\ syncMon!Exit(t)
    /\ pc' = [pc EXCEPT ![t] = "idle"]
    /\ op' = [op EXCEPT ![t] = "none"]
    /\ reads' = IF op[t] = "enter_read" THEN [reads EXCEPT ![t] = @ + 1] ELSE reads
    /\ writes' = IF pc[t] = "leave" /\ op[t] \in {"enter_write", "try_enter_write"}
                 THEN [writes EXCEPT ![t] = @ + 1] ELSE writes
    /\ UNCHANGED <<status, writer, loaded, nested, alive>>

-----------------------------------------------------------------------------
(* fork(): the child process, where only the caller lives on. *)

\* postForkResetMonitors, then omrthread_rwmutex_reset, which aborts the child
\* when the mutex is read-locked.
Fork(t) ==
    /\ alive = Threads /\ pc[t] = "idle"
    /\ alive' = {t}
    /\ syncMon!PostForkReset(t)
    /\ IF status > 0
       THEN /\ pc' = [u \in Threads |-> "aborted"]
            /\ UNCHANGED <<status, writer>>
       ELSE /\ pc' = [u \in Threads |-> "idle"]
            /\ IF writer # t THEN writer' = NoThread /\ status' = 0
                             ELSE UNCHANGED <<writer, status>>
    /\ op' = [u \in Threads |-> "none"]
    /\ loaded' = [u \in Threads |-> 0]
    /\ reads' = [u \in Threads |-> IF u = t THEN reads[u] ELSE 0]
    /\ nested' = [u \in Threads |-> IF u = t THEN nested[u] ELSE 0]
    /\ writes' = [u \in Threads |-> IF u = t THEN writes[u] ELSE 0]

-----------------------------------------------------------------------------
Call(t) == enter_read(t) \/ exit_read(t) \/ enter_write(t) \/ try_enter_write(t) \/ exit_write(t)

\* The steps of a call that has begun.
Step(t) ==
    \/ RecursiveWriteStore(t) \/ MonitorEnter(t) \/ MonitorReacquire(t)
    \/ EnterReadBody(t) \/ ExitReadBody(t) \/ EnterWriteBody(t) \/ ExitWriteBody(t)
    \/ MonitorExit(t)

\* abort(): the process is gone.
Crashed == \E t \in Threads : pc[t] = "aborted"
Aborted == Crashed /\ UNCHANGED vars

Next == (\E t \in alive : Call(t) \/ Step(t) \/ Fork(t)) \/ Aborted

Spec == Init /\ [][Next]_vars

\* The scheduler runs every thread, and callers exit what they entered.
FairSpec ==
    /\ Spec
    /\ \A t \in Threads : /\ WF_vars(t \in alive /\ Step(t))
                          /\ WF_vars(t \in alive /\ exit_read(t))
                          /\ WF_vars(t \in alive /\ exit_write(t))

-----------------------------------------------------------------------------
(* What makes the mutex correct. *)

\* omrthread_rwmutex_is_writelocked, which reads both fields without syncMon.
is_writelocked == status < 0 \/ writer # NoThread

\* While a thread holds the mutex as a writer no other thread holds it at all,
\* and the logic-error check is_writelocked reports it.
WriterExcludesAll ==
    \A t \in Threads : writes[t] > 0 =>
        /\ \A u \in Threads \ {t} : reads[u] = 0 /\ nested[u] = 0 /\ writes[u] = 0
        /\ is_writelocked

\* Entries that mutex->status has to account for: those the callers hold, and
\* those of a call that has its entry but has not returned it to the caller, or
\* that has begun to exit but not yet given its entry back.
ReadEntered(t) ==
    \/ pc[t] = "leave" /\ op[t] = "enter_read"
    \/ pc[t] \in {"mon", "body"} /\ op[t] = "exit_read"

WriteEntered(t) ==
    \/ pc[t] = "leave" /\ op[t] \in {"enter_write", "try_enter_write"}
    \/ pc[t] \in {"mon", "body"} /\ op[t] = "exit_write"

ReadDepth     == [t \in Threads |-> reads[t] + (IF ReadEntered(t) THEN 1 ELSE 0)]
WriteDepth(t) == writes[t] + (IF WriteEntered(t) THEN 1 ELSE 0)

\* Read entries one by one: the i-th entry of thread t.
Entries(depth) == {e \in Threads \X (1..MaxDepth) : e[2] <= depth[e[1]]}

\* mutex->status counts exactly the entries there are: the writer's depth,
\* negated, or the readers' entries.  A lost update of the unsynchronised
\* status-- in enter_write, or an exit that the unsynchronised test of writer
\* sends the wrong way, would break it.
StatusAccountsForEntries ==
    ~Crashed =>
        /\ \A t \in Threads : WriteDepth(t) > 0 <=> writer = t
        /\ status = IF writer = NoThread THEN Cardinality(Entries(ReadDepth))
                                        ELSE 0 - WriteDepth(writer)

\* A thread that will retest status without being notified again.
WillRetest(t) ==
    /\ pc[t] = "body" /\ op[t] \in {"enter_read", "enter_write"}
    /\ waitState[t] # "waiting"

\* exit_read notifies a single thread.  That is enough: readers wait only
\* while there is a writer (whose last exit notifies all), and when the mutex
\* is free while threads wait, one that was notified is on its way to take it.
NoLostWakeup ==
    /\ \A t \in Threads : waitState[t] = "waiting" /\ op[t] = "enter_read" => status < 0
    /\ status = 0 /\ syncMon!Waiters # {} => \E t \in Threads : WillRetest(t)

\* Once no thread starts a new entry, every call in progress returns: nobody
\* is left waiting for a notification or for syncMon.
EntryCall(t) == enter_read(t) \/ enter_write(t) \/ try_enter_write(t)

CallsReturn ==
    <>[][\A t \in Threads : ~EntryCall(t)]_vars =>
        \A t \in Threads : (pc[t] # "idle") ~> (pc[t] \in {"idle", "aborted"})

\* The callers see the abstract lock of module RWLock.
RWL == INSTANCE RWLock
ImplementsRWLock == RWL!Spec
=============================================================================

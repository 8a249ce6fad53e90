------------------------------ MODULE Monitor ------------------------------
(***************************************************************************)
(* What an omrthread monitor promises its users (thread/common/omrthread.c,*)
(* the omrthread_monitor_* API): a re-entrant lock with a wait set.        *)
(* A waiting thread leaves the wait set only because it was notified, timed*)
(* out or was interrupted; it returns from the wait after re-acquiring the *)
(* monitor with the entry count it had.                                    *)
(*                                                                         *)
(* The module is used twice: RWMutex and ParallelTask INSTANCE it as the   *)
(* monitor their code synchronises on, and ThreeTierMonitor is shown to    *)
(* implement it.                                                           *)
(***************************************************************************)
EXTENDS Naturals

CONSTANTS
    Threads,    \* the omrthread_t's that use the monitor
    NoThread    \* owner == NULL

VARIABLES
    owner,      \* monitor->owner
    count,      \* monitor->count, the depth of recursive entry
    waitState,  \* [Threads -> "none", "waiting" or "woken"]
    saved       \* the entry count a waiting thread will restore, else 0

monitorVars == <<owner, count, waitState, saved>>

TypeOK ==
    /\ owner \in Threads \cup {NoThread}
    /\ count \in Nat
    /\ waitState \in [Threads -> {"none", "waiting", "woken"}]
    /\ saved \in [Threads -> Nat]

Init ==
    /\ owner = NoThread
    /\ count = 0
    /\ waitState = [t \in Threads |-> "none"]
    /\ saved = [t \in Threads |-> 0]

\* The threads notify may choose from.
Waiters == {t \in Threads : waitState[t] = "waiting"}

\* omrthread_monitor_enter: recursive entry, or entry of a free monitor.
\* A thread that finds the monitor owned by another one does not take the step.
Enter(t) ==
    /\ waitState[t] = "none"
    /\ \/ owner = t /\ owner' = t /\ count' = count + 1
       \/ owner = NoThread /\ owner' = t /\ count' = 1
    /\ UNCHANGED <<waitState, saved>>

\* omrthread_monitor_exit by the owner.
Exit(t) ==
    /\ owner = t
    /\ count' = count - 1
    /\ owner' = IF count = 1 THEN NoThread ELSE t
    /\ UNCHANGED <<waitState, saved>>

\* The releasing half of omrthread_monitor_wait.
Wait(t) ==
    /\ owner = t
    /\ owner' = NoThread
    /\ count' = 0
    /\ waitState' = [waitState EXCEPT ![t] = "waiting"]
    /\ saved' = [saved EXCEPT ![t] = count]

\* omrthread_monitor_notify: one waiting thread, if there is one.
Notify(t) ==
    /\ owner = t
    /\ \/ Waiters = {} /\ UNCHANGED waitState
       \/ \E u \in Waiters : waitState' = [waitState EXCEPT ![u] = "woken"]
    /\ UNCHANGED <<owner, count, saved>>

\* omrthread_monitor_notify_all: every waiting thread.
NotifyAll(t) ==
    /\ owner = t
    /\ waitState' = [u \in Threads |-> IF u \in Waiters THEN "woken" ELSE waitState[u]]
    /\ UNCHANGED <<owner, count, saved>>

\* A timed or interruptible wait ends without a notification.
Wake(t) ==
    /\ waitState[t] = "waiting"
    /\ waitState' = [waitState EXCEPT ![t] = "woken"]
    /\ UNCHANGED <<owner, count, saved>>

\* The acquiring half of omrthread_monitor_wait.
Reacquire(t) ==
    /\ waitState[t] = "woken"
    /\ owner = NoThread
    /\ owner' = t
    /\ count' = saved[t]
    /\ waitState' = [waitState EXCEPT ![t] = "none"]
    /\ saved' = [saved EXCEPT ![t] = 0]

\* An abortable wait returns without the monitor, because the thread was
\* aborted (J9THREAD_INTERRUPTED_MONITOR_ENTER).
GiveUp(t) ==
    /\ waitState[t] = "woken"
    /\ waitState' = [waitState EXCEPT ![t] = "none"]
    /\ saved' = [saved EXCEPT ![t] = 0]
    /\ UNCHANGED <<owner, count>>

\* postForkResetMonitors in the child process, where only t lives on: a
\* monitor t does not own becomes free (its count keeps the dead owner's
\* value) and nobody waits any more.
PostForkReset(t) ==
    /\ owner' = IF owner = t THEN t ELSE NoThread
    /\ waitState' = [u \in Threads |-> "none"]
    /\ saved' = [u \in Threads |-> 0]
    /\ UNCHANGED count

Next ==
    \E t \in Threads :
        \/ Enter(t) \/ Exit(t) \/ Wait(t) \/ Notify(t) \/ NotifyAll(t)
        \/ Wake(t) \/ Reacquire(t) \/ GiveUp(t)

Spec == Init /\ [][Next]_monitorVars
=============================================================================

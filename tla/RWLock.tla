------------------------------- MODULE RWLock -------------------------------
(***************************************************************************)
(* The re-entrant read/write lock that the callers of                      *)
(* omrthread_rwmutex_* are promised: entries and exits as they see them.   *)
(***************************************************************************)
EXTENDS Naturals

CONSTANTS
    Threads,    \* threads using the lock
    MaxDepth    \* bound on the entries of one kind one thread holds at a time

VARIABLES
    reads,      \* read entries of threads that are not the writer
    nested,     \* read entries inside a write entry
    writes      \* write entries

lockVars == <<reads, nested, writes>>

Init ==
    /\ reads = [t \in Threads |-> 0]
    /\ nested = [t \in Threads |-> 0]
    /\ writes = [t \in Threads |-> 0]

\* Nobody but t writes, or nobody but t holds the lock.
OnlyWriterIs(t) == \A u \in Threads \ {t} : writes[u] = 0
OnlyHolderIs(t) == \A u \in Threads \ {t} : writes[u] = 0 /\ reads[u] = 0

AcquireRead(t) ==
    /\ OnlyWriterIs(t)
    /\ IF writes[t] > 0
       THEN nested' = [nested EXCEPT ![t] = @ + 1] /\ UNCHANGED reads
       ELSE reads' = [reads EXCEPT ![t] = @ + 1] /\ UNCHANGED nested
    /\ UNCHANGED writes

ReleaseRead(t) ==
    /\ IF writes[t] > 0
       THEN nested[t] > 0 /\ nested' = [nested EXCEPT ![t] = @ - 1] /\ UNCHANGED reads
       ELSE reads[t] > 0 /\ reads' = [reads EXCEPT ![t] = @ - 1] /\ UNCHANGED nested
    /\ UNCHANGED writes

AcquireWrite(t) ==
    /\ OnlyHolderIs(t) /\ reads[t] = 0
    /\ writes' = [writes EXCEPT ![t] = @ + 1]
    /\ UNCHANGED <<reads, nested>>

ReleaseWrite(t) ==
    /\ writes[t] > 0 /\ nested[t] = 0
    /\ writes' = [writes EXCEPT ![t] = @ - 1]
    /\ UNCHANGED <<reads, nested>>

\* In the child of a fork the entries of the other threads are gone.
Fork(t) ==
    /\ reads' = [u \in Threads |-> IF u = t THEN reads[u] ELSE 0]
    /\ nested' = [u \in Threads |-> IF u = t THEN nested[u] ELSE 0]
    /\ writes' = [u \in Threads |-> IF u = t THEN writes[u] ELSE 0]

Next ==
    \E t \in Threads :
        \/ AcquireRead(t) \/ ReleaseRead(t)
        \/ AcquireWrite(t) \/ ReleaseWrite(t)
        \/ Fork(t)

Spec == Init /\ [][Next]_lockVars
=============================================================================

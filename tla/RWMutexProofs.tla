--------------------------- MODULE RWMutexProofs ---------------------------
(***************************************************************************)
(* Theorems about RWMutex for every finite set of threads and every depth. *)
(*                                                                         *)
(* The inductive invariant IInv adds to the properties what relates a      *)
(* thread's place in its call to syncMon (MonInv), to the entries it holds *)
(* (CallInv) and, through the writer field, to everybody else's entries    *)
(* (WriterInv).                                                            *)
(***************************************************************************)
EXTENDS RWMutex, FiniteSetTheorems, TLAPS

\* A thread has syncMon exactly in its body (unless it waits there) and until
\* it leaves; only entering readers and writers wait.
MonInv ==
    /\ \A t \in Threads :
        /\ owner = t <=> \/ pc[t] \in {"leave", "fail"}
                         \/ pc[t] = "body" /\ waitState[t] = "none"
        /\ waitState[t] # "none" =>
              pc[t] = "body" /\ op[t] \in {"enter_read", "enter_write"} /\ saved[t] = 1
    /\ owner # NoThread => count = 1

\* What a thread holds while it is in a call.
CallInv ==
    \A t \in Threads :
        /\ pc[t] = "idle" <=> op[t] = "none"
        /\ pc[t] = "recurse" =>
              /\ op[t] \in {"enter_write", "try_enter_write"}
              /\ writer = t /\ loaded[t] = status /\ writes[t] < MaxDepth
        /\ pc[t] = "fail" => op[t] = "try_enter_write"
        /\ op[t] # "none" => nested[t] = 0
        /\ op[t] \in {"enter_read", "exit_read"} => writes[t] = 0 /\ reads[t] < MaxDepth
        /\ op[t] \in {"enter_write", "try_enter_write"} =>
              reads[t] = 0 /\ (pc[t] # "recurse" => writes[t] = 0)
        /\ op[t] = "exit_write" => reads[t] = 0 /\ writes[t] < MaxDepth
        /\ writes[t] > 0 => reads[t] = 0
        /\ nested[t] > 0 => writes[t] > 0

\* The writer field names the thread with write entries; readers exclude it.
WriterInv ==
    /\ \A t \in Threads : WriteDepth(t) > 0 <=> writer = t
    /\ writer # NoThread => \A t \in Threads : ReadDepth[t] = 0

StatusInv ==
    status = IF writer = NoThread THEN Cardinality(Entries(ReadDepth)) ELSE 0 - WriteDepth(writer)

RunningInv ==
    /\ \A t \in Threads : pc[t] # "aborted"
    /\ MonInv /\ CallInv /\ WriterInv /\ StatusInv /\ NoLostWakeup

\* After abort() nothing is left to happen.
CrashedInv ==
    /\ Crashed
    /\ \A t \in Threads : pc[t] = "aborted" /\ writes[t] = 0 /\ nested[t] = 0 /\ waitState[t] = "none"

IInv == TypeOK /\ (RunningInv \/ CrashedInv)

-----------------------------------------------------------------------------
(* Counting entries. *)

LEMMA EntriesFinite ==
    ASSUME NEW depth \in [Threads -> 0..MaxDepth]
    PROVE  IsFiniteSet(Entries(depth)) /\ Cardinality(Entries(depth)) \in Nat
<1>1. IsFiniteSet(1..MaxDepth)
  BY FS_Interval, MaxDepthAssumption
<1>2. IsFiniteSet(Threads \X (1..MaxDepth))
  BY <1>1, FS_Product, ThreadsAssumption
<1>3. Entries(depth) \subseteq Threads \X (1..MaxDepth)
  BY DEF Entries
<1> QED
  BY <1>2, <1>3, FS_Subset, FS_CardinalityType

\* One more entry of one thread is one more entry.
LEMMA EntriesIncrement ==
    ASSUME NEW depth \in [Threads -> 0..MaxDepth], NEW t \in Threads, depth[t] < MaxDepth,
           NEW deeper \in [Threads -> 0..MaxDepth],
           deeper = [depth EXCEPT ![t] = @ + 1]
    PROVE  Cardinality(Entries(deeper)) = Cardinality(Entries(depth)) + 1
<1> DEFINE new == <<t, depth[t] + 1>>
<1>1. Entries(deeper) = Entries(depth) \cup {new}
  <2>1. ASSUME NEW e \in Entries(deeper) PROVE e \in Entries(depth) \cup {new}
    BY <2>1, MaxDepthAssumption DEF Entries
  <2>2. ASSUME NEW e \in Entries(depth) \cup {new} PROVE e \in Entries(deeper)
    BY <2>2, MaxDepthAssumption DEF Entries
  <2> QED BY <2>1, <2>2
<1>2. new \notin Entries(depth)
  BY MaxDepthAssumption DEF Entries
<1>3. IsFiniteSet(Entries(depth))
  BY EntriesFinite
<1> QED BY <1>1, <1>2, <1>3, FS_AddElement

\* No entries means no thread has one.
LEMMA EntriesZero ==
    ASSUME NEW depth \in [Threads -> 0..MaxDepth]
    PROVE  Cardinality(Entries(depth)) = 0 <=> \A t \in Threads : depth[t] = 0
<1>1. Cardinality(Entries(depth)) = 0 <=> Entries(depth) = {}
  BY EntriesFinite, FS_EmptySet
<1>2. ASSUME Entries(depth) = {}, NEW t \in Threads PROVE depth[t] = 0
  <2>1. <<t, 1>> \notin Entries(depth)
    BY <1>2
  <2> QED BY <2>1, MaxDepthAssumption DEF Entries
<1>3. ASSUME \A t \in Threads : depth[t] = 0 PROVE Entries(depth) = {}
  BY <1>3 DEF Entries
<1> QED BY <1>1, <1>2, <1>3

LEMMA ReadDepthType == TypeOK /\ CallInv => ReadDepth \in [Threads -> 0..MaxDepth]
  BY MaxDepthAssumption DEF TypeOK, CallInv, ReadDepth, ReadEntered

\* The sign of mutex->status says who holds the mutex.
LEMMA StatusMeaning ==
    ASSUME TypeOK, RunningInv
    PROVE  /\ ReadDepth \in [Threads -> 0..MaxDepth]
           /\ status < 0 <=> writer # NoThread
           /\ status = 0 <=> writer = NoThread /\ \A t \in Threads : ReadDepth[t] = 0
<1>1. ReadDepth \in [Threads -> 0..MaxDepth]
  BY ReadDepthType DEF RunningInv
<1>2. CASE writer = NoThread
  BY <1>1, <1>2, EntriesFinite, EntriesZero DEF RunningInv, StatusInv
<1>3. CASE writer # NoThread
  <2>1. writer \in Threads
    BY <1>3 DEF TypeOK
  <2>2. WriteDepth(writer) > 0 /\ status = 0 - WriteDepth(writer)
    BY <1>3, <2>1 DEF RunningInv, WriterInv, StatusInv
  <2>3. WriteDepth(writer) \in Int
    BY <2>1, MaxDepthAssumption DEF TypeOK, WriteDepth
  <2> QED BY <1>1, <1>3, <2>2, <2>3
<1> QED BY <1>1, <1>2, <1>3

-----------------------------------------------------------------------------
(* The invariant holds initially and every action preserves it. *)

LEMMA InitIInv == Init => IInv
<1> SUFFICES ASSUME Init PROVE IInv
  OBVIOUS
<1> USE DEF Init, syncMon!Init
<1>1. TypeOK
  BY ThreadsAssumption, MaxDepthAssumption DEF TypeOK, syncMon!TypeOK
<1>2. MonInv /\ CallInv
  BY ThreadsAssumption DEF MonInv, CallInv
<1>3. WriterInv /\ ReadDepth \in [Threads -> 0..MaxDepth] /\ \A t \in Threads : ReadDepth[t] = 0
  BY ThreadsAssumption, MaxDepthAssumption
     DEF WriterInv, ReadDepth, ReadEntered, WriteDepth, WriteEntered
<1>4. StatusInv
  BY <1>3, EntriesZero DEF StatusInv
<1>5. NoLostWakeup
  BY DEF NoLostWakeup, syncMon!Waiters
<1> QED BY <1>1, <1>2, <1>3, <1>4, <1>5 DEF IInv, RunningInv

LEMMA enter_readStep ==
    ASSUME TypeOK, RunningInv, NEW t \in Threads, enter_read(t)
    PROVE  IInv'
<1> USE ThreadsAssumption, MaxDepthAssumption
       DEF enter_read, SelfIsWriter, WantsMonitor, monVars, callerVars
<1>1. TypeOK'
  BY DEF TypeOK, syncMon!TypeOK, Ops, RunningInv, MonInv, CallInv
<1>2. MonInv'
  BY DEF TypeOK, syncMon!TypeOK, Ops, RunningInv, MonInv, CallInv
<1>3. CallInv'
  BY DEF TypeOK, syncMon!TypeOK, Ops, RunningInv, MonInv, CallInv, WriterInv, WriteDepth, WriteEntered
<1>4. WriterInv'
  BY DEF TypeOK, syncMon!TypeOK, Ops, RunningInv, MonInv, CallInv, WriterInv, WriteDepth, WriteEntered, ReadDepth, ReadEntered
<1>5. StatusInv'
  <2>1. ReadDepth' = ReadDepth
    BY DEF TypeOK, syncMon!TypeOK, Ops, RunningInv, MonInv, CallInv, ReadDepth, ReadEntered
  <2> QED
    BY <2>1 DEF TypeOK, syncMon!TypeOK, Ops, RunningInv, MonInv, CallInv, WriterInv, WriteDepth, WriteEntered, StatusInv
<1>6. NoLostWakeup'
  BY DEF TypeOK, syncMon!TypeOK, Ops, RunningInv, MonInv, CallInv, NoLostWakeup, WillRetest, syncMon!Waiters
<1>7. \A u \in Threads : pc'[u] # "aborted"
  BY DEF TypeOK, RunningInv
<1> QED BY <1>1, <1>2, <1>3, <1>4, <1>5, <1>6, <1>7 DEF IInv, RunningInv

LEMMA exit_readStep ==
    ASSUME TypeOK, RunningInv, NEW t \in Threads, exit_read(t)
    PROVE  IInv'
<1> USE ThreadsAssumption, MaxDepthAssumption
       DEF exit_read, SelfIsWriter, WantsMonitor, monVars, callerVars
<1>1. TypeOK'
  BY DEF TypeOK, syncMon!TypeOK, Ops, RunningInv, MonInv, CallInv
<1>2. MonInv'
  BY DEF TypeOK, syncMon!TypeOK, Ops, RunningInv, MonInv, CallInv
<1>3. CallInv'
  BY DEF TypeOK, syncMon!TypeOK, Ops, RunningInv, MonInv, CallInv, WriterInv, WriteDepth, WriteEntered
<1>0. (writer = t => reads[t] = 0) /\ (nested[t] > 0 => writer = t)
  BY DEF TypeOK, RunningInv, CallInv, WriterInv, WriteDepth, WriteEntered
<1>4. WriterInv'
  BY <1>0 DEF TypeOK, syncMon!TypeOK, Ops, RunningInv, MonInv, CallInv, WriterInv, WriteDepth, WriteEntered, ReadDepth, ReadEntered
<1>5. StatusInv'
  <2>1. \A u \in Threads : ReadDepth'[u] = ReadDepth[u]
    BY <1>0 DEF TypeOK, RunningInv, CallInv, ReadDepth, ReadEntered
  <2>2. ReadDepth' = ReadDepth
    BY <2>1 DEF ReadDepth
  <2> QED
    BY <2>2 DEF TypeOK, syncMon!TypeOK, Ops, RunningInv, MonInv, CallInv, WriterInv, WriteDepth, WriteEntered, StatusInv
<1>6. NoLostWakeup'
  BY DEF TypeOK, syncMon!TypeOK, Ops, RunningInv, MonInv, CallInv, NoLostWakeup, WillRetest, syncMon!Waiters
<1>7. \A u \in Threads : pc'[u] # "aborted"
  BY DEF TypeOK, RunningInv
<1> QED BY <1>1, <1>2, <1>3, <1>4, <1>5, <1>6, <1>7 DEF IInv, RunningInv

LEMMA CallForWriteStep ==
    ASSUME TypeOK, RunningInv, NEW t \in Threads, NEW o \in {"enter_write", "try_enter_write"}, CallForWrite(t, o)
    PROVE  IInv'
<1> USE ThreadsAssumption, MaxDepthAssumption
       DEF CallForWrite, SelfIsWriter, WantsMonitor, monVars, callerVars
<1>0. writer = t => status \in (0 - MaxDepth)..0
  BY DEF TypeOK, RunningInv, WriterInv, WriteDepth, WriteEntered, StatusInv
<1>1. TypeOK'
  BY <1>0 DEF TypeOK, syncMon!TypeOK, Ops
<1>2. MonInv'
  BY DEF TypeOK, syncMon!TypeOK, Ops, RunningInv, MonInv, CallInv
<1>3. CallInv'
  BY DEF TypeOK, syncMon!TypeOK, Ops, RunningInv, MonInv, CallInv, WriterInv, WriteDepth, WriteEntered
<1>4. WriterInv'
  BY DEF TypeOK, syncMon!TypeOK, Ops, RunningInv, MonInv, CallInv, WriterInv, WriteDepth, WriteEntered, ReadDepth, ReadEntered
<1>5. StatusInv'
  <2>1. ReadDepth' = ReadDepth
    BY DEF TypeOK, syncMon!TypeOK, Ops, RunningInv, MonInv, CallInv, ReadDepth, ReadEntered
  <2> QED
    BY <2>1 DEF TypeOK, syncMon!TypeOK, Ops, RunningInv, MonInv, CallInv, WriterInv, WriteDepth, WriteEntered, StatusInv
<1>6. NoLostWakeup'
  BY DEF TypeOK, syncMon!TypeOK, Ops, RunningInv, MonInv, CallInv, NoLostWakeup, WillRetest, syncMon!Waiters
<1>7. \A u \in Threads : pc'[u] # "aborted"
  BY DEF TypeOK, RunningInv
<1> QED BY <1>1, <1>2, <1>3, <1>4, <1>5, <1>6, <1>7 DEF IInv, RunningInv

LEMMA exit_writeStep ==
    ASSUME TypeOK, RunningInv, NEW t \in Threads, exit_write(t)
    PROVE  IInv'
<1> USE ThreadsAssumption, MaxDepthAssumption
       DEF exit_write, WantsMonitor, monVars, callerVars
<1>1. TypeOK'
  BY DEF TypeOK, syncMon!TypeOK, Ops, RunningInv, MonInv, CallInv
<1>2. MonInv'
  BY DEF TypeOK, syncMon!TypeOK, Ops, RunningInv, MonInv, CallInv
<1>3. CallInv'
  BY DEF TypeOK, syncMon!TypeOK, Ops, RunningInv, MonInv, CallInv, WriterInv, WriteDepth, WriteEntered
<1>4. WriterInv'
  BY DEF TypeOK, syncMon!TypeOK, Ops, RunningInv, MonInv, CallInv, WriterInv, WriteDepth, WriteEntered, ReadDepth, ReadEntered
<1>5. StatusInv'
  <2>1. ReadDepth' = ReadDepth
    BY DEF TypeOK, syncMon!TypeOK, Ops, RunningInv, MonInv, CallInv, ReadDepth, ReadEntered
  <2> QED
    BY <2>1 DEF TypeOK, syncMon!TypeOK, Ops, RunningInv, MonInv, CallInv, WriterInv, WriteDepth, WriteEntered, StatusInv
<1>6. NoLostWakeup'
  BY DEF TypeOK, syncMon!TypeOK, Ops, RunningInv, MonInv, CallInv, NoLostWakeup, WillRetest, syncMon!Waiters
<1>7. \A u \in Threads : pc'[u] # "aborted"
  BY DEF TypeOK, RunningInv
<1> QED BY <1>1, <1>2, <1>3, <1>4, <1>5, <1>6, <1>7 DEF IInv, RunningInv

LEMMA RecursiveWriteStoreStep ==
    ASSUME TypeOK, RunningInv, NEW t \in Threads, RecursiveWriteStore(t)
    PROVE  IInv'
<1> USE ThreadsAssumption, MaxDepthAssumption
       DEF RecursiveWriteStore, DeeperStatus, monVars, callerVars
<1>1. TypeOK'
  BY DEF TypeOK, syncMon!TypeOK, Ops, RunningInv, MonInv, CallInv
<1>2. MonInv'
  BY DEF TypeOK, syncMon!TypeOK, Ops, RunningInv, MonInv, CallInv
<1>3. CallInv'
  BY DEF TypeOK, syncMon!TypeOK, Ops, RunningInv, MonInv, CallInv, WriterInv, WriteDepth, WriteEntered
<1>4. WriterInv'
  BY DEF TypeOK, syncMon!TypeOK, Ops, RunningInv, MonInv, CallInv, WriterInv, WriteDepth, WriteEntered, ReadDepth, ReadEntered
<1>5. StatusInv'
  <2>1. ReadDepth' = ReadDepth
    BY DEF TypeOK, syncMon!TypeOK, Ops, RunningInv, MonInv, CallInv, ReadDepth, ReadEntered
  <2> QED
    BY <2>1 DEF TypeOK, syncMon!TypeOK, Ops, RunningInv, MonInv, CallInv, WriterInv, WriteDepth, WriteEntered, StatusInv
<1>0. status < 0
  BY StatusMeaning DEF RunningInv, CallInv
<1>6. NoLostWakeup'
  BY <1>0 DEF TypeOK, syncMon!TypeOK, Ops, RunningInv, MonInv, CallInv, NoLostWakeup, WillRetest, syncMon!Waiters
<1>7. \A u \in Threads : pc'[u] # "aborted"
  BY DEF TypeOK, RunningInv
<1> QED BY <1>1, <1>2, <1>3, <1>4, <1>5, <1>6, <1>7 DEF IInv, RunningInv

LEMMA MonitorEnterStep ==
    ASSUME TypeOK, RunningInv, NEW t \in Threads, MonitorEnter(t)
    PROVE  IInv'
<1> USE ThreadsAssumption, MaxDepthAssumption
       DEF MonitorEnter, syncMon!Enter, monVars, callerVars
<1>1. TypeOK'
  BY DEF TypeOK, syncMon!TypeOK, Ops, RunningInv, MonInv, CallInv
<1>2. MonInv'
  BY DEF TypeOK, syncMon!TypeOK, Ops, RunningInv, MonInv, CallInv
<1>3. CallInv'
  BY DEF TypeOK, syncMon!TypeOK, Ops, RunningInv, MonInv, CallInv, WriterInv, WriteDepth, WriteEntered
<1>4. WriterInv'
  BY DEF TypeOK, syncMon!TypeOK, Ops, RunningInv, MonInv, CallInv, WriterInv, WriteDepth, WriteEntered, ReadDepth, ReadEntered
<1>5. StatusInv'
  <2>1. ReadDepth' = ReadDepth
    BY DEF TypeOK, syncMon!TypeOK, Ops, RunningInv, MonInv, CallInv, ReadDepth, ReadEntered
  <2> QED
    BY <2>1 DEF TypeOK, syncMon!TypeOK, Ops, RunningInv, MonInv, CallInv, WriterInv, WriteDepth, WriteEntered, StatusInv
<1>6. NoLostWakeup'
  BY DEF TypeOK, syncMon!TypeOK, Ops, RunningInv, MonInv, CallInv, NoLostWakeup, WillRetest, syncMon!Waiters
<1>7. \A u \in Threads : pc'[u] # "aborted"
  BY DEF TypeOK, RunningInv
<1> QED BY <1>1, <1>2, <1>3, <1>4, <1>5, <1>6, <1>7 DEF IInv, RunningInv

LEMMA MonitorReacquireStep ==
    ASSUME TypeOK, RunningInv, NEW t \in Threads, MonitorReacquire(t)
    PROVE  IInv'
<1> USE ThreadsAssumption, MaxDepthAssumption
       DEF MonitorReacquire, syncMon!Reacquire, monVars, callerVars
<1>1. TypeOK'
  BY DEF TypeOK, syncMon!TypeOK, Ops, RunningInv, MonInv, CallInv
<1>2. MonInv'
  BY DEF TypeOK, syncMon!TypeOK, Ops, RunningInv, MonInv, CallInv
<1>3. CallInv'
  BY DEF TypeOK, syncMon!TypeOK, Ops, RunningInv, MonInv, CallInv, WriterInv, WriteDepth, WriteEntered
<1>4. WriterInv'
  BY DEF TypeOK, syncMon!TypeOK, Ops, RunningInv, MonInv, CallInv, WriterInv, WriteDepth, WriteEntered, ReadDepth, ReadEntered
<1>5. StatusInv'
  <2>1. ReadDepth' = ReadDepth
    BY DEF TypeOK, syncMon!TypeOK, Ops, RunningInv, MonInv, CallInv, ReadDepth, ReadEntered
  <2> QED
    BY <2>1 DEF TypeOK, syncMon!TypeOK, Ops, RunningInv, MonInv, CallInv, WriterInv, WriteDepth, WriteEntered, StatusInv
<1>6. NoLostWakeup'
  BY DEF TypeOK, syncMon!TypeOK, Ops, RunningInv, MonInv, CallInv, NoLostWakeup, WillRetest, syncMon!Waiters
<1>7. \A u \in Threads : pc'[u] # "aborted"
  BY DEF TypeOK, RunningInv
<1> QED BY <1>1, <1>2, <1>3, <1>4, <1>5, <1>6, <1>7 DEF IInv, RunningInv

LEMMA EnterReadBodyStep ==
    ASSUME TypeOK, RunningInv, NEW t \in Threads, EnterReadBody(t)
    PROVE  IInv'
<1> USE ThreadsAssumption, MaxDepthAssumption
       DEF EnterReadBody, ReadMustWait, InBody, syncMon!Wait, monVars, callerVars
<1>1. TypeOK'
  BY DEF TypeOK, syncMon!TypeOK, Ops, RunningInv, MonInv, CallInv
<1>2. MonInv'
  BY DEF TypeOK, syncMon!TypeOK, Ops, RunningInv, MonInv, CallInv
<1>3. CallInv'
  BY StatusMeaning DEF TypeOK, syncMon!TypeOK, Ops, RunningInv, MonInv, CallInv, WriterInv, WriteDepth, WriteEntered
<1>4. WriterInv'
  BY StatusMeaning DEF TypeOK, syncMon!TypeOK, Ops, RunningInv, MonInv, CallInv, WriterInv, WriteDepth, WriteEntered, ReadDepth, ReadEntered
<1>5. StatusInv'
  <2>1. CASE status < 0
    <3>1. ReadDepth' = ReadDepth
      BY <2>1 DEF TypeOK, ReadDepth, ReadEntered
    <3> QED
      BY <2>1, <3>1 DEF TypeOK, RunningInv, WriterInv, WriteDepth, WriteEntered, StatusInv
  <2>2. CASE status >= 0
    <3>0. \A u \in Threads : ReadDepth'[u] = IF u = t THEN ReadDepth[u] + 1 ELSE ReadDepth[u]
      BY <2>2 DEF TypeOK, ReadDepth, ReadEntered
    <3>a. ReadDepth[t] < MaxDepth
      BY DEF TypeOK, RunningInv, CallInv, ReadDepth, ReadEntered
    <3>b. ReadDepth \in [Threads -> 0..MaxDepth] /\ ReadDepth' = [u \in Threads |-> ReadDepth'[u]]
      BY StatusMeaning DEF ReadDepth
    <3>1. ReadDepth' = [ReadDepth EXCEPT ![t] = @ + 1] /\ ReadDepth[t] < MaxDepth
      BY <3>0, <3>a, <3>b
    <3>2. ReadDepth \in [Threads -> 0..MaxDepth] /\ ReadDepth' \in [Threads -> 0..MaxDepth]
      BY <3>1, StatusMeaning
    <3>3. writer = NoThread /\ writer' = NoThread
      BY <2>2, StatusMeaning DEF TypeOK
    <3>4. Cardinality(Entries(ReadDepth')) = Cardinality(Entries(ReadDepth)) + 1
      BY <3>1, <3>2, EntriesIncrement
    <3>5. Entries(ReadDepth)' = Entries(ReadDepth')
      BY DEF Entries
    <3> QED
      BY <2>2, <3>2, <3>3, <3>4, <3>5, EntriesFinite DEF RunningInv, StatusInv
  <2> QED BY <2>1, <2>2 DEF TypeOK
<1>6. NoLostWakeup'
  BY DEF TypeOK, syncMon!TypeOK, Ops, RunningInv, MonInv, CallInv, NoLostWakeup, WillRetest, syncMon!Waiters
<1>7. \A u \in Threads : pc'[u] # "aborted"
  BY DEF TypeOK, RunningInv
<1> QED BY <1>1, <1>2, <1>3, <1>4, <1>5, <1>6, <1>7 DEF IInv, RunningInv

LEMMA ExitReadBodyStep ==
    ASSUME TypeOK, RunningInv, NEW t \in Threads, ExitReadBody(t)
    PROVE  IInv'
<1> USE ThreadsAssumption, MaxDepthAssumption
       DEF ExitReadBody, ReadExitNotifies, InBody, syncMon!Notify, syncMon!Waiters, monVars, callerVars
<1>0. writer = NoThread
  BY DEF TypeOK, RunningInv, CallInv, WriterInv, ReadDepth, ReadEntered
<1>1. TypeOK'
  BY DEF TypeOK, syncMon!TypeOK, Ops, RunningInv, MonInv, CallInv
<1>2. MonInv'
  BY DEF TypeOK, syncMon!TypeOK, Ops, RunningInv, MonInv, CallInv
<1>3. CallInv'
  BY <1>0 DEF TypeOK, syncMon!TypeOK, Ops, RunningInv, MonInv, CallInv, WriterInv, WriteDepth, WriteEntered
<1>4. WriterInv'
  BY StatusMeaning DEF TypeOK, syncMon!TypeOK, Ops, RunningInv, MonInv, CallInv, WriterInv, WriteDepth, WriteEntered, ReadDepth, ReadEntered
<1>5. StatusInv'
  <2>0. \A u \in Threads : ReadDepth[u] = IF u = t THEN ReadDepth'[u] + 1 ELSE ReadDepth'[u]
    BY DEF TypeOK, ReadDepth, ReadEntered
  <2>a. ReadDepth \in [Threads -> 0..MaxDepth] /\ ReadDepth' = [u \in Threads |-> ReadDepth'[u]]
    BY StatusMeaning DEF ReadDepth
  <2>b. ReadDepth'[t] \in 0..MaxDepth
    BY DEF TypeOK, RunningInv, CallInv, ReadDepth, ReadEntered
  <2>c. \A u \in Threads : ReadDepth'[u] \in Int
    BY DEF TypeOK, ReadDepth, ReadEntered
  <2>1. ReadDepth = [ReadDepth' EXCEPT ![t] = @ + 1] /\ ReadDepth'[t] < MaxDepth
    BY <2>0, <2>a, <2>b
  <2>2. ReadDepth \in [Threads -> 0..MaxDepth] /\ ReadDepth' \in [Threads -> 0..MaxDepth]
    BY <2>0, <2>a, <2>b, <2>c
  <2>3. writer = NoThread /\ writer' = NoThread
    BY <1>0
  <2>4. Cardinality(Entries(ReadDepth)) = Cardinality(Entries(ReadDepth')) + 1
    BY <2>1, <2>2, EntriesIncrement
  <2>5. Entries(ReadDepth)' = Entries(ReadDepth')
    BY DEF Entries
  <2>6. Cardinality(Entries(ReadDepth')) \in Nat
    BY <2>2, EntriesFinite
  <2> QED
    BY <2>3, <2>4, <2>5, <2>6 DEF RunningInv, StatusInv
<1>6. NoLostWakeup'
  BY DEF TypeOK, syncMon!TypeOK, Ops, RunningInv, MonInv, CallInv, NoLostWakeup, WillRetest, syncMon!Waiters
<1>7. \A u \in Threads : pc'[u] # "aborted"
  BY DEF TypeOK, RunningInv
<1> QED BY <1>1, <1>2, <1>3, <1>4, <1>5, <1>6, <1>7 DEF IInv, RunningInv

LEMMA EnterWriteBodyStep ==
    ASSUME TypeOK, RunningInv, NEW t \in Threads, EnterWriteBody(t)
    PROVE  IInv'
<1> USE ThreadsAssumption, MaxDepthAssumption
       DEF EnterWriteBody, WriteMustWait, InBody, syncMon!Wait, monVars, callerVars
<1>1. TypeOK'
  BY DEF TypeOK, syncMon!TypeOK, Ops, RunningInv, MonInv, CallInv
<1>2. MonInv'
  BY DEF TypeOK, syncMon!TypeOK, Ops, RunningInv, MonInv, CallInv
<1>3. CallInv'
  BY StatusMeaning DEF TypeOK, syncMon!TypeOK, Ops, RunningInv, MonInv, CallInv, WriterInv, WriteDepth, WriteEntered
<1>4. WriterInv'
  BY StatusMeaning DEF TypeOK, syncMon!TypeOK, Ops, RunningInv, MonInv, CallInv, WriterInv, WriteDepth, WriteEntered, ReadDepth, ReadEntered
<1>5. StatusInv'
  <2>1. ReadDepth' = ReadDepth
    BY DEF TypeOK, syncMon!TypeOK, Ops, RunningInv, MonInv, CallInv, ReadDepth, ReadEntered
  <2> QED
    BY <2>1 DEF TypeOK, syncMon!TypeOK, Ops, RunningInv, MonInv, CallInv, WriterInv, WriteDepth, WriteEntered, StatusInv
<1>6. NoLostWakeup'
  BY DEF TypeOK, syncMon!TypeOK, Ops, RunningInv, MonInv, CallInv, NoLostWakeup, WillRetest, syncMon!Waiters
<1>7. \A u \in Threads : pc'[u] # "aborted"
  BY DEF TypeOK, RunningInv
<1> QED BY <1>1, <1>2, <1>3, <1>4, <1>5, <1>6, <1>7 DEF IInv, RunningInv

LEMMA ExitWriteBodyStep ==
    ASSUME TypeOK, RunningInv, NEW t \in Threads, ExitWriteBody(t)
    PROVE  IInv'
<1> USE ThreadsAssumption, MaxDepthAssumption
       DEF ExitWriteBody, WriteExitNotifies, InBody, syncMon!NotifyAll, syncMon!Waiters, monVars, callerVars
<1>0. writer = t /\ status = 0 - (writes[t] + 1)
  BY DEF TypeOK, RunningInv, WriterInv, WriteDepth, WriteEntered, StatusInv
<1>1. TypeOK'
  BY DEF TypeOK, syncMon!TypeOK, Ops, RunningInv, MonInv, CallInv
<1>2. MonInv'
  BY DEF TypeOK, syncMon!TypeOK, Ops, RunningInv, MonInv, CallInv
<1>3. CallInv'
  BY StatusMeaning DEF TypeOK, syncMon!TypeOK, Ops, RunningInv, MonInv, CallInv, WriterInv, WriteDepth, WriteEntered
<1>4. WriterInv'
  BY <1>0 DEF TypeOK, syncMon!TypeOK, Ops, RunningInv, MonInv, CallInv, WriterInv, WriteDepth, WriteEntered, ReadDepth, ReadEntered
<1>5. StatusInv'
  <2>1. ReadDepth' = ReadDepth
    BY DEF TypeOK, syncMon!TypeOK, Ops, RunningInv, MonInv, CallInv, ReadDepth, ReadEntered
  <2>2. ReadDepth \in [Threads -> 0..MaxDepth] /\ \A u \in Threads : ReadDepth[u] = 0
    BY <1>0, StatusMeaning DEF RunningInv, WriterInv
  <2> QED
    <3>1. Cardinality(Entries(ReadDepth')) = 0
      BY <2>1, <2>2, EntriesZero
    <3>2. CASE status' = 0
      BY <3>1, <3>2 DEF StatusInv
    <3>3. CASE status' # 0
      BY <1>0, <3>3 DEF TypeOK, WriteDepth, WriteEntered, StatusInv
    <3> QED BY <3>2, <3>3
<1>6. NoLostWakeup'
  BY DEF TypeOK, syncMon!TypeOK, Ops, RunningInv, MonInv, CallInv, NoLostWakeup, WillRetest, syncMon!Waiters
<1>7. \A u \in Threads : pc'[u] # "aborted"
  BY DEF TypeOK, RunningInv
<1> QED BY <1>1, <1>2, <1>3, <1>4, <1>5, <1>6, <1>7 DEF IInv, RunningInv

LEMMA MonitorExitStep ==
    ASSUME TypeOK, RunningInv, NEW t \in Threads, MonitorExit(t)
    PROVE  IInv'
<1> USE ThreadsAssumption, MaxDepthAssumption
       DEF MonitorExit, syncMon!Exit, monVars, callerVars
<1>1. TypeOK'
  BY DEF TypeOK, syncMon!TypeOK, Ops, RunningInv, MonInv, CallInv
<1>2. MonInv'
  BY DEF TypeOK, syncMon!TypeOK, Ops, RunningInv, MonInv, CallInv
<1>3. CallInv'
  BY DEF TypeOK, syncMon!TypeOK, Ops, RunningInv, MonInv, CallInv, WriterInv, WriteDepth, WriteEntered
<1>4. WriterInv'
  BY DEF TypeOK, syncMon!TypeOK, Ops, RunningInv, MonInv, CallInv, WriterInv, WriteDepth, WriteEntered, ReadDepth, ReadEntered
<1>5. StatusInv'
  <2>1. ReadDepth' = ReadDepth
    BY DEF TypeOK, syncMon!TypeOK, Ops, RunningInv, MonInv, CallInv, ReadDepth, ReadEntered
  <2> QED
    BY <2>1 DEF TypeOK, syncMon!TypeOK, Ops, RunningInv, MonInv, CallInv, WriterInv, WriteDepth, WriteEntered, StatusInv
<1>6. NoLostWakeup'
  BY DEF TypeOK, syncMon!TypeOK, Ops, RunningInv, MonInv, CallInv, NoLostWakeup, WillRetest, syncMon!Waiters
<1>7. \A u \in Threads : pc'[u] # "aborted"
  BY DEF TypeOK, RunningInv
<1> QED BY <1>1, <1>2, <1>3, <1>4, <1>5, <1>6, <1>7 DEF IInv, RunningInv

LEMMA ForkStep ==
    ASSUME TypeOK, RunningInv, NEW t \in Threads, Fork(t)
    PROVE  IInv'
<1> USE ThreadsAssumption, MaxDepthAssumption DEF Fork, syncMon!PostForkReset
<1>1. TypeOK'
  BY DEF TypeOK, syncMon!TypeOK
<1>2. CASE status > 0
  <2>1. writer # t /\ writes[t] = 0 /\ nested[t] = 0
    BY <1>2, StatusMeaning DEF TypeOK, RunningInv, CallInv, WriterInv, WriteDepth
  <2> QED BY <1>1, <1>2, <2>1 DEF IInv, CrashedInv, Crashed, TypeOK
<1>3. CASE ~(status > 0)
  <2>1. writer # t => reads[t] = 0 /\ writes[t] = 0 /\ nested[t] = 0
    <3>1. reads[t] = 0
      BY <1>3, StatusMeaning DEF TypeOK, RunningInv, WriterInv, ReadDepth, ReadEntered
    <3>2. writer # t => writes[t] = 0
      BY DEF TypeOK, RunningInv, WriterInv, WriteDepth
    <3> QED BY <3>1, <3>2 DEF TypeOK, RunningInv, CallInv
  <2>2. writer = t => reads[t] = 0 /\ writes[t] > 0 /\ status = 0 - writes[t]
    BY DEF TypeOK, RunningInv, CallInv, WriterInv, WriteDepth, WriteEntered, StatusInv
  <2>3. MonInv'
    BY <1>3 DEF TypeOK, syncMon!TypeOK, RunningInv, MonInv
  <2>4. CallInv'
    BY <1>3, <2>1, <2>2 DEF TypeOK, RunningInv, CallInv
  <2>5. ReadDepth' \in [Threads -> 0..MaxDepth] /\ \A u \in Threads : ReadDepth'[u] = 0
    BY <1>3, <2>1, <2>2 DEF TypeOK, ReadDepth, ReadEntered
  <2>6. WriterInv'
    BY <1>3, <2>1, <2>2, <2>5 DEF TypeOK, WriterInv, WriteDepth, WriteEntered
  <2>7. StatusInv'
    <3>1. Cardinality(Entries(ReadDepth')) = 0
      BY <2>5, EntriesZero
    <3>2. CASE writer = t
      BY <1>3, <2>2, <3>2 DEF TypeOK, StatusInv, WriteDepth, WriteEntered
    <3>3. CASE writer # t
      BY <1>3, <3>1, <3>3 DEF StatusInv
    <3> QED BY <3>2, <3>3
  <2>8. NoLostWakeup'
    BY <1>3 DEF NoLostWakeup, syncMon!Waiters
  <2>9. \A u \in Threads : pc'[u] # "aborted"
    BY <1>3
  <2> QED BY <1>1, <2>3, <2>4, <2>6, <2>7, <2>8, <2>9 DEF IInv, RunningInv
<1> QED BY <1>2, <1>3

LEMMA NextIInv == IInv /\ [Next]_vars => IInv'
<1> SUFFICES ASSUME IInv, [Next]_vars PROVE IInv'
  OBVIOUS
<1>1. CASE UNCHANGED vars
  <2> USE DEF vars, monVars, callerVars
  <2>1. TypeOK' <=> TypeOK
    BY <1>1 DEF TypeOK, syncMon!TypeOK
  <2>2. RunningInv' <=> RunningInv
    BY <1>1 DEF RunningInv, MonInv, CallInv, WriterInv, WriteDepth, WriteEntered, ReadDepth,
                ReadEntered, StatusInv, NoLostWakeup, WillRetest, syncMon!Waiters
  <2>3. CrashedInv' <=> CrashedInv
    BY <1>1 DEF CrashedInv, Crashed
  <2> QED BY <2>1, <2>2, <2>3 DEF IInv
<1>2. CASE Aborted
  BY <1>1, <1>2 DEF Aborted
<1>3. ASSUME NEW t \in alive, Call(t) \/ Step(t) \/ Fork(t) PROVE IInv'
  <2>1. t \in Threads
    BY DEF IInv, TypeOK
  <2>2. pc[t] # "aborted"
    BY <1>3 DEF Call, Step, Fork, enter_read, exit_read, enter_write, try_enter_write, CallForWrite,
         exit_write, RecursiveWriteStore, MonitorEnter, MonitorReacquire, InBody, EnterReadBody,
         ExitReadBody, EnterWriteBody, ExitWriteBody, MonitorExit
  <2>3. TypeOK /\ RunningInv
    BY <2>1, <2>2 DEF IInv, CrashedInv
  <2>4. CASE Call(t)
    BY <2>1, <2>3, <2>4, enter_readStep, exit_readStep, CallForWriteStep, exit_writeStep
       DEF Call, enter_write, try_enter_write
  <2>5. CASE Step(t)
    BY <2>1, <2>3, <2>5, RecursiveWriteStoreStep, MonitorEnterStep, MonitorReacquireStep,
       EnterReadBodyStep, ExitReadBodyStep, EnterWriteBodyStep, ExitWriteBodyStep, MonitorExitStep
       DEF Step
  <2>6. CASE Fork(t)
    BY <2>1, <2>3, <2>6, ForkStep
  <2> QED BY <1>3, <2>4, <2>5, <2>6
<1> QED BY <1>1, <1>2, <1>3 DEF Next

-----------------------------------------------------------------------------
(* The theorems. *)

THEOREM Invariance == Spec => []IInv
BY InitIInv, NextIInv, PTL DEF Spec

\* Every variable keeps its type: in particular no thread's entries exceed
\* the depth its caller is allowed, through every call, failed try and fork.
THEOREM TypeCorrect == Spec => []TypeOK
<1>1. IInv => TypeOK
  BY DEF IInv
<1> QED BY <1>1, Invariance, PTL

\* A writer excludes every other thread, and is_writelocked sees it.
THEOREM Exclusion == Spec => []WriterExcludesAll
<1>1. IInv => WriterExcludesAll
  <2> SUFFICES ASSUME IInv, NEW t \in Threads, writes[t] > 0
               PROVE  /\ \A u \in Threads \ {t} : reads[u] = 0 /\ nested[u] = 0 /\ writes[u] = 0
                      /\ is_writelocked
    BY DEF WriterExcludesAll
  <2>1. TypeOK /\ RunningInv
    BY DEF IInv, CrashedInv
  <2>2. writer = t
    BY <2>1 DEF RunningInv, WriterInv, WriteDepth, TypeOK
  <2>3. is_writelocked
    BY <2>2, ThreadsAssumption DEF is_writelocked
  <2>4. ASSUME NEW u \in Threads \ {t} PROVE reads[u] = 0 /\ writes[u] = 0
    BY <2>1, <2>2, ThreadsAssumption
       DEF RunningInv, WriterInv, WriteDepth, ReadDepth, ReadEntered, TypeOK
  <2>5. ASSUME NEW u \in Threads \ {t} PROVE nested[u] = 0
    BY <2>1, <2>4 DEF RunningInv, CallInv, TypeOK
  <2> QED BY <2>3, <2>4, <2>5
<1> QED BY <1>1, Invariance, PTL

\* status is exactly the number of entries there are.
THEOREM Accounting == Spec => []StatusAccountsForEntries
<1>1. IInv => StatusAccountsForEntries
  BY DEF IInv, RunningInv, CrashedInv, Crashed, StatusAccountsForEntries, WriterInv, StatusInv
<1> QED BY <1>1, Invariance, PTL

\* Notifying one thread in exit_read loses no wakeup.
THEOREM Wakeup == Spec => []NoLostWakeup
<1>1. IInv => NoLostWakeup
  BY DEF IInv, RunningInv, CrashedInv, NoLostWakeup, syncMon!Waiters
<1> QED BY <1>1, Invariance, PTL
\* A step of the mutex is, for its callers, a step of the abstract lock or no
\* step at all.  The step that returns an entry is the abstract acquisition,
\* the call of an exit is the abstract release.
LEMMA StepRefines ==
    ASSUME IInv, [Next]_vars
    PROVE  [RWL!Next]_(RWL!lockVars)
<1> USE DEF RWL!lockVars
<1>1. CASE UNCHANGED vars \/ Aborted
  BY <1>1 DEF Aborted, vars, callerVars
<1>2. ASSUME NEW t \in alive, Call(t) \/ Step(t) \/ Fork(t)
      PROVE  UNCHANGED callerVars \/ RWL!Next
  <2> USE DEF callerVars
  <2>1. t \in Threads
    BY DEF IInv, TypeOK
  <2>2. pc[t] # "aborted"
    BY <1>2 DEF Call, Step, Fork, enter_read, exit_read, enter_write, try_enter_write, CallForWrite,
         exit_write, RecursiveWriteStore, MonitorEnter, MonitorReacquire, InBody, EnterReadBody,
         ExitReadBody, EnterWriteBody, ExitWriteBody, MonitorExit
  <2>3. TypeOK /\ RunningInv
    BY <2>1, <2>2 DEF IInv, CrashedInv
  <2>4. WriteDepth(t) > 0 => RWL!OnlyHolderIs(t) /\ reads[t] = 0
    BY <2>1, <2>3, ThreadsAssumption
       DEF RunningInv, WriterInv, CallInv, WriteDepth, ReadDepth, ReadEntered, TypeOK, RWL!OnlyHolderIs
  <2>5. ReadDepth[t] > 0 => RWL!OnlyWriterIs(t) /\ writes[t] = 0
    BY <2>1, <2>3, ThreadsAssumption
       DEF RunningInv, WriterInv, WriteDepth, TypeOK, RWL!OnlyWriterIs
  <2>6. CASE enter_read(t)
    <3>1. CASE writer = t
      <4>1. writes[t] > 0
        BY <2>1, <2>3, <2>6, <3>1 DEF enter_read, SelfIsWriter, RunningInv, WriterInv, WriteDepth, WriteEntered, TypeOK
      <4>2. RWL!AcquireRead(t)
        BY <2>1, <2>3, <2>4, <2>6, <3>1, <4>1
           DEF enter_read, SelfIsWriter, RWL!AcquireRead, RWL!OnlyWriterIs, RWL!OnlyHolderIs, WriteDepth, TypeOK
      <4> QED BY <2>1, <4>2 DEF RWL!Next
    <3>2. CASE writer # t
      BY <2>6, <3>2 DEF enter_read, SelfIsWriter
    <3> QED BY <3>1, <3>2
  <2>7. CASE exit_read(t)
    <3>1. RWL!ReleaseRead(t)
      BY <2>1, <2>3, <2>7 DEF exit_read, RWL!ReleaseRead, RunningInv, CallInv, TypeOK
    <3> QED BY <2>1, <3>1 DEF RWL!Next
  <2>8. CASE enter_write(t) \/ try_enter_write(t)
    BY <2>8 DEF enter_write, try_enter_write, CallForWrite, SelfIsWriter
  <2>9. CASE exit_write(t)
    <3>1. RWL!ReleaseWrite(t)
      BY <2>9 DEF exit_write, RWL!ReleaseWrite
    <3> QED BY <2>1, <3>1 DEF RWL!Next
  <2>10. CASE RecursiveWriteStore(t)
    <3>1. WriteDepth(t) > 0
      BY <2>1, <2>3, <2>10 DEF RecursiveWriteStore, RunningInv, CallInv, WriterInv
    <3>2. RWL!AcquireWrite(t)
      BY <2>4, <2>10, <3>1 DEF RecursiveWriteStore, RWL!AcquireWrite
    <3> QED BY <2>1, <3>2 DEF RWL!Next
  <2>11. CASE MonitorEnter(t) \/ MonitorReacquire(t) \/ EnterReadBody(t) \/ ExitReadBody(t)
              \/ EnterWriteBody(t) \/ ExitWriteBody(t)
    BY <2>11 DEF MonitorEnter, MonitorReacquire, EnterReadBody, ExitReadBody, EnterWriteBody, ExitWriteBody
  <2>12. CASE MonitorExit(t)
    <3>1. CASE op[t] = "enter_read"
      <4>1. ReadDepth[t] > 0
        BY <2>1, <2>3, <2>12, <3>1 DEF MonitorExit, RunningInv, CallInv, ReadDepth, ReadEntered, TypeOK
      <4>2. RWL!AcquireRead(t)
        BY <2>5, <2>12, <3>1, <4>1 DEF MonitorExit, RWL!AcquireRead
      <4> QED BY <2>1, <4>2 DEF RWL!Next
    <3>2. CASE pc[t] = "leave" /\ op[t] \in {"enter_write", "try_enter_write"}
      <4>1. WriteDepth(t) > 0
        BY <2>1, <2>3, <3>2 DEF WriteDepth, WriteEntered, TypeOK
      <4>2. RWL!AcquireWrite(t)
        BY <2>4, <2>12, <3>2, <4>1 DEF MonitorExit, RWL!AcquireWrite
      <4> QED BY <2>1, <4>2 DEF RWL!Next
    <3> QED BY <2>12, <3>1, <3>2 DEF MonitorExit
  <2>13. CASE Fork(t)
    <3>1. RWL!Fork(t)
      BY <2>13 DEF Fork, RWL!Fork
    <3> QED BY <2>1, <3>1 DEF RWL!Next
  <2> QED BY <1>2, <2>6, <2>7, <2>8, <2>9, <2>10, <2>11, <2>12, <2>13 DEF Call, Step
<1> QED BY <1>1, <1>2 DEF Next, callerVars

\* The callers of omrthread_rwmutex_* see a re-entrant read/write lock.
THEOREM Refinement == Spec => ImplementsRWLock
<1>1. Init => RWL!Init
  BY DEF Init, RWL!Init
<1>2. IInv /\ [Next]_vars => [RWL!Next]_(RWL!lockVars)
  BY StepRefines
<1> QED BY <1>1, <1>2, Invariance, PTL DEF Spec, RWL!Spec, ImplementsRWLock
=============================================================================

------------------------- MODULE ParallelTaskProofs -------------------------
(***************************************************************************)
(* Proofs about ParallelTask, for any number of GC threads, any program of *)
(* loops and synchronisation points and any number of work units: a        *)
(* synchronisation point holds everybody back, a released thread is alone, *)
(* the master leaves last, the code's assertions hold, and every work unit *)
(* is handled exactly once.                                                *)
(*                                                                         *)
(* The inductive invariant IInv says where a thread stands with respect to *)
(* a synchronisation point that has been opened: Beyond it, although it    *)
(* may still be in the wait loop.  All threads are beyond the same points  *)
(* (Together); _synchronizeCount counts those that have come to the next   *)
(* one; and a thread's own count of the units it has seen is fixed by its  *)
(* place in the program (SeenInv), which makes the shared-out unit numbers *)
(* mean the same unit to everybody (ClaimInv, LoopUnits).                  *)
(***************************************************************************)
EXTENDS ParallelTask, FiniteSetTheorems, TLAPS

Several == totalThreadCount > 1
Points == {"sync", "master", "single"}

\* The barrier the thread is at has been opened: it is on its way out.
Opened(t) ==
    /\ at[t] # Complete
    /\ pc[t] = "leave" \/ (pc[t] = "loop" /\ index[t] # synchronizeIndex)
Beyond(t, i) == at[t] > i \/ (at[t] = i /\ Opened(t))

\* A thread that has come to a point which is not open yet, and one that is in
\* complete() and has counted itself out.
Held(t) == at[t] # Complete /\ pc[t] = "loop" /\ index[t] = synchronizeIndex
Completed(t) == at[t] = Complete /\ pc[t] \in {"loop", "leave", "done"}
Counted(t) == Several /\ (Held(t) \/ Released(t) \/ Completed(t))
Arrived == {t \in team : Counted(t)}
Remaining == {t \in team : ~Completed(t)}

HasMutex(t) ==
    \/ pc[t] \in {"in", "leave", "leaveReleased", "releaseIn"}
    \/ pc[t] = "loop" /\ waitState[t] = "none"

-----------------------------------------------------------------------------
(* The inductive invariant. *)

PlaceOf(t) ==
    /\ t \notin team => pc[t] = "run"
    /\ ~Several /\ t \in team => pc[t] \in {"run", "section", "release", "done"}
    /\ pc[t] \notin {"run", "done"} => Kind(t) # "work"
    /\ pc[t] = "done" => at[t] = Complete
    /\ Released(t) => Kind(t) \in {"master", "single"} /\ (Kind(t) = "master" => t = Master)
    /\ pc[t] = "loop" /\ at[t] = Complete => t = Master
    /\ Kind(t) # "work" /\ pc[t] # "section" => unit[t] = 0
    /\ pc[t] \in {"want", "in"} /\ Kind(t) \in {"master", "single"} => index[t] = synchronizeIndex
PlaceInv == \A t \in Threads : PlaceOf(t)

MutexOf(t) ==
    /\ owner = t <=> HasMutex(t)
    /\ waitState[t] # "none" => pc[t] = "loop" /\ saved[t] = 1
MutexInv ==
    /\ count = IF owner = NoThread THEN 0 ELSE 1
    /\ \A t \in Threads : MutexOf(t)

\* All threads are beyond the same synchronisation points.
Together ==
    \A t, u \in team, i \in Steps : IsBarrier(i) /\ Beyond(t, i) => Beyond(u, i)

OthersHeld(t) == \A u \in team \ {t} : Held(u) /\ at[u] = at[t]
HeldInv == Several => \A t \in team : Released(t) => OthersHeld(t)

CountInv == synchronizeCount = Cardinality(Arrived) /\ threadCount = Cardinality(Remaining)

PointInv ==
    \A t \in team : Counted(t) =>
        /\ syncPointUniqueId = at[t]
        /\ at[t] # Complete => syncPointWorkUnitIndex = env[t].workUnitIndex

FlagInv == synchronized <=> \E t \in team : pc[t] \in {"section", "release"}

EndInv ==
    at[Master] = Complete /\ pc[Master] \in {"leave", "done"} =>
        \A t \in team \ {Master} : pc[t] = "done"

SyncInv == Together /\ HeldInv /\ CountInv /\ PointInv

\* The work units of the loops before step i, and the number of a unit of a loop.
LoopsBefore(i) == {j \in Steps : j < i /\ Program[j] = "work"}
UnitsBefore(i) == Units * Cardinality(LoopsBefore(i))
Number(i, k) == 1 + UnitsBefore(i) + k

\* What a thread has counted is fixed by where it is.
SeenInv ==
    Several => \A t \in team :
        env[t].workUnitIndex = Number(at[t], IF Kind(t) = "work" THEN unit[t] ELSE 0)

\* The numbers up to workUnitIndex have been given out, each to one thread, and no
\* thread has got ahead of them.
Pending(t) == env[t].workUnitIndex <= env[t].workUnitToHandle
ClaimInv ==
    Several => \A t \in team :
        /\ env[t].workUnitIndex <= workUnitIndex + 1
        /\ env[t].workUnitToHandle <= workUnitIndex
        /\ \A u \in team \ {t} :
              Pending(t) /\ Pending(u) => env[t].workUnitToHandle # env[u].workUnitToHandle

IsPending(n) == \E t \in team : Pending(t) /\ env[t].workUnitToHandle = n
LoopDone(i, k) ==
    IF Several THEN Number(i, k) <= workUnitIndex /\ ~IsPending(Number(i, k))
               ELSE at[Master] > i \/ (at[Master] = i /\ k < unit[Master])
InSection(t, i, k) ==
    /\ at[t] = i
    /\ pc[t] \in {"release", "releaseWant", "releaseIn"} \/ (pc[t] = "section" /\ k < unit[t])
SectionDone(i, k) == \E t \in team : Beyond(t, i) \/ InSection(t, i, k)

LoopUnits ==
    \A i \in Steps, k \in 0..(Units - 1) :
        Program[i] = "work" => handled[i][k] = IF LoopDone(i, k) THEN 1 ELSE 0
SectionUnits ==
    \A i \in Steps, k \in 0..(Units - 1) :
        /\ Program[i] \in {"master", "single"} => handled[i][k] = IF SectionDone(i, k) THEN 1 ELSE 0
        /\ Program[i] = "sync" => handled[i][k] = 0

WorkInv == SeenInv /\ ClaimInv /\ LoopUnits /\ SectionUnits
IInv == TypeOK /\ PlaceInv /\ MutexInv /\ SyncInv /\ FlagInv /\ EndInv /\ WorkInv

-----------------------------------------------------------------------------
(* The program and the team. *)

LEMMA ProgramFacts ==
    /\ Complete \in Nat /\ Complete >= 1
    /\ Steps = 1..(Complete - 1)
    /\ \A i \in Steps : Program[i] \in Kinds
    /\ \A i \in Steps : i + 1 \in 1..Complete /\ i # Complete
  BY ProgramAssumption DEF Complete, Steps

LEMMA StepKind ==
    ASSUME TypeOK, NEW t \in Threads
    PROVE  /\ at[t] \in 1..Complete
           /\ at[t] = Complete <=> Kind(t) = "complete"
           /\ at[t] # Complete => at[t] \in Steps /\ Kind(t) = Program[at[t]]
           /\ Kind(t) \in Kinds \cup {"complete"}
<1>1. at[t] \in 1..Complete BY DEF TypeOK
<1> QED BY <1>1, ProgramFacts DEF Kind, Kinds

LEMMA TeamFacts ==
    ASSUME TypeOK
    PROVE  /\ team \subseteq Threads /\ Master \in team
           /\ IsFiniteSet(team) /\ totalThreadCount \in Nat /\ totalThreadCount >= 1
           /\ ~Several => team = {Master}
           /\ totalThreadCount = 1 <=> ~Several
<1>1. team \subseteq Threads /\ Master \in team BY DEF TypeOK
<1>2. IsFiniteSet(team) BY <1>1, FS_Subset, ThreadsAssumption
<1>3. totalThreadCount \in Nat BY <1>2, FS_CardinalityType DEF totalThreadCount
<1>4. totalThreadCount # 0 BY <1>1, <1>2, FS_EmptySet DEF totalThreadCount
<1>5. totalThreadCount = 1 => team = {Master}
  BY <1>1, <1>2, FS_Singleton DEF totalThreadCount
<1> QED BY <1>1, <1>2, <1>3, <1>4, <1>5 DEF Several

\* The sets that are counted.
LEMMA CountFacts ==
    ASSUME TypeOK
    PROVE  /\ IsFiniteSet(Arrived) /\ Cardinality(Arrived) \in 0..totalThreadCount
           /\ IsFiniteSet(Remaining) /\ Cardinality(Remaining) \in 0..totalThreadCount
           /\ Cardinality(Arrived) = totalThreadCount <=> Arrived = team
           /\ Cardinality(Remaining) = totalThreadCount <=> Remaining = team
           /\ Cardinality(Remaining) = 0 <=> Remaining = {}
<1>1. Arrived \subseteq team /\ Remaining \subseteq team BY DEF Arrived, Remaining
<1> HIDE DEF Arrived, Remaining
<1>2. /\ IsFiniteSet(Arrived) /\ Cardinality(Arrived) <= totalThreadCount
      /\ Cardinality(Arrived) = totalThreadCount => Arrived = team
  BY <1>1, TeamFacts, FS_Subset DEF totalThreadCount
<1>3. /\ IsFiniteSet(Remaining) /\ Cardinality(Remaining) <= totalThreadCount
      /\ Cardinality(Remaining) = totalThreadCount => Remaining = team
  BY <1>1, TeamFacts, FS_Subset DEF totalThreadCount
<1>4. Cardinality(Arrived) \in Nat /\ Cardinality(Remaining) \in Nat
  BY <1>2, <1>3, FS_CardinalityType
<1>5. Cardinality(Remaining) = 0 <=> Remaining = {} BY <1>3, FS_EmptySet
<1> QED BY <1>2, <1>3, <1>4, <1>5, TeamFacts DEF totalThreadCount

-----------------------------------------------------------------------------
(* The numbers of the work units. *)

LEMMA UnitsNext ==
    ASSUME NEW i \in Steps
    PROVE  /\ UnitsBefore(i) \in Nat /\ UnitsBefore(i + 1) \in Nat
           /\ UnitsBefore(i + 1) = IF Program[i] = "work" THEN UnitsBefore(i) + Units ELSE UnitsBefore(i)
<1>1. IsFiniteSet(Steps)
  BY ProgramAssumption, FS_Interval DEF Steps
<1>2. IsFiniteSet(LoopsBefore(i)) /\ IsFiniteSet(LoopsBefore(i + 1))
  BY <1>1, FS_Subset DEF LoopsBefore
<1>3. Cardinality(LoopsBefore(i)) \in Nat /\ Cardinality(LoopsBefore(i + 1)) \in Nat
  BY <1>2, FS_CardinalityType
<1>4. i \notin LoopsBefore(i) BY ProgramFacts DEF LoopsBefore
<1>5. LoopsBefore(i + 1) = IF Program[i] = "work" THEN LoopsBefore(i) \cup {i} ELSE LoopsBefore(i)
  BY ProgramFacts DEF LoopsBefore
<1>6. Cardinality(LoopsBefore(i + 1)) =
          IF Program[i] = "work" THEN Cardinality(LoopsBefore(i)) + 1 ELSE Cardinality(LoopsBefore(i))
  BY <1>2, <1>4, <1>5, FS_AddElement
<1>7. \A n \in Nat : Units * n \in Nat /\ Units * (n + 1) = Units * n + Units
  BY ProgramAssumption
<1> QED BY <1>3, <1>6, <1>7 DEF UnitsBefore

LEMMA UnitsMonotone ==
    ASSUME NEW i \in Steps, NEW j \in 1..Complete, i < j
    PROVE  /\ UnitsBefore(i) \in Nat /\ UnitsBefore(j) \in Nat
           /\ UnitsBefore(j) >= UnitsBefore(i + 1)
<1>1. IsFiniteSet(LoopsBefore(j)) /\ LoopsBefore(i + 1) \subseteq LoopsBefore(j)
  <2>1. IsFiniteSet(Steps) BY ProgramAssumption, FS_Interval DEF Steps
  <2> QED BY <2>1, ProgramFacts, FS_Subset DEF LoopsBefore
<1>2. /\ Cardinality(LoopsBefore(j)) \in Nat /\ Cardinality(LoopsBefore(i + 1)) \in Nat
      /\ Cardinality(LoopsBefore(i + 1)) <= Cardinality(LoopsBefore(j))
  BY <1>1, FS_Subset, FS_CardinalityType
<1>3. \A m, n \in Nat : m <= n => Units * n \in Nat /\ Units * m <= Units * n
  BY ProgramAssumption
<1> QED BY <1>2, <1>3, UnitsNext DEF UnitsBefore

LEMMA UnitsGrow ==
    ASSUME NEW i \in Steps, NEW j \in 1..Complete, i < j, Program[i] = "work"
    PROVE  /\ UnitsBefore(i) \in Nat /\ UnitsBefore(j) \in Nat
           /\ UnitsBefore(j) >= UnitsBefore(i) + Units
<1>1. UnitsBefore(j) \in Nat /\ UnitsBefore(j) >= UnitsBefore(i + 1) BY UnitsMonotone
<1>2. UnitsBefore(i) \in Nat /\ UnitsBefore(i + 1) = UnitsBefore(i) + Units BY UnitsNext
<1> QED BY <1>1, <1>2

\* A number stands for one unit of one loop.
LEMMA NumbersDiffer ==
    ASSUME NEW i \in Steps, NEW j \in Steps, Program[i] = "work", Program[j] = "work",
           NEW k \in 0..(Units - 1), NEW l \in 0..(Units - 1), Number(i, k) = Number(j, l)
    PROVE  i = j /\ k = l
<1>0. i \in 1..Complete /\ j \in 1..Complete BY ProgramFacts
<1>1. UnitsBefore(i) \in Nat /\ UnitsBefore(j) \in Nat BY UnitsNext
<1>2. i < j => UnitsBefore(j) >= UnitsBefore(i) + Units BY <1>0, UnitsGrow
<1>3. j < i => UnitsBefore(i) >= UnitsBefore(j) + Units BY <1>0, UnitsGrow
<1>4. i = j BY <1>0, <1>1, <1>2, <1>3, ProgramAssumption DEF Number
<1> QED BY <1>1, <1>4, ProgramAssumption DEF Number

-----------------------------------------------------------------------------
(* Steps that leave the synchronisation point as it is. *)

\* What the other threads know of u does not change.
QuietFor(u) ==
    /\ Held(u)' <=> Held(u)
    /\ Released(u)' <=> Released(u)
    /\ Completed(u)' <=> Completed(u)
    /\ Counted(u) => at'[u] = at[u]
    /\ \A i \in Steps : IsBarrier(i) => (Beyond(u, i)' <=> Beyond(u, i))

\* Only t moves.
Alone(t) ==
    /\ team' = team /\ synchronizeIndex' = synchronizeIndex
    /\ \A u \in Threads \ {t} :
          pc'[u] = pc[u] /\ at'[u] = at[u] /\ index'[u] = index[u] /\ unit'[u] = unit[u]

LEMMA OtherQuiet ==
    ASSUME NEW t, NEW u \in Threads, Alone(t), u # t
    PROVE  QuietFor(u)
  BY DEF Alone, QuietFor, Held, Released, Completed, Beyond, Opened

LEMMA QuietSync ==
    ASSUME TypeOK, SyncInv, team' = team, UNCHANGED <<pointVars, synchronizeCount, threadCount>>,
           \A u \in team : QuietFor(u) /\ (Counted(u) => env'[u] = env[u])
    PROVE  SyncInv'
<1> USE DEF pointVars
<1>1. Several' <=> Several BY DEF Several, totalThreadCount
<1>2. \A u \in team : Counted(u)' <=> Counted(u) BY <1>1 DEF Counted, QuietFor
<1>3. Arrived' = Arrived /\ Remaining' = Remaining
  BY <1>2 DEF Arrived, Remaining, QuietFor
<1>4. Together' BY DEF SyncInv, Together, QuietFor
<1>5. HeldInv'
  <2> SUFFICES ASSUME Several, NEW t \in team, Released(t), NEW u \in team \ {t}
               PROVE  Held(u)' /\ at'[u] = at'[t]
    BY <1>1 DEF HeldInv, OthersHeld, QuietFor
  <2>1. Held(u) /\ at[u] = at[t] BY DEF SyncInv, HeldInv, OthersHeld
  <2>2. Counted(u) /\ Counted(t) BY <2>1 DEF Counted
  <2> QED BY <2>1, <2>2 DEF QuietFor
<1>6. CountInv' BY <1>3 DEF SyncInv, CountInv
<1>7. PointInv' BY <1>2 DEF SyncInv, PointInv, QuietFor
<1> QED BY <1>4, <1>5, <1>6, <1>7 DEF SyncInv

-----------------------------------------------------------------------------
(* Steps at the synchronisation point. *)

\* A thread that comes to a point finds only threads that are held there, or, in
\* complete(), that are through with the task.
LEMMA Arriving ==
    ASSUME TypeOK, PlaceInv, SyncInv, Several, NEW t \in team, pc[t] = "in"
    PROVE  /\ ~Counted(t) /\ t \in Remaining
           /\ \A u \in team : Counted(u) => at[u] = at[t]
           /\ at[t] # Complete => /\ at[t] \in Steps /\ IsBarrier(at[t])
                                  /\ Remaining = team /\ Arrived \subseteq {u \in team : Held(u)}
           /\ at[t] = Complete => \A u \in team : Counted(u) => Completed(u)
<1>1. ~Counted(t) /\ ~Completed(t) /\ ~Opened(t)
  BY DEF Counted, Held, Released, Completed, Opened
<1>2. \A u \in team : Counted(u) => ~Opened(u)
  BY DEF Counted, Held, Released, Completed, Opened
<1>3. \A u \in team : u \in Threads BY TeamFacts
<1>4. \A u \in team : Counted(u) /\ at[u] # Complete => at[u] \in Steps /\ IsBarrier(at[u])
  BY <1>3, StepKind DEF PlaceInv, PlaceOf, Counted, Held, Released, Completed, IsBarrier
<1>5. at[t] # Complete => at[t] \in Steps /\ IsBarrier(at[t])
  BY <1>3, StepKind DEF PlaceInv, PlaceOf, IsBarrier
<1>6. ASSUME NEW u \in team, Counted(u) PROVE at[u] = at[t]
  <2>1. at[u] \in 1..Complete /\ at[t] \in 1..Complete BY <1>3, StepKind
  <2>2. at[u] < at[t] => Beyond(t, at[u]) /\ ~Beyond(u, at[u])
    BY <1>2, <1>6, <2>1, ProgramFacts DEF Beyond
  <2>3. at[t] < at[u] => Beyond(u, at[t]) /\ ~Beyond(t, at[t])
    BY <1>1, <2>1, ProgramFacts DEF Beyond
  <2>4. ~(at[u] < at[t]) BY <1>4, <1>6, <2>1, <2>2, ProgramFacts DEF SyncInv, Together
  <2>5. ~(at[t] < at[u]) BY <1>5, <2>1, <2>3, ProgramFacts DEF SyncInv, Together
  <2> QED BY <2>1, <2>4, <2>5, ProgramFacts
<1>7. \A u \in team : ~Released(u)
  BY <1>1 DEF SyncInv, HeldInv, OthersHeld, Counted, Released
<1>8. \A u \in team : Completed(u) => at[t] = Complete
  BY <1>6 DEF Completed, Counted
<1>9. \A u \in team : Held(u) => at[t] # Complete
  BY <1>6 DEF Held, Counted
<1> QED BY <1>1, <1>5, <1>6, <1>7, <1>8, <1>9 DEF Arrived, Remaining, Counted

\* The last one to come to a point finds all others held there.
LEMMA LastOne ==
    ASSUME TypeOK, PlaceInv, SyncInv, Several, NEW t \in team, pc[t] = "in", at[t] # Complete, LastArrives
    PROVE  OthersHeld(t)
<1>1. Remaining = team /\ t \notin Arrived /\ Arrived \subseteq team
  BY Arriving DEF Arrived
<1>2. threadCount = totalThreadCount BY <1>1, CountFacts DEF SyncInv, CountInv
<1>3. Cardinality(Arrived \cup {t}) = totalThreadCount
  BY <1>1, <1>2, CountFacts, FS_AddElement DEF SyncInv, CountInv, LastArrives
<1>4. Arrived \cup {t} = team
  <2>1. Arrived \cup {t} \subseteq team BY <1>1
  <2> QED BY <1>3, <2>1, TeamFacts, FS_Subset DEF totalThreadCount
<1> QED BY <1>4, Arriving DEF OthersHeld, Arrived

\* A thread is counted in at a point that stays closed, or in complete().
LEMMA JoinSync ==
    ASSUME TypeOK, PlaceInv, SyncInv, Several, NEW t \in team, pc[t] = "in",
           Arrive(t), RecordPoint(t), synchronizeCount' = synchronizeCount + 1,
           Alone(t), at' = at, env' = env, Counted(t)',
           at[t] # Complete => threadCount' = threadCount,
           at[t] = Complete => threadCount' = threadCount - 1,
           Released(t)' => at[t] # Complete /\ LastArrives
    PROVE  SyncInv'
<1>0. team \subseteq Threads BY TeamFacts
<1>1. Several' /\ team' = team BY DEF Several, totalThreadCount, Alone
<1>2. \A u \in team \ {t} : QuietFor(u) BY <1>0, OtherQuiet
<1>3. \A u \in team \ {t} : Counted(u)' <=> Counted(u) BY <1>1, <1>2 DEF Counted, QuietFor
<1>4. Arrived' = Arrived \cup {t} /\ t \notin Arrived
  BY <1>1, <1>3, Arriving DEF Arrived
<1>5. at[t] = Complete => Completed(t)'
  BY <1>0, StepKind, Zenon DEF Counted, Held, Completed
<1>6. at[t] # Complete => ~Completed(t)' BY DEF Completed
<1>7. Remaining' = IF at[t] = Complete THEN Remaining \ {t} ELSE Remaining
  BY <1>1, <1>2, <1>5, <1>6, Arriving DEF Remaining, QuietFor
<1>8. CountInv'
  <2>1. Cardinality(Arrived') = Cardinality(Arrived) + 1
    BY <1>4, CountFacts, FS_AddElement
  <2>2. Cardinality(Remaining') = IF at[t] = Complete THEN Cardinality(Remaining) - 1
                                                      ELSE Cardinality(Remaining)
    BY <1>7, Arriving, CountFacts, FS_RemoveElement
  <2> QED BY <2>1, <2>2 DEF SyncInv, CountInv
<1>9. \A i \in Steps : Beyond(t, i)' <=> Beyond(t, i)
  <2>1. ~Opened(t) BY DEF Opened
  <2>2. ~Opened(t)' BY DEF Opened, Counted, Held, Released, Completed
  <2> QED BY <2>1, <2>2 DEF Beyond
<1>10. Together' BY <1>1, <1>2, <1>9 DEF SyncInv, Together, QuietFor
<1>11. HeldInv'
  <2>1. \A u \in team : ~Released(u)
    BY DEF SyncInv, HeldInv, OthersHeld, Released, Held
  <2>2. SUFFICES ASSUME Released(t)', NEW u \in team \ {t}
                 PROVE  Held(u)' /\ at'[u] = at'[t]
    BY <1>1, <1>2, <2>1 DEF HeldInv, OthersHeld, QuietFor
  <2>3. OthersHeld(t) BY <2>2, LastOne
  <2> QED BY <1>2, <2>2, <2>3 DEF OthersHeld, QuietFor
<1>12. PointInv'
  <2> SUFFICES ASSUME NEW u \in team, Counted(u)'
               PROVE  /\ syncPointUniqueId' = at[u]
                      /\ at[u] # Complete => syncPointWorkUnitIndex' = env[u].workUnitIndex
    BY <1>1 DEF PointInv
  <2>1. CASE FirstAtPoint
    <3>1. Arrived = {}
      BY <2>1, CountFacts, FS_EmptySet DEF SyncInv, CountInv, FirstAtPoint
    <3>2. u = t BY <1>3, <3>1 DEF Arrived
    <3> QED BY <2>1, <3>2 DEF RecordPoint
  <2>2. CASE ~FirstAtPoint
    <3>1. UNCHANGED pointVars BY <2>2 DEF RecordPoint
    <3>2. u = t => SamePoint(t) BY <2>2 DEF Arrive
    <3>3. u # t => Counted(u) BY <1>3
    <3>4. Kind(t) = "complete" <=> at[t] = Complete BY <1>0, StepKind
    <3> QED BY <3>1, <3>2, <3>3, <3>4 DEF SyncInv, PointInv, SamePoint, pointVars
  <2> QED BY <2>1, <2>2
<1> QED BY <1>8, <1>10, <1>11, <1>12 DEF SyncInv

\* A thread that has all others held opens the point for everybody.
LEMMA OpenSync ==
    ASSUME TypeOK, SyncInv, Several, NEW t \in team, at[t] # Complete, OthersHeld(t),
           ~Completed(t), ~Opened(t), pc' = [pc EXCEPT ![t] = "leave"],
           UNCHANGED <<team, at, index, threadCount>>,
           synchronizeCount' = 0, synchronizeIndex' = synchronizeIndex + 1
    PROVE  /\ SyncInv'
           /\ \A u \in team : Opened(u)' /\ at[u] = at[t] /\ ~Opened(u)
<1>0. team \subseteq Threads BY TeamFacts
<1>1. Several' BY DEF Several, totalThreadCount
<1>2. \A u \in team : at[u] = at[t] BY DEF OthersHeld
<1>3. synchronizeIndex' # synchronizeIndex BY DEF TypeOK
<1>4. \A u \in team \ {t} : pc'[u] = "loop" /\ Held(u) /\ index'[u] # synchronizeIndex'
  BY <1>0, <1>3 DEF OthersHeld, Held, TypeOK
<1>5. pc'[t] = "leave" BY <1>0 DEF TypeOK
<1>6. \A u \in team : Opened(u)' BY <1>2, <1>4, <1>5 DEF Opened
<1>7. \A u \in team : ~Opened(u) BY <1>4 DEF Held, Opened
<1>8. \A u \in team : ~Held(u)' /\ ~Released(u)' /\ ~Completed(u)' /\ ~Completed(u)
  BY <1>2, <1>4, <1>5 DEF Held, Released, Completed
<1>9. \A u \in team : ~Counted(u)' BY <1>8 DEF Counted
<1>10. Together' BY <1>2, <1>6 DEF Together, Beyond
<1>11. HeldInv' BY <1>8 DEF HeldInv
<1>12. CountInv'
  <2>1. Arrived' = {} /\ Remaining' = Remaining BY <1>8, <1>9 DEF Arrived, Remaining
  <2>2. Cardinality({}) = 0 BY FS_EmptySet
  <2> QED BY <2>1, <2>2 DEF SyncInv, CountInv
<1>13. PointInv' BY <1>9 DEF PointInv
<1> QED BY <1>2, <1>6, <1>7, <1>10, <1>11, <1>12, <1>13 DEF SyncInv

\* A thread that is alone is not counted.
LEMMA AloneSync ==
    ASSUME TypeOK, SyncInv, ~Several, team' = team, synchronizeCount' = synchronizeCount,
           threadCount' = Cardinality(Remaining')
    PROVE  SyncInv'
<1>1. ~Several' BY DEF Several, totalThreadCount
<1>2. team = {Master} BY TeamFacts
<1>3. Arrived = {} /\ Arrived' = {} BY <1>1 DEF Arrived, Counted
<1> QED BY <1>1, <1>2, <1>3 DEF SyncInv, Together, HeldInv, CountInv, PointInv, Counted

-----------------------------------------------------------------------------
(* Steps that handle no work unit. *)

\* A thread stays, or goes on from a step that is no loop.
StaysOrLeaves(u) ==
    \/ at'[u] = at[u]
    \/ at[u] \in Steps /\ Program[at[u]] # "work" /\ unit[u] = 0 /\ at'[u] = at[u] + 1

SectionsStay ==
    \A i \in Steps, k \in 0..(Units - 1) :
        Program[i] \in {"master", "single"} => (SectionDone(i, k)' <=> SectionDone(i, k))

LEMMA WorkStays ==
    ASSUME TypeOK, TypeOK', WorkInv, team' = team, UNCHANGED workVars, SectionsStay,
           \A u \in team : StaysOrLeaves(u)
    PROVE  WorkInv'
<1> USE DEF workVars
<1>0. team \subseteq Threads /\ Master \in team BY TeamFacts
<1>1. Several' <=> Several BY DEF Several, totalThreadCount
<1>2. SeenInv'
  <2> SUFFICES ASSUME Several, NEW u \in team
               PROVE  Number(at[u], IF Kind(u) = "work" THEN unit[u] ELSE 0) =
                      Number(at'[u], IF Kind(u)' = "work" THEN unit[u] ELSE 0)
    BY <1>1 DEF SeenInv, WorkInv
  <2>1. CASE at'[u] = at[u]
    BY <2>1 DEF Kind
  <2>2. CASE at[u] \in Steps /\ Program[at[u]] # "work" /\ unit[u] = 0 /\ at'[u] = at[u] + 1
    BY <2>2, UnitsNext, ProgramFacts DEF Number
  <2> QED BY <2>1, <2>2 DEF StaysOrLeaves
<1>3. ClaimInv' BY <1>1 DEF WorkInv, ClaimInv, Pending
<1>4. \A i \in Steps, k \in 0..(Units - 1) :
         Program[i] = "work" => (LoopDone(i, k)' <=> LoopDone(i, k))
  <2> SUFFICES ASSUME NEW i \in Steps, NEW k \in 0..(Units - 1), Program[i] = "work"
               PROVE  LoopDone(i, k)' <=> LoopDone(i, k)
    OBVIOUS
  <2>1. IsPending(Number(i, k))' <=> IsPending(Number(i, k)) BY DEF IsPending, Pending
  <2>2. at[Master] \in 1..Complete /\ unit[Master] \in 0..(Units - 1)
    BY <1>0 DEF TypeOK
  <2>3. (at'[Master] > i \/ (at'[Master] = i /\ k < unit[Master])) <=>
        (at[Master] > i \/ (at[Master] = i /\ k < unit[Master]))
    BY <1>0, <2>2, ProgramFacts DEF StaysOrLeaves
  <2> QED BY <1>1, <2>1, <2>3 DEF LoopDone
<1>5. LoopUnits' BY <1>4 DEF WorkInv, LoopUnits
<1>6. SectionUnits' BY DEF WorkInv, SectionUnits, SectionsStay
<1> QED BY <1>2, <1>3, <1>5, <1>6 DEF WorkInv

LEMMA SectionsOf ==
    ASSUME team' = team,
           \A u \in team, i \in Steps, k \in 0..(Units - 1) : Program[i] \in {"master", "single"} =>
               ((Beyond(u, i) \/ InSection(u, i, k))' <=> (Beyond(u, i) \/ InSection(u, i, k)))
    PROVE  SectionsStay
  BY DEF SectionsStay, SectionDone

\* Most steps change nothing that is known of a section.
LEMMA QuietSections ==
    ASSUME team' = team,
           \A u \in team : QuietFor(u),
           \A u \in team, i \in Steps, k \in 0..(Units - 1) :
               Program[i] \in {"master", "single"} => (InSection(u, i, k)' <=> InSection(u, i, k))
    PROVE  SectionsStay
  BY SectionsOf DEF QuietFor, IsBarrier

-----------------------------------------------------------------------------
(* The thread that does not move, and the operations of the mutex. *)

LEMMA OtherPlace ==
    ASSUME NEW t, NEW u \in Threads, Alone(t), u # t, PlaceOf(u)
    PROVE  PlaceOf(u)'
  BY DEF Alone, PlaceOf, Released, Kind, Several, totalThreadCount

OnlyGoes(t) == \A u \in Threads \ {t} : pc'[u] = pc[u]

LEMMA MutexStays ==
    ASSUME TypeOK, MutexInv, NEW t \in Threads, OnlyGoes(t), UNCHANGED mutexVars,
           HasMutex(t)' <=> HasMutex(t), pc[t] = "loop" => pc'[t] = "loop" \/ owner = t
    PROVE  MutexInv' /\ Mutex!TypeOK'
<1> USE DEF mutexVars
<1>1. \A u \in Threads \ {t} : MutexOf(u)'
  BY DEF MutexInv, MutexOf, HasMutex, OnlyGoes
<1>2. MutexOf(t)' BY DEF MutexInv, MutexOf, HasMutex
<1> QED BY <1>1, <1>2 DEF MutexInv, TypeOK, Mutex!TypeOK

LEMMA MutexEnters ==
    ASSUME TypeOK, MutexInv, NEW t \in Threads, OnlyGoes(t), Mutex!Enter(t),
           ~HasMutex(t), pc'[t] \in {"in", "releaseIn"}
    PROVE  MutexInv' /\ Mutex!TypeOK'
<1>1. owner = NoThread /\ owner' = t /\ count' = 1 /\ UNCHANGED <<waitState, saved>>
  BY DEF MutexInv, MutexOf, Mutex!Enter
<1>2. \A u \in Threads \ {t} : MutexOf(u)'
  BY <1>1, ThreadsAssumption DEF MutexInv, MutexOf, HasMutex, OnlyGoes
<1>3. MutexOf(t)' BY <1>1 DEF MutexInv, MutexOf, HasMutex, Mutex!Enter
<1> QED BY <1>1, <1>2, <1>3, ThreadsAssumption DEF MutexInv, TypeOK, Mutex!TypeOK

LEMMA MutexReacquires ==
    ASSUME TypeOK, MutexInv, NEW t \in Threads, pc' = pc, Mutex!Reacquire(t)
    PROVE  MutexInv' /\ Mutex!TypeOK'
<1>1. /\ owner = NoThread /\ owner' = t /\ count' = 1 /\ pc[t] = "loop" /\ waitState'[t] = "none"
      /\ \A u \in Threads \ {t} : waitState'[u] = waitState[u] /\ saved'[u] = saved[u]
  BY DEF MutexInv, MutexOf, Mutex!Reacquire, TypeOK, Mutex!TypeOK
<1>2. \A u \in Threads \ {t} : MutexOf(u)'
  BY <1>1, ThreadsAssumption DEF MutexInv, MutexOf, HasMutex
<1>3. MutexOf(t)' BY <1>1 DEF MutexOf, HasMutex
<1>4. Mutex!TypeOK' BY DEF TypeOK, Mutex!TypeOK, Mutex!Reacquire
<1> QED BY <1>1, <1>2, <1>3, <1>4, ThreadsAssumption DEF MutexInv

LEMMA MutexExits ==
    ASSUME TypeOK, MutexInv, NEW t \in Threads, OnlyGoes(t), Mutex!Exit(t),
           pc'[t] \in {"run", "done", "take"}
    PROVE  MutexInv' /\ Mutex!TypeOK'
<1>1. owner = t /\ owner' = NoThread /\ count' = 0 /\ UNCHANGED <<waitState, saved>>
  BY ThreadsAssumption DEF MutexInv, Mutex!Exit
<1>2. \A u \in Threads \ {t} : MutexOf(u)'
  BY <1>1, ThreadsAssumption DEF MutexInv, MutexOf, HasMutex, OnlyGoes
<1>3. waitState[t] = "none" BY <1>1 DEF MutexInv, MutexOf, HasMutex
<1>4. MutexOf(t)' BY <1>1, <1>3, ThreadsAssumption DEF MutexOf, HasMutex
<1> QED BY <1>1, <1>2, <1>4 DEF MutexInv, TypeOK, Mutex!TypeOK

LEMMA MutexWaits ==
    ASSUME TypeOK, MutexInv, NEW t \in Threads, OnlyGoes(t), Mutex!Wait(t), pc'[t] = "loop"
    PROVE  MutexInv' /\ Mutex!TypeOK'
<1>1. /\ owner = t /\ owner' = NoThread /\ count' = 0 /\ waitState'[t] = "waiting" /\ saved'[t] = 1
      /\ \A u \in Threads \ {t} : waitState'[u] = waitState[u] /\ saved'[u] = saved[u]
  BY ThreadsAssumption DEF MutexInv, Mutex!Wait, TypeOK, Mutex!TypeOK
<1>2. \A u \in Threads \ {t} : MutexOf(u)'
  BY <1>1, ThreadsAssumption DEF MutexInv, MutexOf, HasMutex, OnlyGoes
<1>3. MutexOf(t)' BY <1>1, ThreadsAssumption DEF MutexOf, HasMutex
<1>4. Mutex!TypeOK' BY DEF TypeOK, Mutex!TypeOK, Mutex!Wait
<1> QED BY <1>1, <1>2, <1>3, <1>4 DEF MutexInv

LEMMA MutexNotifies ==
    ASSUME TypeOK, MutexInv, NEW t \in Threads, OnlyGoes(t), Mutex!NotifyAll(t),
           pc'[t] \in {"leave", "loop"}
    PROVE  MutexInv' /\ Mutex!TypeOK'
<1>1. /\ owner = t /\ UNCHANGED <<owner, count, saved>>
      /\ \A u \in Threads : waitState'[u] = "none" <=> waitState[u] = "none"
  BY DEF Mutex!NotifyAll, Mutex!Waiters
<1>2. waitState[t] = "none" BY <1>1 DEF MutexInv, MutexOf, HasMutex
<1>3. \A u \in Threads \ {t} : MutexOf(u)'
  BY <1>1, ThreadsAssumption DEF MutexInv, MutexOf, HasMutex, OnlyGoes
<1>4. MutexOf(t)' BY <1>1, <1>2 DEF MutexOf, HasMutex
<1>5. Mutex!TypeOK'
  <2>1. \A u \in Threads : waitState[u] \in {"none", "waiting", "woken"}
    BY DEF TypeOK, Mutex!TypeOK
  <2>2. waitState' \in [Threads -> {"none", "waiting", "woken"}]
    BY <2>1 DEF Mutex!NotifyAll
  <2> QED BY <1>1, <2>2 DEF TypeOK, Mutex!TypeOK
<1> QED BY <1>1, <1>3, <1>4, <1>5 DEF MutexInv

-----------------------------------------------------------------------------
(* The steps, one by one. *)

LEMMA InitIInv == Init => IInv
<1> SUFFICES ASSUME Init PROVE IInv OBVIOUS
<1>0. team \subseteq Threads /\ Master \in team BY DEF Init
<1>1. IsFiniteSet(team) BY <1>0, FS_Subset, ThreadsAssumption
<1>2. totalThreadCount \in Nat BY <1>1, FS_CardinalityType DEF totalThreadCount
<1>3. TypeOK
  <2>1. synchronized \in BOOLEAN BY Zenon DEF Init
  <2>2. Mutex!TypeOK BY DEF Init, Mutex!Init, Mutex!TypeOK
  <2>3. pc \in [Threads -> Places] BY DEF Init, Places
  <2>4. threadCount \in 0..totalThreadCount /\ synchronizeCount \in 0..totalThreadCount
    BY <1>2 DEF Init
  <2>5. /\ at \in [Threads -> 1..Complete] /\ unit \in [Threads -> 0..(Units - 1)]
        /\ index \in [Threads -> Nat]
        /\ env \in [Threads -> [workUnitIndex : Nat, workUnitToHandle : Nat]]
        /\ handled \in [Steps -> [0..(Units - 1) -> Nat]]
    BY ProgramFacts, ProgramAssumption DEF Init
  <2> QED BY <1>0, <2>1, <2>2, <2>3, <2>4, <2>5, ProgramFacts DEF Init, TypeOK
<1>4. PlaceInv
  BY DEF Init, PlaceInv, PlaceOf, Released
<1>5. MutexInv BY ThreadsAssumption DEF Init, MutexInv, MutexOf, Mutex!Init, HasMutex
<1>6. SyncInv
  <2>1. \A t \in team : pc[t] = "run" /\ at[t] = 1 BY <1>0 DEF Init
  <2>2. \A t \in team : ~Held(t) /\ ~Released(t) /\ ~Completed(t) /\ ~Opened(t)
    BY <2>1 DEF Held, Released, Completed, Opened
  <2>3. \A t \in team : ~Counted(t) BY <2>2 DEF Counted
  <2>4. Arrived = {} /\ Remaining = team BY <2>2, <2>3 DEF Arrived, Remaining
  <2>5. CountInv BY <2>4, FS_EmptySet DEF Init, CountInv, totalThreadCount
  <2>6. Together BY <2>1, <2>2, ProgramFacts DEF Together, Beyond
  <2> QED BY <2>2, <2>3, <2>5, <2>6 DEF SyncInv, HeldInv, PointInv
<1>7. FlagInv BY <1>0 DEF Init, FlagInv
<1>8. EndInv BY <1>0 DEF Init, EndInv
<1>9. WorkInv
  <2>0. \A t \in team : pc[t] = "run" /\ at[t] = 1 /\ unit[t] = 0 /\ ~Opened(t)
    BY <1>0 DEF Init, Opened
  <2>1. LoopsBefore(1) = {} BY ProgramFacts DEF LoopsBefore
  <2>2. UnitsBefore(1) = 0
    BY <2>1, FS_EmptySet, ProgramAssumption DEF UnitsBefore
  <2>3. SeenInv BY <1>0, <2>2 DEF Init, SeenInv, Number
  <2>4. ClaimInv BY <1>0 DEF Init, ClaimInv, Pending
  <2>5. \A i \in Steps, k \in 0..(Units - 1) : ~LoopDone(i, k) /\ ~SectionDone(i, k)
    <3> SUFFICES ASSUME NEW i \in Steps, NEW k \in 0..(Units - 1)
                 PROVE  ~LoopDone(i, k) /\ ~SectionDone(i, k)
      OBVIOUS
    <3>1. Number(i, k) \in Nat /\ Number(i, k) > 0
      BY UnitsNext, ProgramAssumption DEF Number
    <3>2. ~SectionDone(i, k)
      BY <2>0, ProgramFacts DEF SectionDone, InSection, Beyond
    <3>3. ~LoopDone(i, k)
      BY <1>0, <2>0, <3>1, ProgramFacts, ProgramAssumption DEF Init, LoopDone
    <3> QED BY <3>2, <3>3
  <2>6. \A i \in Steps, k \in 0..(Units - 1) : handled[i][k] = 0 BY DEF Init
  <2> QED BY <2>3, <2>4, <2>5, <2>6 DEF WorkInv, LoopUnits, SectionUnits
<1> QED BY <1>3, <1>4, <1>5, <1>6, <1>7, <1>8, <1>9 DEF IInv

LEMMA CallStep ==
    ASSUME IInv, NEW t \in team, Call(t)
    PROVE  IInv'
<1> USE DEF IInv
<1>0. /\ team' = team /\ team \subseteq Threads /\ t \in Threads /\ Master \in team
      /\ (Several' <=> Several) /\ synchronizeIndex' = synchronizeIndex
  BY TeamFacts DEF Call, barrierVars, Several, totalThreadCount
<1>1. PlaceOf(t) BY <1>0 DEF PlaceInv
<1>2. /\ pc[t] = "run"
      /\ Kind(t) # "work"
      /\ Several
      /\ pc'[t] = "want"
      /\ at'[t] = at[t]
      /\ unit'[t] = unit[t]
      /\ at[t] \in 1..Complete
      /\ index'[t] = IF Kind(t) \in {"master", "single"} THEN synchronizeIndex ELSE index[t]
  BY <1>0, <1>1, StepKind, ProgramFacts DEF Call, Goto, workVars, Several, TypeOK
<1>3. Alone(t) /\ OnlyGoes(t)
  BY <1>0 DEF Call, Goto, workVars, Several, TypeOK, Alone, OnlyGoes, workVars
<1>4. MutexInv' /\ Mutex!TypeOK'
  BY <1>0, <1>2, <1>3, MutexStays DEF Call, HasMutex
<1>5. TypeOK'
  <2>1. synchronized' \in BOOLEAN BY Zenon DEF Call, TypeOK
  <2>2. pc' \in [Threads -> Places] /\ at' \in [Threads -> 1..Complete] /\ index' \in [Threads -> Nat]
    BY <1>2, ProgramFacts DEF Call, Goto, workVars, Several, TypeOK, Places
  <2> QED
    BY <1>0, <1>4, <2>1, <2>2 DEF Call, TypeOK, totalThreadCount, pointVars, barrierVars, workVars
<1>6. PlaceInv'
  <2>1. PlaceOf(t)' BY <1>0, <1>1, <1>2 DEF PlaceOf, Released, Kind
  <2> QED BY <1>0, <1>3, <2>1, OtherPlace DEF PlaceInv
<1>7. \A u \in team : QuietFor(u)
  <2>1. QuietFor(t)
    BY <1>0, <1>1, <1>2, ProgramFacts DEF QuietFor, Held, Released, Completed, Counted, Beyond,
       Opened,
       IsBarrier
  <2> QED BY <1>0, <1>3, <2>1, OtherQuiet
<1>8. SyncInv' BY <1>0, <1>7, QuietSync DEF Call, barrierVars, workVars
<1>9. FlagInv'
  BY <1>0, <1>2, <1>3 DEF FlagInv, Alone, Call
<1>10. EndInv' BY <1>0, <1>2, <1>3 DEF EndInv, Alone
<1>11. WorkInv'
  <2>1. SectionsStay
    <3>1. \A i \in Steps, k \in 0..(Units - 1) : InSection(t, i, k)' <=> InSection(t, i, k)
      BY <1>2 DEF InSection
    <3> QED BY <1>0, <1>3, <1>7, <3>1, QuietSections DEF InSection, Alone
  <2>2. \A u \in team : StaysOrLeaves(u) BY <1>0, <1>2, <1>3 DEF Alone, StaysOrLeaves
  <2> QED BY <1>0, <1>5, <2>1, <2>2, WorkStays DEF Call
<1> QED BY <1>4, <1>5, <1>6, <1>8, <1>9, <1>10, <1>11

LEMMA MutexEnterStep ==
    ASSUME IInv, NEW t \in team, MutexEnter(t)
    PROVE  IInv'
<1> USE DEF IInv
<1>0. /\ team' = team /\ team \subseteq Threads /\ t \in Threads /\ Master \in team
      /\ (Several' <=> Several) /\ synchronizeIndex' = synchronizeIndex
  BY TeamFacts DEF MutexEnter, barrierVars, Several, totalThreadCount
<1>1. PlaceOf(t) BY <1>0 DEF PlaceInv
<1>2. /\ \/ pc[t] = "want" /\ pc'[t] = "in"
         \/ pc[t] = "releaseWant" /\ pc'[t] = "releaseIn"
      /\ at'[t] = at[t]
      /\ unit'[t] = unit[t]
      /\ index'[t] = index[t]
      /\ at[t] \in 1..Complete
  BY <1>0, <1>1, StepKind, ProgramFacts DEF MutexEnter, Goto, workVars, TypeOK
<1>3. Alone(t) /\ OnlyGoes(t)
  BY <1>0 DEF MutexEnter, Goto, workVars, TypeOK, Alone, OnlyGoes, workVars
<1>4. MutexInv' /\ Mutex!TypeOK'
  BY <1>0, <1>2, <1>3, MutexEnters DEF MutexEnter, HasMutex
<1>5. TypeOK'
  <2>1. synchronized' \in BOOLEAN BY Zenon DEF MutexEnter, TypeOK
  <2>2. pc' \in [Threads -> Places] /\ at' \in [Threads -> 1..Complete] /\ index' \in [Threads -> Nat]
    BY <1>2, ProgramFacts DEF MutexEnter, Goto, workVars, TypeOK, Places
  <2> QED
    BY <1>0, <1>4, <2>1, <2>2 DEF MutexEnter, TypeOK, totalThreadCount, pointVars, barrierVars,
       workVars
<1>6. PlaceInv'
  <2>1. PlaceOf(t)' BY <1>0, <1>1, <1>2 DEF PlaceOf, Released, Kind
  <2> QED BY <1>0, <1>3, <2>1, OtherPlace DEF PlaceInv
<1>7. \A u \in team : QuietFor(u)
  <2>1. QuietFor(t)
    BY <1>0, <1>1, <1>2, ProgramFacts DEF QuietFor, Held, Released, Completed, Counted, Beyond,
       Opened,
       IsBarrier
  <2> QED BY <1>0, <1>3, <2>1, OtherQuiet
<1>8. SyncInv' BY <1>0, <1>7, QuietSync DEF MutexEnter, barrierVars, workVars
<1>9. FlagInv'
  BY <1>0, <1>2, <1>3 DEF FlagInv, Alone, MutexEnter
<1>10. EndInv' BY <1>0, <1>2, <1>3 DEF EndInv, Alone
<1>11. WorkInv'
  <2>1. SectionsStay
    <3>1. \A i \in Steps, k \in 0..(Units - 1) : InSection(t, i, k)' <=> InSection(t, i, k)
      BY <1>2 DEF InSection
    <3> QED BY <1>0, <1>3, <1>7, <3>1, QuietSections DEF InSection, Alone
  <2>2. \A u \in team : StaysOrLeaves(u) BY <1>0, <1>2, <1>3 DEF Alone, StaysOrLeaves
  <2> QED BY <1>0, <1>5, <2>1, <2>2, WorkStays DEF MutexEnter
<1> QED BY <1>4, <1>5, <1>6, <1>8, <1>9, <1>10, <1>11

LEMMA MutexReacquireStep ==
    ASSUME IInv, NEW t \in team, MutexReacquire(t)
    PROVE  IInv'
<1> USE DEF IInv
<1>0. /\ team' = team /\ team \subseteq Threads /\ t \in Threads /\ Master \in team
      /\ (Several' <=> Several) /\ synchronizeIndex' = synchronizeIndex
  BY TeamFacts DEF MutexReacquire, barrierVars, Several, totalThreadCount
<1>1. PlaceOf(t) BY <1>0 DEF PlaceInv
<1>2. /\ pc[t] = "loop" /\ pc'[t] = pc[t]
      /\ at'[t] = at[t]
      /\ unit'[t] = unit[t]
      /\ index'[t] = index[t]
      /\ at[t] \in 1..Complete
  BY <1>0, <1>1, StepKind, ProgramFacts DEF MutexReacquire, workVars, TypeOK
<1>3. Alone(t) /\ OnlyGoes(t)
  BY <1>0 DEF MutexReacquire, workVars, TypeOK, Alone, OnlyGoes, workVars
<1>4. MutexInv' /\ Mutex!TypeOK'
  BY <1>0, MutexReacquires DEF MutexReacquire
<1>5. TypeOK'
  <2>1. synchronized' \in BOOLEAN BY Zenon DEF MutexReacquire, TypeOK
  <2>2. pc' \in [Threads -> Places] /\ at' \in [Threads -> 1..Complete] /\ index' \in [Threads -> Nat]
    BY <1>2, ProgramFacts DEF MutexReacquire, workVars, TypeOK, Places
  <2> QED
    BY <1>0, <1>4, <2>1, <2>2 DEF MutexReacquire, TypeOK, totalThreadCount, pointVars, barrierVars,
       workVars
<1>6. PlaceInv'
  <2>1. PlaceOf(t)' BY <1>0, <1>1, <1>2 DEF PlaceOf, Released, Kind
  <2> QED BY <1>0, <1>3, <2>1, OtherPlace DEF PlaceInv
<1>7. \A u \in team : QuietFor(u)
  <2>1. QuietFor(t)
    BY <1>0, <1>1, <1>2, ProgramFacts DEF QuietFor, Held, Released, Completed, Counted, Beyond,
       Opened,
       IsBarrier
  <2> QED BY <1>0, <1>3, <2>1, OtherQuiet
<1>8. SyncInv' BY <1>0, <1>7, QuietSync DEF MutexReacquire, barrierVars, workVars
<1>9. FlagInv'
  BY <1>0, <1>2, <1>3 DEF FlagInv, Alone, MutexReacquire
<1>10. EndInv' BY <1>0, <1>2, <1>3 DEF EndInv, Alone
<1>11. WorkInv'
  <2>1. SectionsStay
    <3>1. \A i \in Steps, k \in 0..(Units - 1) : InSection(t, i, k)' <=> InSection(t, i, k)
      BY <1>2 DEF InSection
    <3> QED BY <1>0, <1>3, <1>7, <3>1, QuietSections DEF InSection, Alone
  <2>2. \A u \in team : StaysOrLeaves(u) BY <1>0, <1>2, <1>3 DEF Alone, StaysOrLeaves
  <2> QED BY <1>0, <1>5, <2>1, <2>2, WorkStays DEF MutexReacquire
<1> QED BY <1>4, <1>5, <1>6, <1>8, <1>9, <1>10, <1>11

LEMMA LeaveStep ==
    ASSUME IInv, NEW t \in team, Leave(t)
    PROVE  IInv'
<1> USE DEF IInv
<1>0. /\ team' = team /\ team \subseteq Threads /\ t \in Threads /\ Master \in team
      /\ (Several' <=> Several) /\ synchronizeIndex' = synchronizeIndex
  BY TeamFacts DEF Leave, barrierVars, Several, totalThreadCount
<1>1. PlaceOf(t) BY <1>0 DEF PlaceInv
<1>2. /\ pc[t] = "leave"
      /\ \/ at[t] = Complete /\ at'[t] = at[t] /\ pc'[t] = "done"
         \/ at[t] \in Steps /\ at'[t] = at[t] + 1 /\ pc'[t] = "run" /\ Program[at[t]] # "work" /\ unit[t] = 0
      /\ unit'[t] = unit[t]
      /\ index'[t] = index[t]
      /\ at[t] \in 1..Complete
  BY <1>0, <1>1, StepKind, ProgramFacts DEF Leave, Goto, NextStep, PlaceOf, workVars, TypeOK
<1>3. Alone(t) /\ OnlyGoes(t)
  BY <1>0 DEF Leave, Goto, NextStep, PlaceOf, workVars, TypeOK, Alone, OnlyGoes, workVars
<1>4. MutexInv' /\ Mutex!TypeOK'
  BY <1>0, <1>2, <1>3, MutexExits DEF Leave
<1>5. TypeOK'
  <2>1. synchronized' \in BOOLEAN BY Zenon DEF Leave, TypeOK
  <2>2. pc' \in [Threads -> Places] /\ at' \in [Threads -> 1..Complete] /\ index' \in [Threads -> Nat]
    BY <1>2, ProgramFacts DEF Leave, Goto, NextStep, PlaceOf, workVars, TypeOK, Places
  <2> QED
    BY <1>0, <1>4, <2>1, <2>2 DEF Leave, TypeOK, totalThreadCount, pointVars, barrierVars, workVars
<1>6. PlaceInv'
  <2>1. PlaceOf(t)' BY <1>0, <1>1, <1>2 DEF PlaceOf, Released, Kind
  <2> QED BY <1>0, <1>3, <2>1, OtherPlace DEF PlaceInv
<1>7. \A u \in team : QuietFor(u)
  <2>1. QuietFor(t)
    BY <1>0, <1>1, <1>2, ProgramFacts DEF QuietFor, Held, Released, Completed, Counted, Beyond,
       Opened,
       IsBarrier
  <2> QED BY <1>0, <1>3, <2>1, OtherQuiet
<1>8. SyncInv' BY <1>0, <1>7, QuietSync DEF Leave, barrierVars, workVars
<1>9. FlagInv'
  BY <1>0, <1>2, <1>3 DEF FlagInv, Alone, Leave
<1>10. EndInv' BY <1>0, <1>2, <1>3 DEF EndInv, Alone
<1>11. WorkInv'
  <2>1. SectionsStay
    <3>1. \A i \in Steps, k \in 0..(Units - 1) : InSection(t, i, k)' <=> InSection(t, i, k)
      BY <1>2 DEF InSection
    <3> QED BY <1>0, <1>3, <1>7, <3>1, QuietSections DEF InSection, Alone
  <2>2. \A u \in team : StaysOrLeaves(u) BY <1>0, <1>2, <1>3 DEF Alone, StaysOrLeaves
  <2> QED BY <1>0, <1>5, <2>1, <2>2, WorkStays DEF Leave
<1> QED BY <1>4, <1>5, <1>6, <1>8, <1>9, <1>10, <1>11

LEMMA LeaveReleasedStep ==
    ASSUME IInv, NEW t \in team, LeaveReleased(t)
    PROVE  IInv'
<1> USE DEF IInv
<1>0. /\ team' = team /\ team \subseteq Threads /\ t \in Threads /\ Master \in team
      /\ (Several' <=> Several) /\ synchronizeIndex' = synchronizeIndex
  BY TeamFacts DEF LeaveReleased, barrierVars, Several, totalThreadCount
<1>1. PlaceOf(t) BY <1>0 DEF PlaceInv
<1>2. /\ pc[t] = "leaveReleased"
      /\ pc'[t] = "take"
      /\ at'[t] = at[t]
      /\ unit'[t] = unit[t]
      /\ index'[t] = index[t]
      /\ at[t] \in 1..Complete
  BY <1>0, <1>1, StepKind, ProgramFacts DEF LeaveReleased, Goto, workVars, TypeOK
<1>3. Alone(t) /\ OnlyGoes(t)
  BY <1>0 DEF LeaveReleased, Goto, workVars, TypeOK, Alone, OnlyGoes, workVars
<1>4. MutexInv' /\ Mutex!TypeOK'
  BY <1>0, <1>2, <1>3, MutexExits DEF LeaveReleased
<1>5. TypeOK'
  <2>1. synchronized' \in BOOLEAN BY Zenon DEF LeaveReleased, TypeOK
  <2>2. pc' \in [Threads -> Places] /\ at' \in [Threads -> 1..Complete] /\ index' \in [Threads -> Nat]
    BY <1>2, ProgramFacts DEF LeaveReleased, Goto, workVars, TypeOK, Places
  <2> QED
    BY <1>0, <1>4, <2>1, <2>2 DEF LeaveReleased, TypeOK, totalThreadCount, pointVars, barrierVars,
       workVars
<1>6. PlaceInv'
  <2>1. PlaceOf(t)' BY <1>0, <1>1, <1>2 DEF PlaceOf, Released, Kind
  <2> QED BY <1>0, <1>3, <2>1, OtherPlace DEF PlaceInv
<1>7. \A u \in team : QuietFor(u)
  <2>1. QuietFor(t)
    BY <1>0, <1>1, <1>2, ProgramFacts DEF QuietFor, Held, Released, Completed, Counted, Beyond,
       Opened,
       IsBarrier
  <2> QED BY <1>0, <1>3, <2>1, OtherQuiet
<1>8. SyncInv' BY <1>0, <1>7, QuietSync DEF LeaveReleased, barrierVars, workVars
<1>9. FlagInv'
  BY <1>0, <1>2, <1>3 DEF FlagInv, Alone, LeaveReleased
<1>10. EndInv' BY <1>0, <1>2, <1>3 DEF EndInv, Alone
<1>11. WorkInv'
  <2>1. SectionsStay
    <3>1. \A i \in Steps, k \in 0..(Units - 1) : InSection(t, i, k)' <=> InSection(t, i, k)
      BY <1>2 DEF InSection
    <3> QED BY <1>0, <1>3, <1>7, <3>1, QuietSections DEF InSection, Alone
  <2>2. \A u \in team : StaysOrLeaves(u) BY <1>0, <1>2, <1>3 DEF Alone, StaysOrLeaves
  <2> QED BY <1>0, <1>5, <2>1, <2>2, WorkStays DEF LeaveReleased
<1> QED BY <1>4, <1>5, <1>6, <1>8, <1>9, <1>10, <1>11

LEMMA TakeStep ==
    ASSUME IInv, NEW t \in team, Take(t)
    PROVE  IInv'
<1> USE DEF IInv
<1>0. /\ team' = team /\ team \subseteq Threads /\ t \in Threads /\ Master \in team
      /\ (Several' <=> Several) /\ synchronizeIndex' = synchronizeIndex
  BY TeamFacts DEF Take, barrierVars, Several, totalThreadCount
<1>1. PlaceOf(t) BY <1>0 DEF PlaceInv
<1>2. /\ pc[t] = "take"
      /\ pc'[t] = "section"
      /\ at'[t] = at[t]
      /\ unit'[t] = 0 /\ unit[t] = 0
      /\ index'[t] = index[t]
      /\ at[t] \in 1..Complete
  BY <1>0, <1>1, StepKind, ProgramFacts DEF Take, Goto, PlaceOf, workVars, TypeOK
<1>3. Alone(t) /\ OnlyGoes(t)
  BY <1>0 DEF Take, Goto, PlaceOf, workVars, TypeOK, Alone, OnlyGoes, workVars
<1>4. MutexInv' /\ Mutex!TypeOK'
  BY <1>0, <1>2, <1>3, MutexStays DEF Take, HasMutex
<1>5. TypeOK'
  <2>1. synchronized' \in BOOLEAN BY Zenon DEF Take, TypeOK
  <2>2. pc' \in [Threads -> Places] /\ at' \in [Threads -> 1..Complete] /\ index' \in [Threads -> Nat]
    BY <1>2, ProgramFacts DEF Take, Goto, PlaceOf, workVars, TypeOK, Places
  <2> QED
    BY <1>0, <1>4, <2>1, <2>2 DEF Take, TypeOK, totalThreadCount, pointVars, barrierVars, workVars
<1>6. PlaceInv'
  <2>1. PlaceOf(t)' BY <1>0, <1>1, <1>2 DEF PlaceOf, Released, Kind
  <2> QED BY <1>0, <1>3, <2>1, OtherPlace DEF PlaceInv
<1>7. \A u \in team : QuietFor(u)
  <2>1. QuietFor(t)
    BY <1>0, <1>1, <1>2, ProgramFacts DEF QuietFor, Held, Released, Completed, Counted, Beyond,
       Opened,
       IsBarrier
  <2> QED BY <1>0, <1>3, <2>1, OtherQuiet
<1>8. SyncInv' BY <1>0, <1>7, QuietSync DEF Take, barrierVars, workVars
<1>9. FlagInv'
  BY <1>0, <1>2, <1>3 DEF FlagInv, Alone, Take
<1>10. EndInv' BY <1>0, <1>2, <1>3 DEF EndInv, Alone
<1>11. WorkInv'
  <2>1. SectionsStay
    <3>1. \A i \in Steps, k \in 0..(Units - 1) : InSection(t, i, k)' <=> InSection(t, i, k)
      BY <1>2, ProgramAssumption DEF InSection
    <3> QED BY <1>0, <1>3, <1>7, <3>1, QuietSections DEF InSection, Alone
  <2>2. \A u \in team : StaysOrLeaves(u) BY <1>0, <1>2, <1>3 DEF Alone, StaysOrLeaves
  <2> QED BY <1>0, <1>5, <2>1, <2>2, WorkStays DEF Take
<1> QED BY <1>4, <1>5, <1>6, <1>8, <1>9, <1>10, <1>11

-----------------------------------------------------------------------------
(* Arriving at a point and opening it. *)

LEMMA RoomForOne ==
    ASSUME TypeOK, PlaceInv, SyncInv, Several, NEW t \in team, pc[t] = "in"
    PROVE  synchronizeCount + 1 \in 0..totalThreadCount /\ threadCount - 1 \in 0..totalThreadCount
<1>1. t \notin Arrived /\ Arrived \subseteq team /\ t \in Remaining BY Arriving DEF Arrived
<1>2. Cardinality(Arrived) # totalThreadCount BY <1>1, CountFacts
<1>3. Cardinality(Remaining) # 0 BY <1>1, CountFacts
<1> QED BY <1>2, <1>3, CountFacts, TeamFacts DEF SyncInv, CountInv

LEMMA JoinStep ==
    ASSUME IInv, Several, NEW t \in team, pc[t] = "in",
           Arrive(t), RecordPoint(t), synchronizeCount' = synchronizeCount + 1,
           NEW p \in {"loop", "leave", "leaveReleased"}, pc' = [pc EXCEPT ![t] = p],
           UNCHANGED <<team, synchronized, synchronizeIndex, at, workVars>>,
           index' = index \/ index' = [index EXCEPT ![t] = synchronizeIndex],
           MutexInv' /\ Mutex!TypeOK', PlaceOf(t)', Counted(t)',
           at[t] # Complete => threadCount' = threadCount,
           at[t] = Complete => threadCount' = threadCount - 1,
           at[t] = Complete /\ t = Master => p = "loop",
           Released(t)' => at[t] # Complete /\ LastArrives
    PROVE  IInv'
<1> USE DEF IInv
<1>0. /\ team \subseteq Threads /\ t \in Threads /\ Master \in team
      /\ Several' <=> Several
  BY TeamFacts DEF Several, totalThreadCount
<1>1. Alone(t) BY <1>0 DEF Alone, TypeOK, workVars
<1>2. pc'[t] = p BY <1>0 DEF TypeOK
<1>3. TypeOK'
  <2>1. synchronized' \in BOOLEAN BY Zenon DEF TypeOK
  <2>2. pc' \in [Threads -> Places] /\ index' \in [Threads -> Nat]
    BY <1>0 DEF TypeOK, Places
  <2>3. synchronizeCount' \in 0..totalThreadCount /\ threadCount' \in 0..totalThreadCount
    BY RoomForOne DEF TypeOK
  <2>4. syncPointUniqueId' \in 0..Complete /\ syncPointWorkUnitIndex' \in Nat
    BY <1>0, ProgramFacts DEF RecordPoint, pointVars, TypeOK
  <2> QED BY <2>1, <2>2, <2>3, <2>4 DEF TypeOK, totalThreadCount, workVars
<1>4. PlaceInv' BY <1>0, <1>1, OtherPlace DEF PlaceInv
<1>5. SyncInv' BY <1>1, JoinSync DEF workVars
<1>6. FlagInv' BY <1>0, <1>1, <1>2 DEF FlagInv, Alone
<1>7. EndInv' BY <1>0, <1>1, <1>2 DEF EndInv, Alone
<1>8. WorkInv'
  <2>1. \A i \in Steps, k \in 0..(Units - 1) :
           /\ InSection(t, i, k)' <=> InSection(t, i, k)
           /\ Beyond(t, i)' <=> Beyond(t, i)
    <3>1. ~Opened(t) /\ ~Opened(t)' BY DEF Opened, Counted, Held, Released, Completed
    <3> QED BY <1>2, <3>1 DEF InSection, Beyond
  <2>2. SectionsStay
    BY <1>0, <1>1, <2>1, SectionsOf, OtherQuiet DEF InSection, Alone, QuietFor, IsBarrier
  <2>3. \A u \in team : StaysOrLeaves(u) BY DEF StaysOrLeaves
  <2> QED BY <1>3, <2>2, <2>3, WorkStays
<1> QED BY <1>3, <1>4, <1>5, <1>6, <1>7, <1>8

LEMMA OpenStep ==
    ASSUME IInv, Several, NEW t \in team, at[t] # Complete, OthersHeld(t), OpenBarrier(t),
           \/ pc[t] = "in" /\ Program[at[t]] = "sync"
           \/ pc[t] = "releaseIn",
           pc' = [pc EXCEPT ![t] = "leave"],
           UNCHANGED <<team, synchronized, at, index, threadCount, workVars>>,
           syncPointUniqueId' \in 0..Complete /\ syncPointWorkUnitIndex' \in Nat
    PROVE  IInv'
<1> USE DEF IInv
<1>0. /\ team \subseteq Threads /\ t \in Threads /\ Master \in team
      /\ Several' <=> Several
  BY TeamFacts DEF Several, totalThreadCount
<1>1. pc'[t] = "leave" /\ OnlyGoes(t) BY <1>0 DEF TypeOK, OnlyGoes
<1>2. MutexInv' /\ Mutex!TypeOK' BY <1>0, <1>1, MutexNotifies DEF OpenBarrier
<1>3. TypeOK'
  <2>1. synchronized' \in BOOLEAN BY Zenon DEF TypeOK
  <2>2. pc' \in [Threads -> Places] BY <1>0 DEF TypeOK, Places
  <2>3. synchronizeCount' \in 0..totalThreadCount /\ synchronizeIndex' \in Nat
    <3>1. totalThreadCount \in Nat BY TeamFacts
    <3>2. synchronizeIndex \in Nat BY DEF TypeOK
    <3> QED BY <3>1, <3>2 DEF OpenBarrier
  <2> QED BY <1>2, <2>1, <2>2, <2>3 DEF TypeOK, totalThreadCount, workVars
<1>4. /\ SyncInv'
      /\ \A u \in team : Opened(u)' /\ at[u] = at[t] /\ ~Opened(u)
  <2>1. ~Completed(t) /\ ~Opened(t) BY DEF Completed, Opened
  <2> QED BY <2>1, OpenSync DEF OpenBarrier
<1>5. PlaceInv'
  <2>1. \A u \in Threads \ {t} : pc[u] \in {"run", "loop"}
    BY DEF PlaceInv, PlaceOf, OthersHeld, Held
  <2>2. \A u \in Threads \ {t} : PlaceOf(u)'
    BY <1>0, <1>1, <2>1 DEF PlaceInv, PlaceOf, Released, Kind, OnlyGoes, workVars
  <2>3. PlaceOf(t)'
    BY <1>0, <1>1 DEF PlaceInv, PlaceOf, Released, Kind, workVars
  <2> QED BY <2>2, <2>3 DEF PlaceInv
<1>6. FlagInv' BY <1>0, <1>1 DEF FlagInv, OnlyGoes
<1>7. EndInv' BY <1>0, <1>4 DEF EndInv
<1>8. WorkInv'
  <2>1. at[t] \in Steps BY <1>0, StepKind
  <2>2. ASSUME NEW u \in team, NEW i \in Steps, NEW k \in 0..(Units - 1), Program[i] \in {"master", "single"}
        PROVE  SectionDone(i, k)' <=> SectionDone(i, k)
    <3>1. CASE i = at[t]
      <4>1. pc[t] = "releaseIn" BY <2>2, <3>1
      <4>2. InSection(t, i, k) BY <3>1, <4>1 DEF InSection
      <4>3. Beyond(t, i)' BY <1>4, <3>1 DEF Beyond
      <4> QED BY <4>2, <4>3 DEF SectionDone
    <3>2. CASE i # at[t]
      BY <1>4, <3>2 DEF SectionDone, InSection, Beyond
    <3> QED BY <3>1, <3>2
  <2>3. SectionsStay BY <2>2 DEF SectionsStay
  <2>4. \A u \in team : StaysOrLeaves(u) BY DEF StaysOrLeaves
  <2> QED BY <1>3, <2>3, <2>4, WorkStays
<1> QED BY <1>2, <1>3, <1>4, <1>5, <1>6, <1>7, <1>8

-----------------------------------------------------------------------------
(* The bodies under the mutex. *)

LEMMA SyncBodyStep ==
    ASSUME IInv, NEW t \in team, SyncBody(t)
    PROVE  IInv'
<1> USE DEF IInv
<1>0. t \in Threads /\ PlaceOf(t) /\ pc[t] = "in" /\ Several
  BY TeamFacts DEF PlaceInv, PlaceOf, SyncBody, Arrive
<1>1. at[t] \in Steps /\ at[t] # Complete /\ Program[at[t]] = "sync" /\ at[t] \in 0..Complete
  BY <1>0, StepKind, ProgramFacts DEF SyncBody
<1>2. CASE LastArrives
  <2>1. OthersHeld(t) BY <1>0, <1>1, <1>2, LastOne
  <2>2. OpenBarrier(t) /\ pc' = [pc EXCEPT ![t] = "leave"] /\ UNCHANGED <<at, index>>
    BY <1>2 DEF SyncBody, Goto
  <2>3. syncPointUniqueId' \in 0..Complete /\ syncPointWorkUnitIndex' \in Nat
    BY <1>0, <1>1 DEF SyncBody, RecordPoint, TypeOK, pointVars
  <2> QED BY <1>0, <1>1, <2>1, <2>2, <2>3, OpenStep DEF SyncBody
<1>3. CASE ~LastArrives
  <2>1. /\ synchronizeCount' = synchronizeCount + 1 /\ index' = [index EXCEPT ![t] = synchronizeIndex]
        /\ Mutex!Wait(t) /\ pc' = [pc EXCEPT ![t] = "loop"] /\ UNCHANGED <<at, synchronizeIndex>>
    BY <1>3 DEF SyncBody, Goto
  <2>2. /\ pc'[t] = "loop" /\ index'[t] = synchronizeIndex /\ OnlyGoes(t) /\ at'[t] = at[t]
        /\ unit'[t] = unit[t]
    BY <1>0, <2>1 DEF TypeOK, OnlyGoes, SyncBody, workVars
  <2>3. MutexInv' /\ Mutex!TypeOK' BY <1>0, <2>1, <2>2, MutexWaits
  <2>4. Several' /\ team' = team BY <1>0 DEF SyncBody, Several, totalThreadCount
  <2>5. PlaceOf(t)' /\ Counted(t)' /\ ~Released(t)'
    BY <1>0, <1>1, <2>1, <2>2, <2>4 DEF PlaceOf, Counted, Held, Released, Kind
  <2> QED BY <1>0, <1>1, <2>1, <2>3, <2>5, JoinStep DEF SyncBody
<1> QED BY <1>2, <1>3

LEMMA MasterBodyStep ==
    ASSUME IInv, NEW t \in team, MasterBody(t)
    PROVE  IInv'
<1> USE DEF IInv
<1>0. /\ t \in Threads /\ PlaceOf(t) /\ pc[t] = "in" /\ Several /\ index[t] = synchronizeIndex
      /\ team' = team /\ Several'
  BY TeamFacts DEF PlaceInv, PlaceOf, MasterBody, Arrive, Several, totalThreadCount
<1>1. at[t] \in Steps /\ at[t] # Complete
  BY <1>0, StepKind DEF MasterBody
<1>2. PICK p \in {"loop", "leaveReleased"} :
        /\ pc' = [pc EXCEPT ![t] = p] /\ UNCHANGED at
        /\ p = "leaveReleased" => LastArrives /\ t = Master
        /\ (p = "loop" /\ Mutex!NotifyAll(t)) \/ UNCHANGED mutexVars
  BY DEF MasterBody, Goto
<1>3. pc'[t] = p /\ OnlyGoes(t) /\ at'[t] = at[t] /\ unit'[t] = unit[t] /\ index'[t] = index[t]
  BY <1>0, <1>2 DEF TypeOK, OnlyGoes, MasterBody, workVars
<1>4. HasMutex(t) /\ owner = t /\ waitState[t] = "none"
  BY <1>0 DEF MutexInv, MutexOf, HasMutex
<1>5. MutexInv' /\ Mutex!TypeOK'
  <2>1. CASE Mutex!NotifyAll(t) /\ p = "loop" BY <1>0, <1>3, <2>1, MutexNotifies
  <2>2. CASE UNCHANGED mutexVars
    <3>1. HasMutex(t)' BY <1>3, <1>4, <2>2 DEF HasMutex, mutexVars
    <3> QED BY <1>0, <1>3, <1>4, <2>2, <3>1, MutexStays
  <2> QED BY <1>2, <2>1, <2>2
<1>6. PlaceOf(t)' /\ Counted(t)'
  BY <1>0, <1>1, <1>2, <1>3 DEF PlaceOf, Counted, Held, Released, Kind, MasterBody
<1>7. Released(t)' => LastArrives BY <1>2, <1>3 DEF Released
<1> QED BY <1>0, <1>1, <1>2, <1>5, <1>6, <1>7, JoinStep DEF MasterBody

LEMMA SingleBodyStep ==
    ASSUME IInv, NEW t \in team, SingleBody(t)
    PROVE  IInv'
<1> USE DEF IInv
<1>0. /\ t \in Threads /\ PlaceOf(t) /\ pc[t] = "in" /\ Several /\ index[t] = synchronizeIndex
      /\ team' = team /\ Several'
  BY TeamFacts DEF PlaceInv, PlaceOf, SingleBody, Arrive, Several, totalThreadCount
<1>1. at[t] \in Steps /\ at[t] # Complete
  BY <1>0, StepKind DEF SingleBody
<1>2. PICK p \in {"loop", "leaveReleased"} :
        /\ pc' = [pc EXCEPT ![t] = p] /\ UNCHANGED at
        /\ p = "leaveReleased" => LastArrives /\ UNCHANGED mutexVars
        /\ p = "loop" => Mutex!Wait(t)
  BY DEF SingleBody, Goto
<1>3. pc'[t] = p /\ OnlyGoes(t) /\ at'[t] = at[t] /\ unit'[t] = unit[t] /\ index'[t] = index[t]
  BY <1>0, <1>2 DEF TypeOK, OnlyGoes, SingleBody, workVars
<1>4. MutexInv' /\ Mutex!TypeOK'
  <2>1. CASE p = "loop" BY <1>0, <1>2, <1>3, <2>1, MutexWaits
  <2>2. CASE p = "leaveReleased"
    BY <1>0, <1>2, <1>3, <2>2, MutexStays DEF HasMutex
  <2> QED BY <2>1, <2>2
<1>5. PlaceOf(t)' /\ Counted(t)'
  BY <1>0, <1>1, <1>2, <1>3 DEF PlaceOf, Counted, Held, Released, Kind, SingleBody
<1>6. Released(t)' => LastArrives BY <1>2, <1>3 DEF Released
<1> QED BY <1>0, <1>1, <1>2, <1>4, <1>5, <1>6, JoinStep DEF SingleBody

LEMMA CompleteBodyStep ==
    ASSUME IInv, NEW t \in team, CompleteBody(t)
    PROVE  IInv'
<1> USE DEF IInv
<1>0. /\ t \in Threads /\ PlaceOf(t) /\ pc[t] = "in" /\ Several
      /\ team' = team /\ Several'
  BY TeamFacts DEF PlaceInv, PlaceOf, CompleteBody, Arrive, Several, totalThreadCount
<1>1. at[t] = Complete BY <1>0, StepKind DEF CompleteBody
<1>2. PICK p \in {"loop", "leave"} :
        /\ pc' = [pc EXCEPT ![t] = p] /\ UNCHANGED at
        /\ p = "loop" <=> t = Master
        /\ (p = "leave" /\ Mutex!NotifyAll(t)) \/ UNCHANGED mutexVars
  BY DEF CompleteBody, Goto
<1>3. pc'[t] = p /\ OnlyGoes(t) /\ at'[t] = at[t] /\ unit'[t] = unit[t] /\ index'[t] = index[t]
  BY <1>0, <1>2 DEF TypeOK, OnlyGoes, CompleteBody, workVars
<1>4. HasMutex(t) /\ owner = t /\ waitState[t] = "none"
  BY <1>0 DEF MutexInv, MutexOf, HasMutex
<1>5. MutexInv' /\ Mutex!TypeOK'
  <2>1. CASE Mutex!NotifyAll(t) /\ p = "leave" BY <1>0, <1>3, <2>1, MutexNotifies
  <2>2. CASE UNCHANGED mutexVars
    <3>1. HasMutex(t)' BY <1>3, <1>4, <2>2 DEF HasMutex, mutexVars
    <3> QED BY <1>0, <1>3, <1>4, <2>2, <3>1, MutexStays
  <2> QED BY <1>2, <2>1, <2>2
<1>6. PlaceOf(t)' /\ Counted(t)' /\ ~Released(t)'
  BY <1>0, <1>1, <1>2, <1>3 DEF PlaceOf, Counted, Completed, Released, Kind
<1> QED BY <1>0, <1>1, <1>2, <1>5, <1>6, JoinStep DEF CompleteBody, OneLess

LEMMA ReleaseBodyStep ==
    ASSUME IInv, NEW t \in team, ReleaseBody(t)
    PROVE  IInv'
<1> USE DEF IInv
<1>0. t \in Threads /\ PlaceOf(t) /\ pc[t] = "releaseIn" /\ Several /\ Released(t)
  BY TeamFacts DEF PlaceInv, PlaceOf, ReleaseBody, Released
<1>1. at[t] # Complete BY <1>0, StepKind DEF PlaceOf
<1>2. OthersHeld(t) BY <1>0 DEF SyncInv, HeldInv
<1>3. syncPointUniqueId' \in 0..Complete /\ syncPointWorkUnitIndex' \in Nat
  BY DEF ReleaseBody, TypeOK, pointVars
<1> QED BY <1>0, <1>1, <1>2, <1>3, OpenStep DEF ReleaseBody, Goto

-----------------------------------------------------------------------------
(* The wait loops. *)

AtPoint(t) == at[t] = Complete \/ (at[t] \in Steps /\ IsBarrier(at[t]))

\* Threads at a point that is not open are at the same point.
LEMMA Level ==
    ASSUME TypeOK, Together, NEW t \in team, NEW u \in team,
           AtPoint(t), AtPoint(u), ~Opened(t), ~Opened(u)
    PROVE  at[u] = at[t]
<1>1. at[u] \in 1..Complete /\ at[t] \in 1..Complete BY TeamFacts, StepKind
<1>2. ~(at[u] < at[t]) BY <1>1, ProgramFacts DEF Together, Beyond, AtPoint
<1>3. ~(at[t] < at[u]) BY <1>1, ProgramFacts DEF Together, Beyond, AtPoint
<1> QED BY <1>1, <1>2, <1>3, ProgramFacts

\* A master that finds everybody arrived has all slaves held at its point.
LEMMA MasterFinds ==
    ASSUME IInv, Several, NEW t \in team, t = Master, Held(t), Kind(t) = "master",
           synchronizeCount = threadCount
    PROVE  OthersHeld(t)
<1> USE DEF IInv
<1>0. team \subseteq Threads BY TeamFacts
<1>1. at[t] \in Steps /\ at[t] # Complete /\ IsBarrier(at[t]) /\ ~Opened(t)
  BY <1>0, StepKind DEF Held, Opened, IsBarrier
<1>2. \A u \in team : ~Completed(u)
  <2> SUFFICES ASSUME NEW u \in team, Completed(u) PROVE FALSE OBVIOUS
  <2>1. AtPoint(u) /\ ~Opened(u) /\ at[u] = Complete BY DEF Completed, AtPoint, Opened
  <2> QED BY <1>1, <2>1, Level DEF SyncInv, AtPoint
<1>3. Remaining = team BY <1>2 DEF Remaining
<1>4. Arrived = team BY <1>3, CountFacts DEF SyncInv, CountInv
<1>5. ASSUME NEW u \in team \ {t} PROVE Held(u) /\ at[u] = at[t]
  <2>1. Held(u) \/ Released(u) BY <1>2, <1>4 DEF Arrived, Counted
  <2>2. CASE Released(u)
    <3>1. at[t] = at[u] BY <2>2 DEF SyncInv, HeldInv, OthersHeld
    <3>2. Kind(u) = "master" BY <3>1 DEF Kind
    <3>3. u = Master BY <1>0, <2>2, <3>2 DEF PlaceInv, PlaceOf
    <3> QED BY <3>3
  <2>3. CASE Held(u)
    <3>1. AtPoint(u) /\ ~Opened(u)
      BY <1>0, <2>3, StepKind DEF Held, Opened, AtPoint, IsBarrier, PlaceInv, PlaceOf
    <3>2. AtPoint(t) BY <1>1 DEF AtPoint
    <3> QED BY <1>1, <2>3, <3>1, <3>2, Level DEF SyncInv
  <2> QED BY <2>1, <2>2, <2>3
<1> QED BY <1>5 DEF OthersHeld

LEMMA LoopBodyStep ==
    ASSUME IInv, NEW t \in team, LoopBody(t)
    PROVE  IInv'
<1> USE DEF IInv
<1>0. /\ team' = team /\ team \subseteq Threads /\ t \in Threads /\ Master \in team
      /\ (Several' <=> Several) /\ synchronizeIndex' = synchronizeIndex
      /\ PlaceOf(t) /\ pc[t] = "loop" /\ owner = t
  BY TeamFacts DEF LoopBody, barrierVars, Several, totalThreadCount, PlaceInv
<1>1. Several /\ Kind(t) # "work" BY <1>0 DEF PlaceOf
<1>2. PICK p \in {"loop", "leave", "leaveReleased"} :
        /\ pc' = [pc EXCEPT ![t] = p] /\ UNCHANGED at
        /\ p = "loop" => Mutex!Wait(t)
        /\ p # "loop" => UNCHANGED mutexVars /\ ~MustWait(t)
        /\ p # "loop" => p = IF Kind(t) = "master" /\ index[t] = synchronizeIndex THEN "leaveReleased" ELSE "leave"
  <2>1. CASE MustWait(t)
    <3>1. pc' = [pc EXCEPT ![t] = "loop"] BY <1>0, <2>1 DEF LoopBody, TypeOK
    <3> QED BY <2>1, <3>1 DEF LoopBody
  <2>2. CASE ~MustWait(t)
    BY <2>2 DEF LoopBody, Goto
  <2> QED BY <2>1, <2>2
<1>3. pc'[t] = p /\ at'[t] = at[t] /\ unit'[t] = unit[t] /\ index'[t] = index[t]
  BY <1>0, <1>2 DEF LoopBody, workVars, TypeOK
<1>4. Alone(t) /\ OnlyGoes(t)
  BY <1>0, <1>2 DEF LoopBody, Alone, OnlyGoes, workVars, TypeOK
<1>5. waitState[t] = "none" BY <1>0 DEF MutexInv, MutexOf, HasMutex
<1>6. MutexInv' /\ Mutex!TypeOK'
  <2>1. CASE p = "loop" BY <1>0, <1>2, <1>3, <1>4, <2>1, MutexWaits
  <2>2. CASE p # "loop"
    <3>1. HasMutex(t) /\ HasMutex(t)' BY <1>0, <1>3, <1>5, <2>2 DEF HasMutex
    <3> QED BY <1>0, <1>2, <1>4, <2>2, <3>1, MutexStays
  <2> QED BY <2>1, <2>2
<1>7. TypeOK'
  <2>1. synchronized' \in BOOLEAN BY Zenon DEF LoopBody, TypeOK
  <2>2. pc' \in [Threads -> Places] BY <1>0, <1>2 DEF TypeOK, Places
  <2> QED BY <1>0, <1>2, <1>6, <2>1, <2>2
       DEF LoopBody, TypeOK, totalThreadCount, pointVars, barrierVars, workVars
<1>8. /\ at[t] \in 1..Complete
      /\ at[t] = Complete <=> Kind(t) = "complete"
      /\ at[t] # Complete => at[t] \in Steps /\ Kind(t) = Program[at[t]]
      /\ Kind(t) \in {"sync", "master", "single", "complete"}
  BY <1>0, <1>1, StepKind DEF Kinds
\* What the end of the wait means.
<1>9. /\ p = "leave" /\ at[t] # Complete => index[t] # synchronizeIndex
      /\ p = "leave" /\ at[t] = Complete => threadCount = 0 /\ t = Master
      /\ p = "leaveReleased" =>
            Held(t) /\ Kind(t) = "master" /\ t = Master /\ synchronizeCount = threadCount
  BY <1>0, <1>2, <1>8 DEF MustWait, MasterIsReleased, PlaceOf, Held
<1>10. PlaceInv'
  <2>1. PlaceOf(t)' BY <1>0, <1>1, <1>3, <1>9 DEF PlaceOf, Released, Kind
  <2> QED BY <1>0, <1>4, <2>1, OtherPlace DEF PlaceInv
<1>11. /\ \A u \in team \ {t} : QuietFor(u)
       /\ p # "leaveReleased" => QuietFor(t)
  <2>1. p # "leaveReleased" => QuietFor(t)
    BY <1>0, <1>2, <1>3, <1>9 DEF QuietFor, Held, Released, Completed, Beyond, Opened
  <2> QED BY <1>0, <1>4, <2>1, OtherQuiet
<1>12. SyncInv'
  <2>1. CASE p # "leaveReleased"
    BY <1>0, <1>11, <2>1, QuietSync DEF LoopBody, barrierVars, workVars
  <2>2. CASE p = "leaveReleased"
    <3>1. OthersHeld(t) BY <1>1, <1>9, <2>2, MasterFinds
    <3>2. /\ Released(t)' /\ Counted(t)' /\ Counted(t) /\ ~Completed(t) /\ ~Completed(t)'
          /\ ~Opened(t) /\ ~Opened(t)'
      BY <1>0, <1>1, <1>3, <1>9, <2>2 DEF Released, Counted, Completed, Opened, Held
    <3>3. \A u \in team : Counted(u)' <=> Counted(u)
      BY <1>0, <1>11, <3>2 DEF Counted, QuietFor
    <3>4. Arrived' = Arrived /\ Remaining' = Remaining
      BY <1>0, <1>11, <3>2, <3>3 DEF Arrived, Remaining, QuietFor
    <3>5. Together'
      <4>1. \A i \in Steps : Beyond(t, i)' <=> Beyond(t, i) BY <1>3, <3>2 DEF Beyond
      <4> QED BY <1>0, <1>11, <4>1 DEF SyncInv, Together, QuietFor
    <3>6. HeldInv'
      <4>1. \A u \in team \ {t} : Held(u)' /\ at'[u] = at'[t] /\ pc'[u] = "loop"
        BY <1>2, <1>11, <3>1 DEF OthersHeld, QuietFor, Held
      <4> QED BY <1>0, <4>1 DEF HeldInv, OthersHeld, Released
    <3>7. CountInv' BY <3>4 DEF SyncInv, CountInv, LoopBody, barrierVars
    <3>8. PointInv'
      BY <1>0, <1>2, <3>3 DEF SyncInv, PointInv, LoopBody, pointVars, workVars
    <3> QED BY <3>5, <3>6, <3>7, <3>8 DEF SyncInv
  <2> QED BY <2>1, <2>2
<1>13. FlagInv' BY <1>0, <1>3, <1>4 DEF FlagInv, Alone, LoopBody
<1>14. EndInv'
  <2>1. CASE p = "leave" /\ at[t] = Complete
    <3>1. Remaining = {} BY <1>9, <2>1, CountFacts DEF SyncInv, CountInv
    <3>2. \A u \in team \ {t} : pc[u] = "done"
      <4> SUFFICES ASSUME NEW u \in team \ {t} PROVE pc[u] = "done" OBVIOUS
      <4>1. Completed(u) BY <3>1 DEF Remaining
      <4>2. pc[u] # "loop" BY <1>0, <1>9, <2>1, <4>1 DEF PlaceInv, PlaceOf, Completed
      <4>3. pc[u] # "leave" BY <1>0 DEF MutexInv, MutexOf, HasMutex
      <4> QED BY <4>1, <4>2, <4>3 DEF Completed
    <3> QED BY <1>0, <1>4, <1>9, <2>1, <3>2 DEF EndInv, Alone
  <2>2. CASE ~(p = "leave" /\ at[t] = Complete)
    BY <1>0, <1>3, <1>4, <1>9, <2>2 DEF EndInv, Alone, Held
  <2> QED BY <2>1, <2>2
<1>15. WorkInv'
  <2>1. \A i \in Steps, k \in 0..(Units - 1) :
           /\ InSection(t, i, k)' <=> InSection(t, i, k)
           /\ Beyond(t, i)' <=> Beyond(t, i)
    BY <1>0, <1>3, <1>9 DEF InSection, Beyond, Opened, Held
  <2>2. SectionsStay
    BY <1>0, <1>4, <1>11, <2>1, SectionsOf DEF InSection, Alone, QuietFor, IsBarrier
  <2>3. \A u \in team : StaysOrLeaves(u) BY <1>2 DEF StaysOrLeaves
  <2> QED BY <1>0, <1>7, <2>2, <2>3, WorkStays DEF LoopBody
<1> QED BY <1>6, <1>7, <1>10, <1>12, <1>13, <1>14, <1>15

-----------------------------------------------------------------------------
(* The thread that is alone, and the release. *)

LEMMA CallAloneStep ==
    ASSUME IInv, NEW t \in team, CallAlone(t)
    PROVE  IInv'
<1> USE DEF IInv
<1>0. /\ team' = team /\ team \subseteq Threads /\ t \in Threads /\ team = {Master} /\ t = Master
      /\ ~Several /\ ~Several' /\ synchronizeIndex' = synchronizeIndex /\ PlaceOf(t)
  BY TeamFacts DEF CallAlone, Several, totalThreadCount, PlaceInv
<1>1. /\ at[t] \in 1..Complete /\ pc[t] = "run" /\ unit[t] = 0
      /\ at[t] = Complete <=> Kind(t) = "complete"
      /\ at[t] # Complete => at[t] \in Steps /\ Kind(t) = Program[at[t]] /\ Program[at[t]] # "work"
  BY <1>0, StepKind DEF CallAlone, PlaceOf
<1>2. \/ /\ at[t] # Complete /\ Program[at[t]] = "sync" /\ at' = [at EXCEPT ![t] = at[t] + 1]
         /\ pc' = [pc EXCEPT ![t] = "run"] /\ UNCHANGED <<synchronized, threadCount>>
      \/ /\ at[t] # Complete /\ Program[at[t]] \in {"master", "single"} /\ at' = at
         /\ pc' = [pc EXCEPT ![t] = "section"] /\ synchronized' = TRUE /\ UNCHANGED threadCount
      \/ /\ at[t] = Complete /\ at' = at /\ pc' = [pc EXCEPT ![t] = "done"]
         /\ threadCount' = threadCount - 1 /\ UNCHANGED synchronized
  BY <1>1 DEF CallAlone, NextStep, Goto
<1>3. Alone(t) /\ OnlyGoes(t)
  BY <1>0, <1>2 DEF CallAlone, Alone, OnlyGoes, workVars, TypeOK
<1>4. \/ at[t] \in Steps /\ Program[at[t]] = "sync" /\ at'[t] = at[t] + 1 /\ pc'[t] = "run"
      \/ at[t] \in Steps /\ Program[at[t]] \in {"master", "single"} /\ at'[t] = at[t] /\ pc'[t] = "section"
      \/ at[t] = Complete /\ at'[t] = at[t] /\ pc'[t] = "done"
  BY <1>0, <1>1, <1>2 DEF TypeOK
<1>5. unit'[t] = unit[t] BY DEF CallAlone, workVars
<1>6. MutexInv' /\ Mutex!TypeOK'
  BY <1>0, <1>1, <1>3, <1>4, MutexStays DEF CallAlone, HasMutex
<1>7. Remaining = {t} /\ threadCount = 1
  <2>1. Remaining = {t} BY <1>0, <1>1 DEF Remaining, Completed
  <2> QED BY <2>1, FS_Singleton DEF SyncInv, CountInv
<1>8. threadCount' = Cardinality(Remaining')
  <2>1. CASE at[t] = Complete
    <3>1. threadCount' = 0 BY <1>2, <1>7, <2>1
    <3>2. pc'[t] = "done" /\ at'[t] = Complete BY <1>4, <2>1, ProgramFacts
    <3>3. Remaining' = {} BY <1>0, <3>2 DEF Remaining, Completed
    <3> QED BY <3>1, <3>3, FS_EmptySet
  <2>2. CASE at[t] # Complete
    <3>1. Remaining' = {t} /\ threadCount' = 1
      BY <1>0, <1>1, <1>2, <1>4, <1>7, <2>2 DEF Remaining, Completed
    <3> QED BY <3>1, FS_Singleton
  <2> QED BY <2>1, <2>2
<1>9. TypeOK'
  <2>1. synchronized' \in BOOLEAN BY <1>2, Zenon DEF TypeOK
  <2>2. pc' \in [Threads -> Places] BY <1>0, <1>2 DEF TypeOK, Places
  <2>3. at' \in [Threads -> 1..Complete]
    <3>1. at \in [Threads -> 1..Complete] BY DEF TypeOK
    <3>2. at[t] # Complete => at[t] + 1 \in 1..Complete BY <1>1, ProgramFacts
    <3> QED BY <1>0, <1>2, <3>1, <3>2
  <2>4. threadCount' \in 0..totalThreadCount
    <3>1. totalThreadCount \in Nat /\ totalThreadCount >= 1 BY TeamFacts
    <3>2. threadCount' \in {0, 1} BY <1>2, <1>7
    <3> QED BY <3>1, <3>2
  <2> QED BY <1>0, <1>6, <2>1, <2>2, <2>3, <2>4
       DEF CallAlone, TypeOK, totalThreadCount, pointVars, workVars
<1>10. PlaceInv'
  <2>1. PlaceOf(t)' BY <1>0, <1>1, <1>4, <1>5, ProgramFacts DEF PlaceOf, Released, Kind
  <2> QED BY <1>0, <1>3, <2>1, OtherPlace DEF PlaceInv
<1>11. SyncInv' BY <1>0, <1>8, AloneSync DEF CallAlone
<1>12. FlagInv'
  <2>1. CASE pc'[t] = "section"
    <3>1. synchronized' = TRUE BY <1>2, <1>4, <2>1, ProgramFacts
    <3> QED BY <1>0, <2>1, <3>1, Zenon DEF FlagInv
  <2>2. CASE pc'[t] # "section"
    <3>1. synchronized' = synchronized /\ pc'[t] \in {"run", "done"} BY <1>2, <1>4, <2>2, ProgramFacts
    <3> QED BY <1>0, <1>1, <3>1 DEF FlagInv
  <2> QED BY <2>1, <2>2
<1>13. EndInv' BY <1>0 DEF EndInv
<1>14. WorkInv'
  <2>1. SectionsStay
    <3>1. ASSUME NEW i \in Steps, NEW k \in 0..(Units - 1), Program[i] \in {"master", "single"}
          PROVE  /\ Beyond(t, i)' <=> Beyond(t, i)
                 /\ ~InSection(t, i, k)' /\ ~InSection(t, i, k)
      BY <1>1, <1>4, <1>5, <3>1, ProgramFacts, ProgramAssumption DEF Beyond, Opened, InSection
    <3> QED BY <1>0, <3>1, SectionsOf
  <2>2. \A u \in team : StaysOrLeaves(u)
    BY <1>0, <1>1, <1>4 DEF StaysOrLeaves
  <2> QED BY <1>0, <1>9, <2>1, <2>2, WorkStays DEF CallAlone
<1> QED BY <1>6, <1>9, <1>10, <1>11, <1>12, <1>13, <1>14

LEMMA ReleaseStep ==
    ASSUME IInv, NEW t \in team, Release(t)
    PROVE  IInv'
<1> USE DEF IInv
<1>0. /\ team' = team /\ team \subseteq Threads /\ t \in Threads /\ Master \in team
      /\ (Several' <=> Several) /\ synchronizeIndex' = synchronizeIndex /\ PlaceOf(t)
      /\ (~Several => team = {t}) /\ synchronized' = FALSE /\ (Several <=> ~(totalThreadCount = 1))
  BY TeamFacts DEF Release, barrierVars, Several, totalThreadCount, PlaceInv
<1>1. /\ at[t] \in Steps /\ at[t] # Complete /\ pc[t] = "release" /\ unit[t] = 0
      /\ Program[at[t]] # "work" /\ Released(t)
  BY <1>0, StepKind DEF Release, PlaceOf, Released
<1>2. \/ ~Several /\ at' = [at EXCEPT ![t] = at[t] + 1] /\ pc' = [pc EXCEPT ![t] = "run"]
      \/ Several /\ at' = at /\ pc' = [pc EXCEPT ![t] = "releaseWant"]
  BY <1>0, <1>1 DEF Release, NextStep, Goto, Several
<1>3. /\ \/ ~Several /\ at'[t] = at[t] + 1 /\ pc'[t] = "run"
         \/ Several /\ at'[t] = at[t] /\ pc'[t] = "releaseWant"
      /\ unit'[t] = unit[t] /\ index'[t] = index[t]
  BY <1>0, <1>2 DEF TypeOK, Release, workVars
<1>4. Alone(t) /\ OnlyGoes(t)
  BY <1>0, <1>2 DEF Release, Alone, OnlyGoes, workVars, TypeOK
<1>5. MutexInv' /\ Mutex!TypeOK'
  BY <1>0, <1>1, <1>3, <1>4, MutexStays DEF Release, HasMutex
<1>6. TypeOK'
  <2>1. synchronized' \in BOOLEAN BY <1>0, Zenon
  <2>2. pc' \in [Threads -> Places] BY <1>0, <1>2 DEF TypeOK, Places
  <2>3. at' \in [Threads -> 1..Complete]
    <3>1. at[t] + 1 \in 1..Complete BY <1>1, ProgramFacts DEF Steps
    <3>2. at \in [Threads -> 1..Complete] BY DEF TypeOK
    <3> QED BY <1>0, <1>2, <3>1, <3>2
  <2> QED BY <1>0, <1>5, <2>1, <2>2, <2>3
       DEF Release, TypeOK, totalThreadCount, pointVars, barrierVars, workVars
<1>7. PlaceInv'
  <2>1. PlaceOf(t)' BY <1>0, <1>1, <1>3, ProgramFacts DEF PlaceOf, Released, Kind
  <2> QED BY <1>0, <1>4, <2>1, OtherPlace DEF PlaceInv
<1>8. SyncInv'
  <2>1. CASE Several
    <3>1. QuietFor(t)
      BY <1>0, <1>1, <1>3, <2>1 DEF QuietFor, Held, Released, Completed, Beyond, Opened
    <3>2. \A u \in team : QuietFor(u) BY <1>0, <1>4, <3>1, OtherQuiet
    <3> QED BY <1>0, <3>2, QuietSync DEF Release, barrierVars, workVars
  <2>2. CASE ~Several
    <3>1. Remaining = {t} /\ Remaining' = {t}
      BY <1>0, <1>1, <1>3, <2>2 DEF Remaining, Completed
    <3> QED BY <1>0, <2>2, <3>1, AloneSync DEF Release, barrierVars, SyncInv, CountInv
  <2> QED BY <2>1, <2>2
<1>9. FlagInv'
  <2>1. \A u \in team \ {t} : pc'[u] = "loop"
    BY <1>0, <1>1, <1>4 DEF SyncInv, HeldInv, OthersHeld, Held, OnlyGoes
  <2> QED BY <1>0, <1>3, <2>1 DEF FlagInv
<1>10. EndInv'
  <2>1. CASE ~Several BY <1>0, <2>1, TeamFacts DEF EndInv
  <2>2. CASE Several BY <1>0, <1>1, <1>2, <1>3, <1>4, <2>2 DEF EndInv, Alone
  <2> QED BY <2>1, <2>2
<1>11. WorkInv'
  <2>1. SectionsStay
    <3>1. \A i \in Steps, k \in 0..(Units - 1) :
             (Beyond(t, i) \/ InSection(t, i, k))' <=> (Beyond(t, i) \/ InSection(t, i, k))
      BY <1>1, <1>3, ProgramFacts DEF Beyond, Opened, InSection
    <3>2. \A u \in team \ {t}, i \in Steps, k \in 0..(Units - 1) :
             (Beyond(u, i) \/ InSection(u, i, k))' <=> (Beyond(u, i) \/ InSection(u, i, k))
      BY <1>0, <1>4 DEF Alone, Beyond, Opened, InSection
    <3> QED BY <1>0, <3>1, <3>2, SectionsOf
  <2>2. \A u \in team : StaysOrLeaves(u)
    BY <1>0, <1>1, <1>3, <1>4 DEF StaysOrLeaves, Alone
  <2> QED BY <1>0, <1>6, <2>1, <2>2, WorkStays DEF Release
<1> QED BY <1>5, <1>6, <1>7, <1>8, <1>9, <1>10, <1>11

-----------------------------------------------------------------------------
(* Work units. *)

\* A turn of a loop of run(), by one of several threads: the thread takes a new number
\* when it has got past its last one, and handles the unit when the numbers meet.
LEMMA SharedTurn ==
    ASSUME IInv, NEW t \in team, HandleNextWorkUnit(t), Several, pc[t] = "run", Kind(t) = "work", TypeOK',
           Alone(t), SectionsStay,
           \/ unit[t] + 1 # Units /\ at'[t] = at[t] /\ unit'[t] = unit[t] + 1
           \/ unit[t] + 1 = Units /\ at'[t] = at[t] + 1 /\ unit'[t] = 0
    PROVE  WorkInv'
<1> USE DEF IInv
<1>0. /\ team' = team /\ team \subseteq Threads /\ t \in Threads /\ Master \in team
      /\ Several' /\ totalThreadCount # 1
  BY TeamFacts DEF Alone, Several, totalThreadCount
<1>1. at[t] \in Steps /\ Program[at[t]] = "work" /\ unit[t] \in 0..(Units - 1)
  BY <1>0, StepKind DEF TypeOK
<1>2. ~synchronized
  <2>1. \A u \in team : pc[u] \in {"section", "release"} => Released(u) BY DEF Released
  <2> QED BY <2>1 DEF FlagInv, SyncInv, HeldInv, OthersHeld, Held
<1>3. ~HandlesAll BY <1>0, <1>2 DEF HandlesAll
<1> DEFINE me == env[t].workUnitIndex
           n == ToHandle(t)
<1>4. /\ env' = [env EXCEPT ![t] = [workUnitIndex |-> me + 1, workUnitToHandle |-> n]]
      /\ workUnitIndex' = IF me > env[t].workUnitToHandle THEN workUnitIndex + 1 ELSE workUnitIndex
      /\ handled' = IF me = n THEN [handled EXCEPT ![at[t]][unit[t]] = @ + 1] ELSE handled
  BY <1>3 DEF HandleNextWorkUnit
<1>5. /\ workUnitIndex \in Nat
      /\ \A u \in team : env[u].workUnitIndex \in Nat /\ env[u].workUnitToHandle \in Nat
  BY <1>0 DEF TypeOK
<1>6. /\ env'[t].workUnitIndex = me + 1 /\ env'[t].workUnitToHandle = n
      /\ \A u \in team \ {t} : env'[u] = env[u]
  BY <1>0, <1>4 DEF TypeOK
<1>7. me = Number(at[t], unit[t]) BY <1>0 DEF WorkInv, SeenInv
<1>8. /\ n \in Nat /\ me <= n /\ n <= workUnitIndex' /\ workUnitIndex' \in Nat
      /\ me > env[t].workUnitToHandle => n = workUnitIndex + 1 /\ workUnitIndex' = n
      /\ ~(me > env[t].workUnitToHandle) => n = env[t].workUnitToHandle /\ workUnitIndex' = workUnitIndex
  BY <1>0, <1>4, <1>5 DEF ToHandle, WorkInv, ClaimInv
<1>9. Pending(t)' <=> me # n
  BY <1>5, <1>6, <1>8 DEF Pending
<1>10. \A u \in team \ {t} : Pending(u)' <=> Pending(u) BY <1>6 DEF Pending
\* Nobody else has, or will have, the number of t.
<1>11. \A u \in team \ {t} : Pending(u) => env[u].workUnitToHandle # n
  <2> SUFFICES ASSUME NEW u \in team \ {t}, Pending(u) PROVE env[u].workUnitToHandle # n OBVIOUS
  <2>1. CASE me > env[t].workUnitToHandle
    BY <1>5, <1>8, <2>1 DEF WorkInv, ClaimInv
  <2>2. CASE ~(me > env[t].workUnitToHandle)
    <3>1. Pending(t) BY <1>5, <2>2 DEF Pending
    <3> QED BY <1>8, <2>2, <3>1 DEF WorkInv, ClaimInv
  <2> QED BY <2>1, <2>2
<1>12. SeenInv'
  <2>1. \A u \in team \ {t} : Kind(u)' = Kind(u) /\ at'[u] = at[u] /\ unit'[u] = unit[u]
    BY <1>0 DEF Alone, Kind
  <2>2. env'[t].workUnitIndex = Number(at'[t], IF Kind(t)' = "work" THEN unit'[t] ELSE 0)
    <3>1. CASE unit[t] + 1 # Units
      <4>1. Kind(t)' = "work" /\ at'[t] = at[t] /\ unit'[t] = unit[t] + 1 BY <3>1 DEF Kind
      <4>2. UnitsBefore(at[t]) \in Nat BY <1>1, UnitsNext
      <4> QED BY <1>1, <1>6, <1>7, <4>1, <4>2, ProgramAssumption DEF Number
    <3>2. CASE unit[t] + 1 = Units
      <4>1. at'[t] = at[t] + 1 /\ unit'[t] = 0 BY <3>2
      <4>2. /\ UnitsBefore(at[t]) \in Nat
            /\ UnitsBefore(at[t] + 1) = UnitsBefore(at[t]) + Units
        BY <1>1, UnitsNext
      <4>3. (IF Kind(t)' = "work" THEN unit'[t] ELSE 0) = 0 BY <4>1
      <4>4. me = 1 + UnitsBefore(at[t]) + unit[t] BY <1>7 DEF Number
      <4>5. Number(at'[t], 0) = 1 + UnitsBefore(at[t] + 1) + 0 BY <4>1 DEF Number
      <4>6. env'[t].workUnitIndex = me + 1 BY <1>6
      <4>7. Units \in Nat /\ unit[t] \in Nat BY <1>1, ProgramAssumption
      <4>8. Number(at'[t], 0) = me + 1 BY <3>2, <4>2, <4>4, <4>5, <4>7
      <4> QED BY <4>3, <4>6, <4>8
    <3> QED BY <3>1, <3>2
  <2>3. \A u \in team \ {t} :
           env'[u].workUnitIndex = Number(at'[u], IF Kind(u)' = "work" THEN unit'[u] ELSE 0)
    BY <1>6, <2>1 DEF WorkInv, SeenInv
  <2> QED BY <1>0, <2>2, <2>3 DEF SeenInv
<1>13. ClaimInv'
  <2>1. ASSUME NEW u \in team
        PROVE  /\ env'[u].workUnitIndex <= workUnitIndex' + 1
               /\ env'[u].workUnitToHandle <= workUnitIndex'
    <3>1. CASE u = t BY <1>5, <1>6, <1>8, <3>1
    <3>2. CASE u # t BY <1>5, <1>6, <1>8, <3>2 DEF WorkInv, ClaimInv
    <3> QED BY <3>1, <3>2
  <2>2. ASSUME NEW u \in team, NEW v \in team \ {u}, Pending(u)', Pending(v)'
        PROVE  env'[u].workUnitToHandle # env'[v].workUnitToHandle
    <3>1. CASE u = t BY <1>6, <1>10, <1>11, <2>2, <3>1
    <3>2. CASE v = t BY <1>6, <1>10, <1>11, <2>2, <3>2
    <3>3. CASE u # t /\ v # t BY <1>6, <1>10, <2>2, <3>3 DEF WorkInv, ClaimInv
    <3> QED BY <3>1, <3>2, <3>3
  <2> QED BY <1>0, <2>1, <2>2 DEF ClaimInv
<1>14. LoopUnits'
  <2> SUFFICES ASSUME NEW i \in Steps, NEW k \in 0..(Units - 1), Program[i] = "work"
               PROVE  handled'[i][k] = IF LoopDone(i, k)' THEN 1 ELSE 0
    BY DEF LoopUnits
  <2>0. /\ Number(i, k) \in Nat /\ Number(i, k)' = Number(i, k)
        /\ handled[i][k] = IF LoopDone(i, k) THEN 1 ELSE 0
    <3>1. UnitsBefore(i) \in Nat BY UnitsNext
    <3>2. Number(i, k) \in Nat BY <3>1, ProgramAssumption DEF Number
    <3> QED BY <3>2 DEF WorkInv, LoopUnits, Number, UnitsBefore, LoopsBefore
  <2> DEFINE m == Number(i, k)
  <2>1. LoopDone(i, k)' <=> m <= workUnitIndex' /\ ~IsPending(m)'
    BY <1>0, <2>0 DEF LoopDone, IsPending
  <2>2. LoopDone(i, k) <=> m <= workUnitIndex /\ ~IsPending(m)
    BY DEF LoopDone
  <2>3. CASE i = at[t] /\ k = unit[t] /\ me = n
    <3>1. m = n BY <1>7, <2>3
    <3>2. ~IsPending(m)'
      <4>1. IsPending(m)' <=> \E u \in team : Pending(u)' /\ env'[u].workUnitToHandle = m
        BY <1>0, <2>0 DEF IsPending
      <4> QED BY <1>6, <1>9, <1>10, <1>11, <2>3, <3>1, <4>1
    <3>3. ~LoopDone(i, k)
      <4>1. CASE me > env[t].workUnitToHandle BY <1>5, <1>8, <2>2, <3>1, <4>1
      <4>2. CASE ~(me > env[t].workUnitToHandle)
        <5>1. Pending(t) /\ env[t].workUnitToHandle = n BY <1>5, <1>8, <4>2 DEF Pending
        <5> QED BY <2>2, <3>1, <5>1 DEF IsPending
      <4> QED BY <4>1, <4>2
    <3>4. handled'[i][k] = handled[i][k] + 1
      BY <1>0, <1>1, <1>4, <2>3 DEF TypeOK
    <3> QED BY <1>8, <2>0, <2>1, <3>1, <3>2, <3>3, <3>4
  <2>4. CASE ~(i = at[t] /\ k = unit[t] /\ me = n)
    <3>1. handled'[i][k] = handled[i][k]
      BY <1>0, <1>1, <1>4, <2>4 DEF TypeOK
    <3>2. m = me => me # n
      BY <1>1, <1>7, <2>4, NumbersDiffer
    <3>3. IsPending(m)' <=> (Pending(t)' /\ n = m) \/ \E u \in team \ {t} : Pending(u) /\ env[u].workUnitToHandle = m
      <4>1. IsPending(m)' <=> \E u \in team : Pending(u)' /\ env'[u].workUnitToHandle = m
        BY <1>0, <2>0 DEF IsPending
      <4> QED BY <1>6, <1>10, <4>1
    <3>4. IsPending(m) <=> (Pending(t) /\ env[t].workUnitToHandle = m)
                           \/ \E u \in team \ {t} : Pending(u) /\ env[u].workUnitToHandle = m
      BY DEF IsPending
    <3>5. LoopDone(i, k)' <=> LoopDone(i, k)
      <4>1. CASE me > env[t].workUnitToHandle
        <5>1. ~Pending(t) /\ n = workUnitIndex + 1 /\ workUnitIndex' = n
          BY <1>5, <1>8, <4>1 DEF Pending
        <5>2. m = n => Pending(t)' BY <1>9, <3>2
        <5>3. ~(n <= workUnitIndex) BY <1>5, <5>1
        <5>4. m # n => (m <= workUnitIndex' <=> m <= workUnitIndex) BY <1>5, <2>0, <5>1
        <5> QED BY <2>1, <2>2, <3>3, <3>4, <5>1, <5>2, <5>3, <5>4
      <4>2. CASE ~(me > env[t].workUnitToHandle)
        <5>1. Pending(t) /\ n = env[t].workUnitToHandle /\ workUnitIndex' = workUnitIndex
          BY <1>5, <1>8, <4>2 DEF Pending
        <5>2. m = n => Pending(t)' BY <1>9, <3>2
        <5> QED BY <2>1, <2>2, <3>3, <3>4, <5>1, <5>2
      <4> QED BY <4>1, <4>2
    <3> QED BY <2>0, <3>1, <3>5
  <2> QED BY <2>3, <2>4
<1>15. SectionUnits'
  <2> SUFFICES ASSUME NEW i \in Steps, NEW k \in 0..(Units - 1), Program[i] # "work"
               PROVE  handled'[i][k] = handled[i][k]
    BY DEF WorkInv, SectionUnits, SectionsStay
  <2> QED BY <1>0, <1>1, <1>4 DEF TypeOK
<1> QED BY <1>12, <1>13, <1>14, <1>15 DEF WorkInv

\* A turn of a thread that handles every unit itself: it is alone, or it was released.
LEMMA OwnTurn ==
    ASSUME IInv, NEW t \in team, HandleNextWorkUnit(t), HandlesAll, TypeOK', Alone(t),
           at[t] \in Steps, unit[t] \in 0..(Units - 1),
           \/ ~Several /\ pc[t] = "run" /\ Program[at[t]] = "work" /\ SectionsStay
           \/ /\ pc[t] = "section" /\ at'[t] = at[t] /\ Program[at[t]] \in {"master", "single"}
              /\ pc'[t] = IF unit[t] + 1 = Units THEN "release" ELSE "section",
           \/ unit[t] + 1 # Units /\ at'[t] = at[t] /\ unit'[t] = unit[t] + 1
           \/ unit[t] + 1 = Units /\ unit'[t] = 0 /\ (pc[t] = "run" => at'[t] = at[t] + 1)
    PROVE  WorkInv'
<1> USE DEF IInv
<1>0. /\ team' = team /\ team \subseteq Threads /\ t \in Threads /\ Master \in team
      /\ (Several' <=> Several) /\ (~Several => team = {t} /\ t = Master)
  BY TeamFacts DEF Alone, Several, totalThreadCount
<1>1. /\ UNCHANGED <<env, workUnitIndex>>
      /\ handled' = [handled EXCEPT ![at[t]][unit[t]] = @ + 1]
  BY DEF HandleNextWorkUnit
<1>2. SeenInv'
  <2> SUFFICES ASSUME Several, NEW u \in team
               PROVE  Number(at[u], IF Kind(u) = "work" THEN unit[u] ELSE 0) =
                      Number(at'[u], IF Kind(u)' = "work" THEN unit'[u] ELSE 0)
    BY <1>0, <1>1 DEF WorkInv, SeenInv
  <2>1. CASE u # t BY <1>0, <2>1 DEF Alone, Kind
  <2>2. CASE u = t
    <3>1. at'[t] = at[t] /\ Program[at[t]] # "work" OBVIOUS
    <3>2. Kind(t) # "work" /\ Kind(t)' # "work" BY <1>0, <3>1, ProgramFacts DEF Kind
    <3> QED BY <2>2, <3>1, <3>2
  <2> QED BY <2>1, <2>2
<1>3. ClaimInv' BY <1>0, <1>1 DEF WorkInv, ClaimInv, Pending
<1>4. LoopUnits'
  <2> SUFFICES ASSUME NEW i \in Steps, NEW k \in 0..(Units - 1), Program[i] = "work"
               PROVE  handled'[i][k] = IF LoopDone(i, k)' THEN 1 ELSE 0
    BY DEF LoopUnits
  <2>0. handled[i][k] = IF LoopDone(i, k) THEN 1 ELSE 0 BY DEF WorkInv, LoopUnits
  <2>1. CASE Several
    <3>1. handled'[i][k] = handled[i][k] BY <1>0, <1>1, <2>1 DEF TypeOK
    <3>2. LoopDone(i, k)' <=> LoopDone(i, k)
      BY <1>0, <1>1, <2>1 DEF LoopDone, IsPending, Pending, Number, UnitsBefore, LoopsBefore
    <3> QED BY <2>0, <3>1, <3>2
  <2>2. CASE ~Several
    <3>0. /\ LoopDone(i, k) <=> at[t] > i \/ (at[t] = i /\ k < unit[t])
          /\ LoopDone(i, k)' <=> at'[t] > i \/ (at'[t] = i /\ k < unit'[t])
      BY <1>0, <2>2 DEF LoopDone
    <3>1. CASE i = at[t] /\ k = unit[t]
      <4>1. handled'[i][k] = handled[i][k] + 1 BY <1>0, <1>1, <3>1 DEF TypeOK
      <4>2. ~LoopDone(i, k) BY <3>0, <3>1, ProgramFacts, ProgramAssumption
      <4>3. LoopDone(i, k)' BY <3>0, <3>1, ProgramFacts, ProgramAssumption
      <4> QED BY <2>0, <4>1, <4>2, <4>3
    <3>2. CASE ~(i = at[t] /\ k = unit[t])
      <4>1. handled'[i][k] = handled[i][k] BY <1>0, <1>1, <3>2 DEF TypeOK
      <4>2. LoopDone(i, k)' <=> LoopDone(i, k)
        <5>0. i \in Nat /\ at[t] \in Nat /\ Units \in Nat /\ unit[t] \in Nat
          BY ProgramFacts, ProgramAssumption
        <5>1. at'[t] = at[t] \/ (at'[t] = at[t] + 1 /\ unit[t] + 1 = Units) OBVIOUS
        <5>2. CASE i = at[t]
          <6>1. pc[t] = "run" /\ k # unit[t] BY <3>2, <5>2
          <6> QED BY <3>0, <5>0, <5>2, <6>1, ProgramAssumption
        <5>3. CASE i # at[t]
          BY <3>0, <5>0, <5>1, <5>3
        <5> QED BY <5>2, <5>3
      <4> QED BY <2>0, <4>1, <4>2
    <3> QED BY <3>1, <3>2
  <2> QED BY <2>1, <2>2
<1>5. SectionUnits'
  <2>1. CASE pc[t] = "run"
    <3>1. SectionsStay /\ Program[at[t]] = "work" BY <2>1
    <3>2. \A i \in Steps, k \in 0..(Units - 1) : Program[i] # "work" => handled'[i][k] = handled[i][k]
      BY <1>0, <1>1, <3>1 DEF TypeOK
    <3> QED BY <3>1, <3>2 DEF WorkInv, SectionUnits, SectionsStay
  <2>2. CASE pc[t] = "section"
    <3>0. /\ at'[t] = at[t] /\ Program[at[t]] \in {"master", "single"}
          /\ pc'[t] = IF unit[t] + 1 = Units THEN "release" ELSE "section"
          /\ unit[t] + 1 # Units => unit'[t] = unit[t] + 1
      BY <2>2
    \* The others are held at the point: nothing of the section is done by them.
    <3>1. \A u \in team \ {t} : at[u] = at[t] /\ pc[u] = "loop" /\ ~Opened(u)
      <4>1. Released(t) BY <2>2 DEF Released
      <4> QED BY <1>0, <4>1 DEF SyncInv, HeldInv, OthersHeld, Held, Opened
    <3>2. ASSUME NEW i \in Steps, NEW k \in 0..(Units - 1), Program[i] \in {"master", "single"}
          PROVE  /\ SectionDone(i, k) <=> at[t] > i \/ (at[t] = i /\ k < unit[t])
                 /\ SectionDone(i, k)' <=> at[t] > i \/ (at[t] = i /\ k < unit[t] + 1)
      <4>1. \A u \in team \ {t} :
               /\ Beyond(u, i) <=> at[t] > i
               /\ Beyond(u, i)' <=> at[t] > i
               /\ ~InSection(u, i, k) /\ ~InSection(u, i, k)'
        BY <1>0, <3>1 DEF Alone, Beyond, Opened, InSection
      <4>2. /\ Beyond(t, i) <=> at[t] > i
            /\ Beyond(t, i)' <=> at[t] > i
            /\ InSection(t, i, k) <=> at[t] = i /\ k < unit[t]
        BY <2>2, <3>0 DEF Beyond, Opened, InSection
      <4>3. InSection(t, i, k)' <=> at[t] = i /\ k < unit[t] + 1
        BY <2>2, <3>0, ProgramAssumption DEF InSection
      <4>4. SectionDone(i, k) <=> \E u \in team : Beyond(u, i) \/ InSection(u, i, k) BY DEF SectionDone
      <4>5. SectionDone(i, k)' <=> \E u \in team : Beyond(u, i)' \/ InSection(u, i, k)'
        BY <1>0 DEF SectionDone
      <4> QED BY <4>1, <4>2, <4>3, <4>4, <4>5
    <3>3. ASSUME NEW i \in Steps, NEW k \in 0..(Units - 1), Program[i] \in {"master", "single"}
          PROVE  handled'[i][k] = IF SectionDone(i, k)' THEN 1 ELSE 0
      <4>0. handled[i][k] = IF SectionDone(i, k) THEN 1 ELSE 0 BY <3>3 DEF WorkInv, SectionUnits
      <4>1. CASE i = at[t] /\ k = unit[t]
        <5>1. handled'[i][k] = handled[i][k] + 1 BY <1>0, <1>1, <4>1 DEF TypeOK
        <5>2. ~SectionDone(i, k) /\ SectionDone(i, k)'
          BY <3>2, <3>3, <4>1, ProgramFacts, ProgramAssumption
        <5> QED BY <4>0, <5>1, <5>2
      <4>2. CASE ~(i = at[t] /\ k = unit[t])
        <5>1. handled'[i][k] = handled[i][k] BY <1>0, <1>1, <4>2 DEF TypeOK
        <5>2. SectionDone(i, k)' <=> SectionDone(i, k)
          BY <3>2, <3>3, <4>2, ProgramFacts, ProgramAssumption
        <5> QED BY <4>0, <5>1, <5>2
      <4> QED BY <4>1, <4>2
    <3>4. \A i \in Steps, k \in 0..(Units - 1) : Program[i] = "sync" => handled'[i][k] = 0
      BY <1>0, <1>1, <3>0 DEF WorkInv, SectionUnits, TypeOK
    <3> QED BY <3>3, <3>4 DEF SectionUnits
  <2> QED BY <2>1, <2>2
<1> QED BY <1>2, <1>3, <1>4, <1>5 DEF WorkInv

LEMMA HandleNextWorkUnitStep ==
    ASSUME IInv, NEW t \in team, HandleNextWorkUnit(t)
    PROVE  IInv'
<1> USE DEF IInv
<1>0. /\ team' = team /\ team \subseteq Threads /\ t \in Threads /\ Master \in team
      /\ (Several' <=> Several) /\ synchronizeIndex' = synchronizeIndex /\ PlaceOf(t)
      /\ (Several <=> ~(totalThreadCount = 1)) /\ (~Several => team = {Master})
  BY TeamFacts DEF HandleNextWorkUnit, barrierVars, Several, totalThreadCount, PlaceInv
<1>1. /\ at[t] \in Steps /\ at[t] # Complete /\ unit[t] \in 0..(Units - 1)
      /\ \/ pc[t] = "run" /\ Program[at[t]] = "work" /\ Kind(t) = "work"
         \/ pc[t] = "section" /\ Program[at[t]] \in {"master", "single"}
  BY <1>0, StepKind DEF HandleNextWorkUnit, PlaceOf, Released, TypeOK
<1>2. /\ unit' = [unit EXCEPT ![t] = IF unit[t] + 1 = Units THEN 0 ELSE unit[t] + 1]
      /\ \/ /\ pc[t] = "run"
            /\ \/ unit[t] + 1 = Units /\ at' = [at EXCEPT ![t] = at[t] + 1] /\ pc' = [pc EXCEPT ![t] = "run"]
               \/ unit[t] + 1 # Units /\ UNCHANGED <<pc, at>>
         \/ /\ pc[t] = "section" /\ UNCHANGED at
            /\ pc' = [pc EXCEPT ![t] = IF unit[t] + 1 = Units THEN "release" ELSE "section"]
  BY <1>1 DEF HandleNextWorkUnit, NextStep, Goto
<1>3. /\ unit'[t] = (IF unit[t] + 1 = Units THEN 0 ELSE unit[t] + 1) /\ index'[t] = index[t]
      /\ \/ /\ pc[t] = "run" /\ pc'[t] = "run"
            /\ at'[t] = IF unit[t] + 1 = Units THEN at[t] + 1 ELSE at[t]
         \/ /\ pc[t] = "section" /\ at'[t] = at[t]
            /\ pc'[t] = IF unit[t] + 1 = Units THEN "release" ELSE "section"
  BY <1>0, <1>2 DEF TypeOK, HandleNextWorkUnit
<1>4. Alone(t) /\ OnlyGoes(t)
  BY <1>0, <1>2 DEF HandleNextWorkUnit, Alone, OnlyGoes, TypeOK
<1>5. MutexInv' /\ Mutex!TypeOK'
  BY <1>0, <1>1, <1>3, <1>4, MutexStays DEF HandleNextWorkUnit, HasMutex
<1>6. TypeOK'
  <2>1. synchronized' \in BOOLEAN BY Zenon DEF HandleNextWorkUnit, TypeOK
  <2>2. pc' \in [Threads -> Places] BY <1>0, <1>2 DEF TypeOK, Places
  <2>3. at' \in [Threads -> 1..Complete]
    <3>1. at \in [Threads -> 1..Complete] BY DEF TypeOK
    <3>2. at[t] + 1 \in 1..Complete BY <1>1, ProgramFacts
    <3> QED BY <1>0, <1>2, <3>1, <3>2
  <2>4. unit' \in [Threads -> 0..(Units - 1)]
    <3>1. unit \in [Threads -> 0..(Units - 1)] BY DEF TypeOK
    <3>2. (IF unit[t] + 1 = Units THEN 0 ELSE unit[t] + 1) \in 0..(Units - 1)
      BY <1>1, ProgramAssumption
    <3> QED BY <1>2, <3>1, <3>2
  <2>5. /\ handled' \in [Steps -> [0..(Units - 1) -> Nat]]
        /\ workUnitIndex' \in Nat
    <3>1. handled \in [Steps -> [0..(Units - 1) -> Nat]] /\ workUnitIndex \in Nat BY DEF TypeOK
    <3>2. handled' = handled \/ handled' = [handled EXCEPT ![at[t]][unit[t]] = @ + 1]
      BY DEF HandleNextWorkUnit
    <3>3. workUnitIndex' \in {workUnitIndex, workUnitIndex + 1} BY DEF HandleNextWorkUnit
    <3>4. [handled[at[t]] EXCEPT ![unit[t]] = @ + 1] \in [0..(Units - 1) -> Nat]
      <4>1. \A f \in [0..(Units - 1) -> Nat], k \in 0..(Units - 1) :
               [f EXCEPT ![k] = @ + 1] \in [0..(Units - 1) -> Nat]
        OBVIOUS
      <4>2. handled[at[t]] \in [0..(Units - 1) -> Nat] BY <1>1, <3>1
      <4> QED BY <1>1, <4>1, <4>2
    <3>5. [handled EXCEPT ![at[t]][unit[t]] = @ + 1] \in [Steps -> [0..(Units - 1) -> Nat]]
      BY <1>1, <3>1, <3>4
    <3>6. workUnitIndex' \in Nat BY <3>1, <3>3
    <3> QED BY <3>1, <3>2, <3>5, <3>6
  <2>6. env' \in [Threads -> [workUnitIndex : Nat, workUnitToHandle : Nat]]
    <3>1. env \in [Threads -> [workUnitIndex : Nat, workUnitToHandle : Nat]] /\ workUnitIndex \in Nat
      BY DEF TypeOK
    <3>2. env[t].workUnitIndex + 1 \in Nat /\ ToHandle(t) \in Nat
      BY <1>0, <3>1 DEF ToHandle
    <3> QED BY <3>1, <3>2 DEF HandleNextWorkUnit
  <2> QED BY <1>0, <1>5, <2>1, <2>2, <2>3, <2>4, <2>5, <2>6
       DEF HandleNextWorkUnit, TypeOK, totalThreadCount, pointVars, barrierVars
<1>7. PlaceInv'
  <2>1. PlaceOf(t)' BY <1>0, <1>1, <1>3, ProgramFacts DEF PlaceOf, Released, Kind
  <2> QED BY <1>0, <1>4, <2>1, OtherPlace DEF PlaceInv
<1>8. \A u \in team : QuietFor(u)
  <2>1. ~Held(t) /\ ~Held(t)' /\ ~Completed(t) /\ ~Completed(t)' /\ ~Opened(t) /\ ~Opened(t)'
    BY <1>1, <1>3 DEF Held, Completed, Opened
  <2>2. (Released(t)' <=> Released(t)) /\ (Released(t) => at'[t] = at[t])
    BY <1>3 DEF Released
  <2>3. \A i \in Steps : IsBarrier(i) => (Beyond(t, i)' <=> Beyond(t, i))
    BY <1>1, <1>3, <2>1, ProgramFacts DEF Beyond, IsBarrier
  <2>4. QuietFor(t) BY <2>1, <2>2, <2>3 DEF QuietFor, Counted
  <2> QED BY <1>0, <1>4, <2>4, OtherQuiet
\* Whoever handles units by itself does not count them.
<1>9. HandlesAll <=> ~Several \/ pc[t] = "section"
  <2>1. \A u \in team : pc[u] \in {"section", "release"} => Released(u) BY DEF Released
  <2>2. pc[t] = "section" => synchronized BY DEF FlagInv
  <2>3. Several /\ pc[t] = "run" => ~synchronized
    BY <2>1 DEF FlagInv, SyncInv, HeldInv, OthersHeld, Held
  <2> QED BY <1>0, <1>1, <2>2, <2>3 DEF HandlesAll
<1>10. SyncInv'
  <2>1. \A u \in team : Counted(u) => env'[u] = env[u]
    <3>1. CASE HandlesAll BY <3>1 DEF HandleNextWorkUnit
    <3>2. CASE ~HandlesAll
      <4>1. ~Counted(t) BY <1>1, <1>9, <3>2 DEF Counted, Held, Released, Completed
      <4> QED BY <1>0, <3>2, <4>1 DEF HandleNextWorkUnit, TypeOK
    <3> QED BY <3>1, <3>2
  <2> QED BY <1>0, <1>8, <2>1, QuietSync DEF HandleNextWorkUnit, barrierVars
<1>11. FlagInv' BY <1>0, <1>3, <1>4 DEF FlagInv, Alone, HandleNextWorkUnit
<1>12. EndInv' BY <1>0, <1>1, <1>3, <1>4 DEF EndInv, Alone
<1>13. pc[t] = "run" => SectionsStay
  <2>1. \A i \in Steps, k \in 0..(Units - 1) : pc[t] = "run" => ~InSection(t, i, k) /\ ~InSection(t, i, k)'
    BY <1>3 DEF InSection
  <2>2. \A u \in team \ {t}, i \in Steps, k \in 0..(Units - 1) : InSection(u, i, k)' <=> InSection(u, i, k)
    BY <1>0, <1>4 DEF InSection, Alone
  <2> QED BY <1>0, <1>8, <2>1, <2>2, QuietSections
<1>14. WorkInv'
  <2>1. CASE HandlesAll
    <3>1. \/ ~Several /\ pc[t] = "run" /\ Program[at[t]] = "work" /\ SectionsStay
          \/ /\ pc[t] = "section" /\ at'[t] = at[t] /\ Program[at[t]] \in {"master", "single"}
             /\ pc'[t] = IF unit[t] + 1 = Units THEN "release" ELSE "section"
      BY <1>1, <1>3, <1>9, <1>13, <2>1
    <3>2. \/ unit[t] + 1 # Units /\ at'[t] = at[t] /\ unit'[t] = unit[t] + 1
          \/ unit[t] + 1 = Units /\ unit'[t] = 0 /\ (pc[t] = "run" => at'[t] = at[t] + 1)
      BY <1>3
    <3> QED BY <1>1, <1>4, <1>6, <2>1, <3>1, <3>2, OwnTurn
  <2>2. CASE ~HandlesAll
    <3>1. Several /\ pc[t] = "run" /\ Kind(t) = "work" BY <1>1, <1>9, <2>2
    <3>2. \/ unit[t] + 1 # Units /\ at'[t] = at[t] /\ unit'[t] = unit[t] + 1
          \/ unit[t] + 1 = Units /\ at'[t] = at[t] + 1 /\ unit'[t] = 0
      BY <1>3, <3>1
    <3> QED BY <1>4, <1>6, <1>13, <3>1, <3>2, SharedTurn
  <2> QED BY <2>1, <2>2
<1> QED BY <1>5, <1>6, <1>7, <1>10, <1>11, <1>12, <1>14

-----------------------------------------------------------------------------
LEMMA Unchanged ==
    ASSUME IInv, UNCHANGED vars
    PROVE  IInv'
<1> USE DEF IInv, vars, pointVars, barrierVars, mutexVars, workVars
<1>1. team' = team /\ Several' = Several /\ \A u \in team : u \in Threads
  BY TeamFacts DEF Several, totalThreadCount
<1>2. TypeOK' BY DEF TypeOK, Mutex!TypeOK, totalThreadCount
<1>3. PlaceInv' BY <1>1 DEF PlaceInv, PlaceOf, Released, Kind
<1>4. MutexInv' BY DEF MutexInv, MutexOf, HasMutex
<1>5. \A u \in team : QuietFor(u) /\ StaysOrLeaves(u)
  BY DEF QuietFor, Held, Released, Completed, Beyond, Opened, StaysOrLeaves
<1>6. SyncInv' BY <1>1, <1>5, QuietSync
<1>7. FlagInv' /\ EndInv' BY DEF FlagInv, EndInv
<1>8. SectionsStay BY <1>5, QuietSections DEF InSection
<1>9. WorkInv' BY <1>1, <1>2, <1>5, <1>8, WorkStays
<1> QED BY <1>2, <1>3, <1>4, <1>6, <1>7, <1>9

LEMMA Inductive == IInv /\ [Next]_vars => IInv'
<1> SUFFICES ASSUME IInv, [Next]_vars PROVE IInv' OBVIOUS
<1>1. ASSUME NEW t \in team, Step(t) PROVE IInv'
  BY <1>1, HandleNextWorkUnitStep, CallStep, CallAloneStep, MutexEnterStep, MutexReacquireStep,
     SyncBodyStep, MasterBodyStep, SingleBodyStep, CompleteBodyStep, LoopBodyStep, LeaveStep,
     LeaveReleasedStep, TakeStep, ReleaseStep, ReleaseBodyStep DEF Step
<1> QED BY <1>1, Unchanged DEF Next, Finished

LEMMA Invariance == Spec => []IInv
  BY InitIInv, Inductive, PTL DEF Spec

-----------------------------------------------------------------------------
(* The theorems. *)

\* For any number of threads and any program, nobody gets past a point of synchronisation
\* before everybody has come to it.
LEMMA Barrier == IInv => BarrierHolds
<1> SUFFICES ASSUME IInv, NEW t \in team, NEW i \in Steps, IsBarrier(i), PastOf(t, i), NEW u \in team
             PROVE  ArrivedAt(u, i)
  BY DEF BarrierHolds
<1> USE DEF IInv
<1>0. t \in Threads /\ u \in Threads /\ (~Several => team = {Master}) BY TeamFacts
<1>1. CASE at[t] > i
  <2>1. Beyond(u, i) BY <1>1 DEF Beyond, SyncInv, Together
  <2> QED BY <2>1 DEF Beyond, Opened, ArrivedAt
<1>2. CASE at[t] = i /\ Released(t)
  <2>1. CASE u = t BY <1>2, <2>1 DEF ArrivedAt, Released
  <2>2. CASE u # t
    <3>1. Held(u) /\ at[u] = at[t] BY <1>0, <1>2, <2>2 DEF SyncInv, HeldInv, OthersHeld
    <3> QED BY <1>2, <3>1 DEF ArrivedAt, Held
  <2> QED BY <2>1, <2>2
<1> QED BY <1>1, <1>2 DEF PastOf

\* Whatever the number of GC threads, the program of the task and the interleaving: a
\* synchronisation point lets nobody past before all have come, the thread that the
\* AndReleaseMaster and AndReleaseSingleThread variants let on runs alone until
\* releaseSynchronizedGCThreads, the master returns from complete() last, and the
\* counters keep their ranges.
THEOREM Synchronization == Spec => []SynchronizationInv
<1>1. IInv => ReleasedAlone
  <2> SUFFICES ASSUME IInv, NEW t \in team, Released(t), NEW u \in team \ {t}
               PROVE  at[u] = at[t] /\ pc[u] = "loop"
    BY DEF ReleasedAlone
  <2>1. Several BY TeamFacts DEF IInv
  <2> QED BY <2>1 DEF IInv, SyncInv, HeldInv, OthersHeld, Held
<1>2. IInv => MasterLeavesLast
  <2> SUFFICES ASSUME IInv, pc[Master] = "done" PROVE \A t \in team : pc[t] = "done"
    BY DEF MasterLeavesLast
  <2>1. Master \in Threads BY ThreadsAssumption
  <2>2. at[Master] = Complete BY <2>1 DEF IInv, PlaceInv, PlaceOf
  <2> QED BY <2>2 DEF IInv, EndInv
<1>3. IInv => SynchronizationInv BY <1>1, <1>2, Barrier DEF SynchronizationInv, IInv
<1> QED BY <1>3, Invariance, PTL

\* No assertion of ParallelTask.cpp fails, for any number of threads: all come to a point
\* with the same id and the same number of work units, although each counts for itself.
THEOREM Assertions == Spec => []AssertionsHold
<1>1. IInv => AssertionsHold
  <2> SUFFICES ASSUME IInv, NEW t \in team
               PROVE  /\ pc[t] = "in" => FirstAtPoint \/ SamePoint(t)
                      /\ pc[t] = "release" => synchronized
    BY DEF AssertionsHold
  <2> USE DEF IInv
  <2>0. team \subseteq Threads BY TeamFacts
  <2>1. pc[t] = "release" => synchronized BY DEF FlagInv
  <2>2. ASSUME pc[t] = "in", ~FirstAtPoint PROVE SamePoint(t)
    <3>1. Several BY <2>0, <2>2 DEF PlaceInv, PlaceOf
    <3>2. Arrived # {}
      BY <2>2, FS_EmptySet DEF FirstAtPoint, SyncInv, CountInv
    <3>3. PICK u \in team : Counted(u) BY <3>2 DEF Arrived
    <3>4. at[u] = at[t] BY <2>2, <3>1, <3>3, Arriving
    <3>5. Kind(u) = Kind(t) BY <3>4 DEF Kind
    <3>6. at[t] = Complete <=> Kind(t) = "complete" BY <2>0, StepKind
    <3>7. syncPointUniqueId = at[t] /\ (at[t] # Complete => syncPointWorkUnitIndex = env[u].workUnitIndex)
      BY <3>3, <3>4 DEF SyncInv, PointInv
    <3>8. at[t] # Complete => env[u].workUnitIndex = env[t].workUnitIndex
      <4>1. Kind(t) # "work" BY <2>0, <2>2 DEF PlaceInv, PlaceOf
      <4> QED BY <3>1, <3>4, <3>5, <4>1 DEF WorkInv, SeenInv
    <3> QED BY <3>6, <3>7, <3>8 DEF SamePoint
  <2> QED BY <2>1, <2>2
<1> QED BY <1>1, Invariance, PTL

\* For any number of threads, any program and any number of units: handleNextWorkUnit
\* gives no unit to two threads, and once a thread is past a later point of
\* synchronisation every unit has been handled.
THEOREM WorkShared == Spec => []UnitsHandledOnce
<1>1. IInv => UnitsHandledOnce
  <2> SUFFICES ASSUME IInv, NEW i \in Steps, NEW k \in 0..(Units - 1)
               PROVE  /\ handled[i][k] <= 1
                      /\ \A j \in Steps, t \in team :
                            i < j /\ IsBarrier(j) /\ PastOf(t, j) /\ Program[i] # "sync" => handled[i][k] = 1
    BY DEF UnitsHandledOnce
  <2> USE DEF IInv
  <2>0. team \subseteq Threads /\ Master \in team /\ (~Several => team = {Master}) BY TeamFacts
  <2>1. Program[i] \in {"work", "sync", "master", "single"} BY ProgramFacts DEF Kinds
  <2>2. handled[i][k] \in {0, 1} BY <2>1 DEF WorkInv, LoopUnits, SectionUnits
  <2>3. ASSUME NEW j \in Steps, NEW t \in team, i < j, IsBarrier(j), PastOf(t, j), Program[i] # "sync"
        PROVE  handled[i][k] = 1
    <3>1. \A u \in team : at[u] >= j /\ at[u] > i /\ at[u] \in 1..Complete
      <4>1. \A u \in team : at[u] \in 1..Complete BY <2>0, StepKind
      <4>2. \A u \in team : ArrivedAt(u, j) BY <2>3, Barrier DEF BarrierHolds
      <4> QED BY <2>3, <4>1, <4>2, ProgramFacts DEF ArrivedAt
    <3>2. CASE Program[i] = "work"
      <4>1. CASE Several
        <5>1. \A u \in team : env[u].workUnitIndex > Number(i, k) /\ Number(i, k) \in Nat
          <6> SUFFICES ASSUME NEW u \in team
                       PROVE  env[u].workUnitIndex > Number(i, k) /\ Number(i, k) \in Nat
            OBVIOUS
          <6>1. /\ UnitsBefore(i) \in Nat /\ UnitsBefore(at[u]) \in Nat
                /\ UnitsBefore(at[u]) >= UnitsBefore(i) + Units
            BY <3>1, <3>2, UnitsGrow
          <6>2. unit[u] \in 0..(Units - 1) BY <2>0 DEF TypeOK
          <6>3. env[u].workUnitIndex >= 1 + UnitsBefore(at[u])
            BY <4>1, <6>1, <6>2, ProgramAssumption DEF WorkInv, SeenInv, Number
          <6>4. env[u].workUnitIndex \in Nat BY <2>0 DEF TypeOK
          <6> QED BY <6>1, <6>3, <6>4, ProgramAssumption DEF Number
        <5>2. Number(i, k) <= workUnitIndex
          <6>1. env[Master].workUnitIndex \in Nat /\ workUnitIndex \in Nat BY <2>0 DEF TypeOK
          <6>2. env[Master].workUnitIndex <= workUnitIndex + 1 BY <2>0, <4>1 DEF WorkInv, ClaimInv
          <6> QED BY <2>0, <5>1, <6>1, <6>2
        <5>3. ~IsPending(Number(i, k))
          <6>1. \A u \in team : env[u].workUnitIndex \in Nat BY <2>0 DEF TypeOK
          <6> QED BY <5>1, <6>1 DEF IsPending, Pending
        <5>4. LoopDone(i, k) BY <4>1, <5>2, <5>3 DEF LoopDone
        <5> QED BY <3>2, <5>4 DEF WorkInv, LoopUnits
      <4>2. CASE ~Several
        <5>1. LoopDone(i, k) BY <2>0, <3>1, <4>2 DEF LoopDone
        <5> QED BY <3>2, <5>1 DEF WorkInv, LoopUnits
      <4> QED BY <4>1, <4>2
    <3>3. CASE Program[i] \in {"master", "single"}
      <4>1. SectionDone(i, k) BY <3>1 DEF SectionDone, Beyond
      <4> QED BY <3>3, <4>1 DEF WorkInv, SectionUnits
    <3> QED BY <2>1, <2>3, <3>2, <3>3
  <2> QED BY <2>2, <2>3
<1> QED BY <1>1, Invariance, PTL
=============================================================================

------------------------- MODULE WorkPacketsProofs -------------------------
(***************************************************************************)
(* Theorems about WorkPackets, for any number of threads, any heap, any    *)
(* roots and any supply of packets: packets and the objects in them are    *)
(* conserved, the wait count is exact, the end of marking is detected only *)
(* when no work is left, and marking is complete when completeScan returns.*)
(*                                                                         *)
(* The inductive invariant IInv says, beside these, what the place of a    *)
(* thread tells about its locals (Shape), who has the monitor (MonitorInv),*)
(* which packets are in which list (ListInv), and what the detection rests *)
(* on: while the last thread looks at the lists all others sleep (LastInv),*)
(* and nothing is put in a list until one of them returns from completeScan*)
(* (QuietInv).                                                             *)
(***************************************************************************)
EXTENDS WorkPackets, FiniteSetTheorems, TLAPS

-----------------------------------------------------------------------------
(* The inductive invariant. *)

Putting == {"put", "push", "pushNotify"}
OutputCalls == {"first", "second", "third"}
WorkLists == {"full", "relativelyFull", "nonEmpty"}

\* pushFailed has an element to push; the search for an input packet; the task ends.
Pushing(e) == e.pc = "pushItem" \/ e.call \in {"pushFailed", "overflowed"} \cup OutputCalls
Looking(e) == e.call \in {"get", "last", "waiting"} \/ (e.call = "getNoWait" /\ e.pc # "took")
Finished(e) == e.pc \in {"flush", "done"} \/ e.call = "flush"
Idle(e) == Looking(e) \/ e.pc \in {"scanDone", "sync"} \/ Finished(e)

\* The calls a thread can be in at each place.
CallOK(e) ==
    /\ e.pc \in {"mark", "pop", "pushItem", "scanDone", "sync", "walk", "flush", "done"} => e.call = "none"
    /\ e.pc = "check" => e.call \in {"retrieve", "get", "getNoWait", "last", "waiting", "more"}
    /\ e.pc \in {"choose", "take", "took"} => e.call \in {"retrieve", "getNoWait"}
    /\ e.pc = "swap" => e.call = "retrieve"
    /\ e.pc \in {"enter", "entered"} => e.call = "get"
    /\ e.pc = "finish" => e.call = "last"
    /\ e.pc \in {"wait", "waiting"} => e.call = "waiting"
    /\ e.pc = "leave" => e.call \in {"last", "waiting"}
    /\ e.pc \in Putting \cup {"pushed"} => e.call \in {"roots", "pushFailed", "flush"} \cup OutputCalls
    /\ e.pc \in {"notify", "notifying", "notified"} =>
         e.call \in {"roots", "pushFailed", "flush", "more", "overflowed"} \cup OutputCalls
    /\ e.pc \in {"takeEmpty", "search", "putBack"} => e.call \in OutputCalls
    /\ e.pc = "allocate" => e.call = "first"
    /\ e.pc \in {"takeFull", "alert"} => e.call = "second"

\* The element, the slots and the input packet.
WorkOK(e) ==
    /\ e.item # 0 <=> Pushing(e)
    /\ e.todo # <<>> => e.pc = "mark" \/ Pushing(e)
    /\ Idle(e) \/ e.pc \in {"choose", "take", "swap"} \/ (e.pc = "check" /\ e.call # "more") => e.input = NoPacket
    /\ e.input # NoPacket => Len(e.input) <= Slots

OutputOK(e) ==
    /\ e.pc \in {"takeEmpty", "search", "allocate", "takeFull"} \/ e.call \in {"pushFailed", "flush"} =>
         e.output = NoPacket
    /\ e.pc = "flush" /\ e.hand # <<>> => e.output = NoPacket
    /\ e.pc = "alert" \/ e.call = "overflowed" => e.output = <<>>
    /\ e.output # NoPacket => Len(e.output) <= Slots
    /\ e.output # NoPacket /\ Pushing(e) => Len(e.output) < Slots
    /\ Idle(e) => e.output \in {NoPacket, <<>>}
    /\ e.pc = "done" => e.output = NoPacket

HandOK(e) ==
    /\ e.hand # <<>> =>
         \/ e.pc \in Putting \cup {"search", "putBack", "flush"}
         \/ e.pc \in {"pushed", "notify", "notifying", "notified"} /\ e.call \in OutputCalls \cup {"flush"}
    /\ e.pc \in Putting => e.hand # <<>>
    /\ e.pc \in {"push", "pushNotify"} => e.hand[Len(e.hand)] # <<>>
    /\ e.pc \in Putting /\ e.call \in {"roots", "pushFailed"} => Len(e.hand) = 1
    /\ \A i \in 1..Len(e.hand) : Len(e.hand[i]) <= Slots
    /\ Finished(e) => \A i \in 1..Len(e.hand) : e.hand[i] = <<>>
    /\ e.selected <= Len(e.hand)
    /\ e.selected # 0 =>
         e.output = NoPacket /\ e.call \in OutputCalls /\ Len(e.hand[e.selected]) + RequiredSlots <= Slots
    /\ e.pc \in Putting /\ e.call \in OutputCalls => e.selected < Len(e.hand)
    /\ e.pc = "search" => Len(e.hand) < MaxPacketSearch

\* The lists still to be looked at.
LookOK(e) ==
    /\ e.pc = "check" => e.look \in {InputLists, <<"relativelyFull", "nonEmpty">>, <<"nonEmpty">>}
    /\ e.pc = "take" =>
         e.look \in {InputLists, <<"relativelyFull", "nonEmpty">>, <<"nonEmpty">>,
                     <<"nonEmpty", "relativelyFull", "full">>, <<"relativelyFull", "full">>, <<"full">>}
    /\ e.pc = "search" => e.look \in {OutputLists, <<"relativelyFull">>}

Shape(e) == CallOK(e) /\ WorkOK(e) /\ OutputOK(e) /\ HandOK(e) /\ LookOK(e)
ShapeInv == \A t \in Threads : Shape(env[t])

\* Who has the monitor.
Owns(e) ==
    \/ e.pc \in {"entered", "finish", "wait", "leave", "notifying", "notified"}
    \/ e.pc = "check" /\ e.call \in {"last", "waiting"}

MonitorInv ==
    /\ \A t \in Threads : Owns(env[t]) <=> owner = t
    /\ count = IF owner = NoThread THEN 0 ELSE 1
    /\ \A t \in Threads : /\ waitState[t] # "none" <=> env[t].pc = "waiting"
                          /\ saved[t] = IF waitState[t] = "none" THEN 0 ELSE 1

\* Only the list of empty packets has empty packets.
ListInv ==
    \A l \in Lists : \A i \in 1..Len(list[l]) :
        Len(list[l][i]) <= Slots /\ (list[l][i] = <<>> <=> l = "empty")

\* A thread that has not yet joined the waiting ones has read the current done index.
IndexInv ==
    \A t \in Threads : /\ env[t].doneIndex <= inputListDoneIndex
                       /\ env[t].call \in {"get", "getNoWait"} => env[t].doneIndex = inputListDoneIndex

\* All others wait while the last one looks at the lists; those it has passed are empty.
LastInv ==
    \A t \in Threads : env[t].call = "last" /\ env[t].pc \in {"check", "finish"} =>
        /\ \A u \in Threads : Counted(u)
        /\ \A l \in WorkLists : list[l] = <<>> \/ (env[t].pc = "check" /\ l \in ToSet(env[t].look))

\* The master walks the heap while the others are held.
Walking(e) == e.pc = "walk" \/ (e.from = "walk" /\ (e.pc = "mark" \/ Pushing(e)))
WalkInv ==
    /\ \A t \in Threads : Walking(env[t]) <=> t = Master /\ walk # 0
    /\ walk # 0 => \A t \in Threads : t = Master \/ env[t].pc = "sync"

\* Overflow is recorded until the walk comes to it.
OverflowInv == \A o \in overflowed : overflow \/ (walk # 0 /\ walk <= o)

\* What is in each place; the objects in packets, each in one slot of one packet.
Holding == [place \in Places |-> PacketAt(place)]
ObjectsIn(P) == {o \in Objects : \E x \in DOMAIN P : \E k \in 1..Len(P[x]) : P[x][k] = o}
OnceEach(P) ==
    \A x, y \in DOMAIN P : \A k \in 1..Len(P[x]), m \in 1..Len(P[y]) : P[x][k] = P[y][m] => x = y /\ k = m
Items == {env[t].item : t \in Threads} \ {0}
OneItemEach == \A t, u \in Threads : env[t].item = env[u].item /\ env[t].item # 0 => t = u

WorkInv ==
    /\ OnceEach(Holding) /\ OneItemEach
    /\ marked = ObjectsIn(Holding) \cup Items \cup overflowed \cup scanned
    /\ ObjectsIn(Holding) \cap (Items \cup overflowed \cup scanned) = {}
    /\ Items \cap (overflowed \cup scanned) = {} /\ overflowed \cap scanned = {}

CountInv == IsFiniteSet(Places) /\ Cardinality(Places) = activePackets

\* Told that the round is over, and not gone on yet.
Late(t) ==
    \/ /\ env[t].doneIndex # inputListDoneIndex
       /\ env[t].pc \in {"wait", "waiting", "leave"} \/ (env[t].pc = "check" /\ env[t].call = "waiting")
    \/ env[t].pc \in {"scanDone", "sync"}

QuietInv ==
    walk = 0 /\ (\A t \in Threads : Late(t) \/ Finished(env[t])) => \A l \in WorkLists : list[l] = <<>>

\* What a scanned object or the roots refer to is marked or will be.
ScanInv ==
    /\ \A o \in scanned : \A p \in ToSet(Refs[o]) : p \in marked \/ \E t \in Threads : p \in ToSet(env[t].todo)
    /\ \A t \in Threads : \A q \in 1..env[t].round : ToSet(Roots[q]) \subseteq marked \cup ToSet(env[t].todo)

\* A thread that is about to return from completeScan may.
CompleteInv ==
    \A t \in Threads : Late(t) /\ env[t].pc # "sync" /\ ~overflow => Reachable[env[t].round] \subseteq scanned

IInv ==
    /\ TypeOK /\ ShapeInv /\ MonitorInv /\ ListInv /\ IndexInv /\ WaitCountExact /\ LastInv /\ WalkInv
    /\ OverflowInv /\ WorkInv /\ CountInv /\ QuietInv /\ ScanInv /\ CompleteInv /\ MarkingComplete

-----------------------------------------------------------------------------
(* The locals of a thread, and the operators on them. *)

Pcs == {"mark", "pop", "check", "choose", "take", "took", "swap", "enter", "entered", "finish", "wait",
        "waiting", "leave", "put", "push", "pushNotify", "pushed", "notify", "notifying", "notified",
        "takeEmpty", "search", "putBack", "allocate", "takeFull", "alert", "pushItem", "scanDone",
        "sync", "walk", "flush", "done"}
CallNames == {"none", "retrieve", "get", "getNoWait", "last", "waiting", "more", "roots", "pushFailed",
              "first", "second", "third", "overflowed", "flush"}

LEMMA LocalsAre ==
    Locals = [pc : Pcs, call : CallNames, round : 1..Len(Roots), from : {"roots", "scan", "walk"},
              todo : Seq(Objects), item : Objects \cup {0}, input : Packets \cup {NoPacket},
              output : Packets \cup {NoPacket}, hand : Seq(Packets), selected : 0..MaxPacketSearch,
              look : Seq(Lists), doneIndex : Nat]
  BY DEF Locals, Pcs, CallNames

LEMMA LocalsFields ==
    ASSUME NEW e \in Locals
    PROVE  /\ e.pc \in Pcs /\ e.call \in CallNames /\ e.round \in 1..Len(Roots)
           /\ e.from \in {"roots", "scan", "walk"} /\ e.todo \in Seq(Objects) /\ e.item \in Objects \cup {0}
           /\ e.input \in Packets \cup {NoPacket} /\ e.output \in Packets \cup {NoPacket}
           /\ e.hand \in Seq(Packets) /\ e.selected \in 0..MaxPacketSearch /\ e.look \in Seq(Lists)
           /\ e.doneIndex \in Nat
  BY LocalsAre

\* r has the locals of e but for the place and the call.
SameWork(e, r) ==
    /\ r.round = e.round /\ r.from = e.from /\ r.todo = e.todo /\ r.item = e.item /\ r.input = e.input
    /\ r.output = e.output /\ r.hand = e.hand /\ r.selected = e.selected /\ r.doneIndex = e.doneIndex

LEMMA GotoIs ==
    ASSUME NEW e \in Locals, NEW place \in Pcs
    PROVE  /\ Goto(e, place) \in Locals /\ SameWork(e, Goto(e, place))
           /\ Goto(e, place).pc = place /\ Goto(e, place).call = e.call /\ Goto(e, place).look = e.look
  BY LocalsAre DEF Goto, SameWork

LEMMA CallsIs ==
    ASSUME NEW e \in Locals, NEW place \in Pcs, NEW call \in CallNames
    PROVE  /\ Calls(e, place, call) \in Locals /\ SameWork(e, Calls(e, place, call))
           /\ Calls(e, place, call).pc = place /\ Calls(e, place, call).call = call
           /\ Calls(e, place, call).look = e.look
  BY LocalsAre DEF Calls, SameWork

LEMMA ListsAre == InputLists \in Seq(Lists) /\ OutputLists \in Seq(Lists)
  BY DEF InputLists, OutputLists, Lists

LEMMA ChecksIs ==
    ASSUME NEW e \in Locals, NEW call \in CallNames
    PROVE  /\ Checks(e, call) \in Locals /\ SameWork(e, Checks(e, call))
           /\ Checks(e, call).pc = "check" /\ Checks(e, call).call = call /\ Checks(e, call).look = InputLists
<1>1. "check" \in Pcs BY DEF Pcs
<1> QED BY <1>1, LocalsAre, ListsAre DEF Checks, SameWork

LEMMA SearchesIs ==
    ASSUME NEW e \in Locals, NEW call \in CallNames
    PROVE  /\ Searches(e, call) \in Locals /\ SameWork(e, Searches(e, call))
           /\ Searches(e, call).pc = "search" /\ Searches(e, call).call = call
           /\ Searches(e, call).look = OutputLists
<1>1. "search" \in Pcs BY DEF Pcs
<1> QED BY <1>1, LocalsAre, ListsAre DEF Searches, SameWork

LEMMA PutsIs ==
    ASSUME NEW e \in Locals, NEW p \in Packets, NEW call \in CallNames
    PROVE  LET r == Puts(e, p, call) IN
           /\ r \in Locals /\ r.pc = "put" /\ r.call = call /\ r.hand = Append(e.hand, p)
           /\ r.round = e.round /\ r.from = e.from /\ r.todo = e.todo /\ r.item = e.item /\ r.input = e.input
           /\ r.output = e.output /\ r.selected = e.selected /\ r.look = e.look /\ r.doneIndex = e.doneIndex
<1>1. "put" \in Pcs BY DEF Pcs
<1>2. Append(e.hand, p) \in Seq(Packets) BY LocalsFields
<1> QED BY <1>1, <1>2, LocalsAre DEF Puts

ReturnCalls == {"more", "roots", "pushFailed", "overflowed", "flush"} \cup OutputCalls

\* Where a return from call leads to.
ReturnPlace(call, r) ==
    /\ call \in {"more", "roots"} => r.pc = "pop" /\ r.call = "none"
    /\ call = "pushFailed" => r.pc = "takeEmpty" /\ r.call = "first"
    /\ call \in OutputCalls => r.pc = "putBack" /\ r.call = call
    /\ call = "overflowed" => r.pc = "pushItem" /\ r.call = "none"
    /\ call = "flush" => r.pc = "flush" /\ r.call = "none"

LEMMA ReturnsIs ==
    ASSUME NEW e \in Locals, e.call \in ReturnCalls
    PROVE  /\ Returns(e) \in Locals /\ SameWork(e, Returns(e)) /\ Returns(e).look = e.look
           /\ ReturnPlace(e.call, Returns(e))
<1>2. CASE e.call \in {"more", "roots"}
  <2>1. Returns(e) = Calls(e, "pop", "none") BY <1>2 DEF Returns
  <2>2. "pop" \in Pcs /\ "none" \in CallNames BY DEF Pcs, CallNames
  <2> QED BY <2>2, <1>2, <2>1, CallsIs DEF OutputCalls, ReturnPlace
<1>3. CASE e.call = "pushFailed"
  <2>1. Returns(e) = Calls(e, "takeEmpty", "first") BY <1>3 DEF Returns
  <2>2. "takeEmpty" \in Pcs /\ "first" \in CallNames BY DEF Pcs, CallNames
  <2> QED BY <2>2, <1>3, <2>1, CallsIs DEF OutputCalls, ReturnPlace
<1>4. CASE e.call \in OutputCalls
  <2>1. Returns(e) = Goto(e, "putBack") BY <1>4 DEF Returns, OutputCalls
  <2>2. "putBack" \in Pcs BY DEF Pcs, CallNames
  <2> QED BY <2>2, <1>4, <2>1, GotoIs DEF OutputCalls, ReturnPlace
<1>5. CASE e.call = "overflowed"
  <2>1. Returns(e) = Calls(e, "pushItem", "none") BY <1>5 DEF Returns
  <2>2. "pushItem" \in Pcs /\ "none" \in CallNames BY DEF Pcs, CallNames
  <2> QED BY <2>2, <1>5, <2>1, CallsIs DEF OutputCalls, ReturnPlace
<1>6. CASE e.call = "flush"
  <2>1. Returns(e) = Calls(e, "flush", "none") BY <1>6 DEF Returns
  <2>2. "flush" \in Pcs /\ "none" \in CallNames BY DEF Pcs, CallNames
  <2> QED BY <2>2, <1>6, <2>1, CallsIs DEF OutputCalls, ReturnPlace
<1> QED BY <1>2, <1>3, <1>4, <1>5, <1>6 DEF ReturnCalls

LEMMA ScansIs ==
    ASSUME NEW e \in Locals, NEW o \in Objects, NEW caller \in {"scan", "walk"}
    PROVE  LET r == Scans(e, o, caller) IN
           /\ r \in Locals /\ r.pc = "mark" /\ r.call = "none" /\ r.from = caller /\ r.todo = Refs[o]
           /\ r.round = e.round /\ r.item = e.item /\ r.input = e.input /\ r.output = e.output
           /\ r.hand = e.hand /\ r.selected = e.selected /\ r.look = e.look /\ r.doneIndex = e.doneIndex
<1>1. "mark" \in Pcs /\ "none" \in CallNames BY DEF Pcs, CallNames
<1>2. Refs[o] \in Seq(Objects) BY HeapAssumption
<1> QED BY <1>1, <1>2, LocalsAre DEF Scans

\* The answers of inputPacketAvailable.
LEMMA AvailableIs ==
    ASSUME NEW e \in Locals,
           e.call \in {"retrieve", "get", "getNoWait", "last", "waiting", "more"}
    PROVE  LET r == Available(e) IN
           /\ r \in Locals /\ SameWork(e, r)
           /\ e.call \in {"retrieve", "getNoWait"} => r.pc = "choose" /\ r.call = e.call
           /\ e.call = "get" => r.pc = "check" /\ r.call = "getNoWait" /\ r.look = InputLists
           /\ e.call = "last" => r.pc = "check" /\ r.call = "waiting" /\ r.look = InputLists
           /\ e.call = "waiting" => r.pc = "leave" /\ r.call = e.call
           /\ e.call = "more" => r.pc = "notify" /\ r.call = e.call
<1>2. CASE e.call \in {"retrieve", "getNoWait"}
  <2>1. Available(e) = Goto(e, "choose") BY <1>2 DEF Available
  <2>2. "choose" \in Pcs BY DEF Pcs, CallNames
  <2> QED BY <2>2, <1>2, <2>1, GotoIs
<1>3. CASE e.call = "get"
  <2>1. Available(e) = Checks(e, "getNoWait") BY <1>3 DEF Available
  <2>2. "getNoWait" \in CallNames BY DEF Pcs, CallNames
  <2> QED BY <2>2, <1>3, <2>1, ChecksIs
<1>4. CASE e.call = "last"
  <2>1. Available(e) = Checks(e, "waiting") BY <1>4 DEF Available
  <2>2. "waiting" \in CallNames BY DEF Pcs, CallNames
  <2> QED BY <2>2, <1>4, <2>1, ChecksIs
<1>5. CASE e.call = "waiting"
  <2>1. Available(e) = Goto(e, "leave") BY <1>5 DEF Available
  <2>2. "leave" \in Pcs BY DEF Pcs, CallNames
  <2> QED BY <2>2, <1>5, <2>1, GotoIs
<1>6. CASE e.call = "more"
  <2>1. Available(e) = Goto(e, "notify") BY <1>6 DEF Available
  <2>2. "notify" \in Pcs BY DEF Pcs, CallNames
  <2> QED BY <2>2, <1>6, <2>1, GotoIs
<1> QED BY <1>2, <1>3, <1>4, <1>5, <1>6

LEMMA UnavailableIs ==
    ASSUME NEW e \in Locals,
           e.call \in {"retrieve", "get", "getNoWait", "last", "waiting", "more"}
    PROVE  LET r == Unavailable(e) IN
           /\ r \in Locals /\ SameWork(e, r)
           /\ e.call = "retrieve" => r.pc = "swap" /\ r.call = e.call
           /\ e.call = "getNoWait" => r.pc = "check" /\ r.call = "get" /\ r.look = InputLists
           /\ e.call = "get" => r.pc = "enter" /\ r.call = e.call
           /\ e.call = "last" => r.pc = "finish" /\ r.call = e.call
           /\ e.call = "waiting" => r.pc = "wait" /\ r.call = e.call
           /\ e.call = "more" => r.pc = "pop" /\ r.call = "none"
<1>2. CASE e.call = "retrieve"
  <2>1. Unavailable(e) = Goto(e, "swap") BY <1>2 DEF Unavailable
  <2>2. "swap" \in Pcs BY DEF Pcs, CallNames
  <2> QED BY <2>2, <1>2, <2>1, GotoIs
<1>3. CASE e.call = "getNoWait"
  <2>1. Unavailable(e) = Checks(e, "get") BY <1>3 DEF Unavailable
  <2>2. "get" \in CallNames BY DEF Pcs, CallNames
  <2> QED BY <2>2, <1>3, <2>1, ChecksIs
<1>4. CASE e.call = "get"
  <2>1. Unavailable(e) = Goto(e, "enter") BY <1>4 DEF Unavailable
  <2>2. "enter" \in Pcs BY DEF Pcs, CallNames
  <2> QED BY <2>2, <1>4, <2>1, GotoIs
<1>5. CASE e.call = "last"
  <2>1. Unavailable(e) = Goto(e, "finish") BY <1>5 DEF Unavailable
  <2>2. "finish" \in Pcs BY DEF Pcs, CallNames
  <2> QED BY <2>2, <1>5, <2>1, GotoIs
<1>6. CASE e.call = "waiting"
  <2>1. Unavailable(e) = Goto(e, "wait") BY <1>6 DEF Unavailable
  <2>2. "wait" \in Pcs BY DEF Pcs, CallNames
  <2> QED BY <2>2, <1>6, <2>1, GotoIs
<1>7. CASE e.call = "more"
  <2>1. Unavailable(e) = Calls(e, "pop", "none") BY <1>7 DEF Unavailable
  <2>2. "pop" \in Pcs /\ "none" \in CallNames BY DEF Pcs, CallNames
  <2> QED BY <2>2, <1>7, <2>1, CallsIs
<1> QED BY <1>2, <1>3, <1>4, <1>5, <1>6, <1>7

\* The lists that are left when the first one was looked at.
LEMMA TailIs ==
    ASSUME NEW e \in Locals, e.look # <<>>
    PROVE  LET r == [e EXCEPT !.look = Tail(@)] IN
           /\ r \in Locals /\ SameWork(e, r) /\ r.pc = e.pc /\ r.call = e.call /\ r.look = Tail(e.look)
<1>1. Tail(e.look) \in Seq(Lists) BY LocalsFields
<1> QED BY <1>1, LocalsAre DEF SameWork

\* What is left of a sequence without its last element.
LEMMA FrontIs ==
    ASSUME NEW S, NEW s \in Seq(S), s # <<>>
    PROVE  /\ Len(s) \in Nat \ {0} /\ Last(s) \in S /\ Last(s) = s[Len(s)]
           /\ Front(s) \in Seq(S) /\ Len(Front(s)) = Len(s) - 1
           /\ \A i \in 1..(Len(s) - 1) : Front(s)[i] = s[i]
<1>1. Len(s) \in Nat \ {0} OBVIOUS
<1>2. Last(s) \in S /\ Last(s) = s[Len(s)] BY <1>1 DEF Last
<1>3. Front(s) \in Seq(S) BY <1>1 DEF Front
<1>4. Front(s) = [i \in 1..(Len(s) - 1) |-> s[i]] BY <1>1 DEF Front
<1>5. DOMAIN Front(s) = 1..(Len(s) - 1) /\ Len(s) - 1 \in Nat BY <1>1, <1>4
<1>6. DOMAIN Front(s) = 1..Len(Front(s)) /\ Len(Front(s)) \in Nat BY <1>3
<1>7. Len(Front(s)) = Len(s) - 1 BY <1>5, <1>6
<1> QED BY <1>1, <1>2, <1>3, <1>4, <1>7

-----------------------------------------------------------------------------
(* What most steps leave as it is. *)

\* Counted, if the round is not over; the last one, who looks at the lists.
Joined(e) ==
    \/ e.pc \in {"finish", "wait", "waiting", "leave"}
    \/ e.pc = "check" /\ e.call \in {"last", "waiting"}
IsLast(e) == e.call = "last" /\ e.pc \in {"check", "finish"}

Mild(e, r) ==
    /\ r \in Locals /\ Shape(r)
    /\ e.pc \notin {"waiting", "sync"} /\ r.pc \notin {"waiting", "sync", "scanDone"}
    /\ (Owns(r) <=> Owns(e)) /\ (Joined(r) <=> Joined(e)) /\ ~IsLast(r)
    /\ Walking(r) <=> Walking(e)
    /\ Finished(r) => Finished(e)
    /\ r.call \in {"get", "getNoWait"} => e.call \in {"get", "getNoWait"}
    /\ r.doneIndex = e.doneIndex /\ r.round = e.round

\* One slot less is left.
Advanced(e) == [e EXCEPT !.todo = Tail(@)]

LEMMA MildMarkSlot ==
    ASSUME NEW e \in Locals, Shape(e), e.pc = "mark", e.todo # <<>>,
           NEW r, r = Advanced(e) \/ r = Push(Advanced(e), Head(e.todo))
    PROVE  /\ Mild(e, r) /\ r.todo = Tail(e.todo) /\ e.item = 0 /\ r.input = e.input
           /\ r = Advanced(e) => r.item = e.item /\ r.output = e.output /\ r.hand = e.hand
           /\ r = Push(Advanced(e), Head(e.todo)) =>
                \/ /\ e.output \in Packets /\ r.output = Append(e.output, Head(e.todo))
                   /\ r.item = e.item /\ r.hand = e.hand
                \/ /\ e.output \in Packets /\ r.output = NoPacket /\ r.hand = Append(e.hand, e.output)
                   /\ r.item = Head(e.todo)
                \/ r.output = e.output /\ r.hand = e.hand /\ r.item = Head(e.todo)
<1> DEFINE f == Advanced(e)  o == Head(e.todo)
<1>1. o \in Objects /\ Tail(e.todo) \in Seq(Objects) BY LocalsFields
<1>2. /\ f \in Locals /\ f.pc = e.pc /\ f.call = e.call /\ f.round = e.round /\ f.from = e.from /\ f.item = e.item
      /\ f.input = e.input /\ f.output = e.output /\ f.hand = e.hand /\ f.selected = e.selected
      /\ f.look = e.look /\ f.doneIndex = e.doneIndex /\ f.todo = Tail(e.todo)
  BY <1>1, LocalsAre DEF Advanced
<1>3. e.call = "none" /\ e.hand = <<>> /\ e.item = 0 /\ e.selected = 0
  BY LocalsFields DEF Shape, CallOK, WorkOK, OutputOK, HandOK, Pushing, Putting, OutputCalls
<1>4. o # 0 BY <1>1 DEF Objects
<1> HIDE DEF f, o
<1>5. ASSUME r = f
      PROVE  /\ Mild(e, r) /\ r.todo = Tail(e.todo) /\ e.item = 0 /\ r.input = e.input
             /\ r.item = e.item /\ r.output = e.output /\ r.hand = e.hand
  <2>1. Mild(e, r)
    BY <1>2, <1>3, <1>5 DEF Mild, SameWork, Shape, CallOK, WorkOK, OutputOK, HandOK, LookOK, Owns, Joined,
       IsLast, Walking, Pushing, Finished, Putting, OutputCalls, Idle, Looking
  <2> QED BY <1>2, <1>3, <1>5, <2>1 DEF f
<1>6. ASSUME r = Push(f, o)
      PROVE  /\ Mild(e, r) /\ r.todo = Tail(e.todo) /\ e.item = 0 /\ r.input = e.input
             /\ \/ /\ e.output \in Packets /\ r.output = Append(e.output, o)
                   /\ r.item = e.item /\ r.hand = e.hand
                \/ /\ e.output \in Packets /\ r.output = NoPacket /\ r.hand = Append(e.hand, e.output)
                   /\ r.item = o
                \/ r.output = e.output /\ r.hand = e.hand /\ r.item = o
  <2>1. CASE f.output # NoPacket /\ freeSlots(f.output) > 0
    <3>1. r = [f EXCEPT !.output = Append(@, o)] BY <1>6, <2>1 DEF Push
    <3>2. f.output \in Seq(Objects) BY <1>2, <2>1, LocalsFields DEF Packets
    <3>3. Append(f.output, o) \in Packets BY <1>1, <3>2 DEF Packets
    <3>4. Len(Append(f.output, o)) <= Slots
      BY <1>1, <2>1, <3>2, PacketsAssumption DEF freeSlots
    <3>5. /\ r \in Locals /\ r.pc = e.pc /\ r.call = e.call /\ r.round = e.round /\ r.from = e.from
          /\ r.item = e.item /\ r.input = e.input /\ r.hand = e.hand /\ r.selected = e.selected
          /\ r.look = e.look /\ r.doneIndex = e.doneIndex /\ r.output = Append(f.output, o) /\ r.todo = f.todo
      BY <1>2, <3>1, <3>3, LocalsAre
    <3>6. Mild(e, r)
      BY <1>3, <3>4, <3>5 DEF Mild, SameWork, Shape, CallOK, WorkOK, OutputOK, HandOK, LookOK, Owns, Joined,
         IsLast, Walking, Pushing, Finished, Putting, OutputCalls, Idle, Looking
    <3> QED BY <1>2, <1>3, <3>2, <3>5, <3>6 DEF Packets
  <2>2. CASE f.output # NoPacket /\ freeSlots(f.output) = 0
    <3> DEFINE g == [f EXCEPT !.item = o, !.output = NoPacket]
    <3>1. /\ g \in Locals /\ g.pc = e.pc /\ g.call = e.call /\ g.round = e.round /\ g.from = e.from
          /\ g.item = o /\ g.input = e.input /\ g.hand = e.hand /\ g.selected = e.selected
          /\ g.look = e.look /\ g.doneIndex = e.doneIndex /\ g.output = NoPacket /\ g.todo = f.todo
      BY <1>1, <1>2, LocalsAre
    <3>2. r = Puts(g, f.output, "pushFailed") BY <1>6, <2>2 DEF Push, freeSlots
    <3>3. f.output \in Packets /\ "pushFailed" \in CallNames /\ Len(f.output) <= Slots
      BY <1>2, <2>2, LocalsFields DEF CallNames, Shape, OutputOK
    <3> HIDE DEF g
    <3>4. /\ r \in Locals /\ r.pc = "put" /\ r.call = "pushFailed" /\ r.hand = Append(e.hand, f.output)
          /\ r.round = e.round /\ r.from = e.from /\ r.item = o /\ r.input = e.input
          /\ r.output = NoPacket /\ r.selected = e.selected /\ r.look = e.look /\ r.doneIndex = e.doneIndex
          /\ r.todo = f.todo
      BY <3>1, <3>2, <3>3, PutsIs
    <3>5. Len(r.hand) = 1 /\ r.hand[1] = f.output /\ r.hand # <<>> BY <1>3, <3>4
    <3>6. Mild(e, r)
      BY <1>3, <1>4, <3>3, <3>4, <3>5 DEF Mild, SameWork, Shape, CallOK, WorkOK, OutputOK, HandOK, LookOK, Owns,
         Joined, IsLast, Walking, Pushing, Finished, Putting, OutputCalls, Idle, Looking
    <3> QED BY <1>2, <1>3, <3>3, <3>4, <3>6
  <2>3. CASE f.output = NoPacket
    <3> DEFINE g == [f EXCEPT !.item = o]
    <3>1. /\ g \in Locals /\ g.pc = e.pc /\ g.call = e.call /\ g.round = e.round /\ g.from = e.from
          /\ g.item = o /\ g.input = e.input /\ g.hand = e.hand /\ g.selected = e.selected
          /\ g.look = e.look /\ g.doneIndex = e.doneIndex /\ g.output = e.output /\ g.todo = f.todo
      BY <1>1, <1>2, LocalsAre
    <3>2. r = Calls(g, "takeEmpty", "first") BY <1>6, <2>3 DEF Push
    <3>3. "takeEmpty" \in Pcs /\ "first" \in CallNames BY DEF Pcs, CallNames
    <3> HIDE DEF g
    <3>4. r \in Locals /\ SameWork(g, r) /\ r.pc = "takeEmpty" /\ r.call = "first" BY <3>1, <3>2, <3>3, CallsIs
    <3>5. Mild(e, r)
      BY <1>2, <1>3, <1>4, <2>3, <3>1, <3>4 DEF Mild, SameWork, Shape, CallOK, WorkOK, OutputOK, HandOK, LookOK,
         Owns, Joined, IsLast, Walking, Pushing, Finished, Putting, OutputCalls, Idle, Looking
    <3> QED BY <1>2, <1>3, <3>1, <3>4, <3>5 DEF SameWork, o
  <2>4. f.output # NoPacket => Len(f.output) \in Nat /\ Len(f.output) <= Slots
    BY <1>2, LocalsFields DEF Shape, OutputOK, Packets
  <2> QED BY <2>1, <2>2, <2>3, <2>4, PacketsAssumption DEF freeSlots
<1> QED BY <1>5, <1>6 DEF f, o

LEMMA MildScanEnds ==
    ASSUME NEW e \in Locals, Shape(e), e.pc = "mark", e.todo = <<>>,
           NEW r, r = Goto(e, IF e.from = "walk" THEN "walk" ELSE "pop")
    PROVE  Mild(e, r) /\ SameWork(e, r)
<1>1. "walk" \in Pcs /\ "pop" \in Pcs BY DEF Pcs
<1>2. /\ r \in Locals /\ SameWork(e, r) /\ r.pc = (IF e.from = "walk" THEN "walk" ELSE "pop")
      /\ r.call = e.call
  BY <1>1, GotoIs
<1> QED
  BY <1>2 DEF Mild, SameWork, Shape, CallOK, WorkOK, OutputOK, HandOK, LookOK, Owns, Joined, IsLast, Walking,
     Pushing, Finished, Putting, OutputCalls, Idle, Looking

LEMMA FlushOutputIs ==
    ASSUME NEW e \in Locals, e.output # NoPacket
    PROVE  LET r == Puts([e EXCEPT !.output = NoPacket], e.output, "roots") IN
           /\ r \in Locals /\ r.pc = "put" /\ r.call = "roots" /\ r.hand = Append(e.hand, e.output)
           /\ r.round = e.round /\ r.from = e.from /\ r.todo = e.todo /\ r.item = e.item /\ r.input = e.input
           /\ r.output = NoPacket /\ r.selected = e.selected /\ r.look = e.look /\ r.doneIndex = e.doneIndex
<1> DEFINE f == [e EXCEPT !.output = NoPacket]
<1>1. /\ f \in Locals /\ f.round = e.round /\ f.from = e.from /\ f.item = e.item /\ f.todo = e.todo
      /\ f.input = e.input /\ f.output = NoPacket /\ f.hand = e.hand /\ f.selected = e.selected
      /\ f.look = e.look /\ f.doneIndex = e.doneIndex
  BY LocalsAre
<1>2. e.output \in Packets /\ "roots" \in CallNames BY LocalsFields DEF CallNames
<1> HIDE DEF f
<1>3. LET r == Puts(f, e.output, "roots") IN
      /\ r \in Locals /\ r.pc = "put" /\ r.call = "roots" /\ r.hand = Append(e.hand, e.output)
      /\ r.round = e.round /\ r.from = e.from /\ r.todo = e.todo /\ r.item = e.item /\ r.input = e.input
      /\ r.output = NoPacket /\ r.selected = e.selected /\ r.look = e.look /\ r.doneIndex = e.doneIndex
  BY <1>1, <1>2, PutsIs
<1> QED BY <1>3 DEF f

LEMMA MildFlushOutputPacket ==
    ASSUME NEW e \in Locals, Shape(e), e.pc = "mark", e.todo = <<>>, e.from = "roots",
           e.output # NoPacket, NEW r,
           /\ r \in Locals /\ r.pc = "put" /\ r.call = "roots" /\ r.hand = Append(e.hand, e.output)
           /\ r.round = e.round /\ r.from = e.from /\ r.todo = e.todo /\ r.item = e.item /\ r.input = e.input
           /\ r.output = NoPacket /\ r.selected = e.selected /\ r.look = e.look /\ r.doneIndex = e.doneIndex
    PROVE  Mild(e, r)
<1>1. e.call = "none" /\ e.hand = <<>> /\ e.item = 0 /\ e.selected = 0
  BY LocalsFields DEF Shape, CallOK, WorkOK, OutputOK, HandOK, Pushing, Putting, OutputCalls
<1>2. Len(r.hand) = 1 /\ r.hand[1] = e.output /\ r.hand # <<>> BY <1>1
<1> QED
  BY <1>1, <1>2 DEF Mild, SameWork, Shape, CallOK, WorkOK, OutputOK, HandOK, LookOK, Owns, Joined, IsLast,
     Walking, Pushing, Finished, Putting, OutputCalls, Idle, Looking

LEMMA MildPop ==
    ASSUME NEW e \in Locals, Shape(e), e.pc = "pop", NEW r,
           \/ HasWork(e.input) /\ r = Scans([e EXCEPT !.input = Front(@)], Last(e.input), "scan")
           \/ ~HasWork(e.input) /\ r = Checks([e EXCEPT !.input = NoPacket], "retrieve")
    PROVE  /\ Mild(e, r) /\ r.item = e.item /\ r.output = e.output /\ r.hand = e.hand
           /\ \/ /\ HasWork(e.input) /\ e.input \in Packets /\ r.input = Front(e.input)
                 /\ r.todo = Refs[Last(e.input)] /\ e.todo = <<>>
              \/ ~HasWork(e.input) /\ r.input = NoPacket /\ r.todo = e.todo
<1>1. CASE HasWork(e.input) /\ r = Scans([e EXCEPT !.input = Front(@)], Last(e.input), "scan")
  <2> DEFINE f == [e EXCEPT !.input = Front(@)]
  <2>1. e.input \in Seq(Objects) /\ e.input # <<>> /\ e.input # NoPacket
    BY <1>1, LocalsFields DEF HasWork, Packets
  <2>2. Last(e.input) \in Objects /\ Front(e.input) \in Packets /\ Len(Front(e.input)) = Len(e.input) - 1
    BY <2>1, FrontIs DEF Packets
  <2>3. /\ f \in Locals /\ f.round = e.round /\ f.item = e.item /\ f.input = Front(e.input)
        /\ f.output = e.output /\ f.hand = e.hand /\ f.selected = e.selected
        /\ f.look = e.look /\ f.doneIndex = e.doneIndex
    BY <2>2, LocalsAre
  <2>4. f.input # NoPacket /\ Len(f.input) <= Slots
    BY <2>1, <2>2, <2>3, PacketsAssumption DEF Shape, WorkOK
  <2>6. r = Scans(f, Last(e.input), "scan") BY <1>1
  <2> HIDE DEF f
  <2>5. /\ r \in Locals /\ r.pc = "mark" /\ r.call = "none" /\ r.from = "scan"
        /\ r.round = f.round /\ r.item = f.item /\ r.input = f.input /\ r.output = f.output
        /\ r.hand = f.hand /\ r.selected = f.selected /\ r.look = f.look /\ r.doneIndex = f.doneIndex
        /\ r.todo = Refs[Last(e.input)]
    BY <2>2, <2>3, <2>6, ScansIs
  <2>7. Mild(e, r)
    BY <2>3, <2>4, <2>5 DEF Mild, SameWork, Shape, CallOK, WorkOK, OutputOK, HandOK, LookOK, Owns, Joined,
       IsLast, Walking, Pushing, Finished, Putting, OutputCalls, Idle, Looking
  <2>8. e.todo = <<>> BY DEF Shape, CallOK, WorkOK, Pushing, OutputCalls
  <2> QED BY <1>1, <2>1, <2>3, <2>5, <2>7, <2>8 DEF Packets
<1>2. CASE ~HasWork(e.input) /\ r = Checks([e EXCEPT !.input = NoPacket], "retrieve")
  <2> DEFINE f == [e EXCEPT !.input = NoPacket]
  <2>1. /\ f \in Locals /\ f.round = e.round /\ f.from = e.from /\ f.item = e.item /\ f.todo = e.todo
        /\ f.output = e.output /\ f.hand = e.hand /\ f.selected = e.selected
        /\ f.doneIndex = e.doneIndex /\ f.input = NoPacket
    BY LocalsAre
  <2>2. "retrieve" \in CallNames BY DEF CallNames
  <2> HIDE DEF f
  <2>3. /\ r \in Locals /\ SameWork(f, r) /\ r.pc = "check" /\ r.call = "retrieve" /\ r.look = InputLists
    BY <1>2, <2>1, <2>2, ChecksIs DEF f
  <2>4. Mild(e, r)
    BY <2>1, <2>3 DEF Mild, SameWork, Shape, CallOK, WorkOK, OutputOK, HandOK, LookOK, Owns, Joined, IsLast,
       Walking, Pushing, Finished, Putting, OutputCalls, Idle, Looking
  <2> QED BY <1>2, <2>1, <2>3, <2>4 DEF SameWork
<1> QED BY <1>1, <1>2

LEMMA FrontHandIs ==
    ASSUME NEW e \in Locals, e.hand # <<>>
    PROVE  LET f == [e EXCEPT !.hand = Front(@)] IN
           /\ f \in Locals /\ f.pc = e.pc /\ f.call = e.call /\ f.round = e.round /\ f.from = e.from
           /\ f.todo = e.todo /\ f.item = e.item /\ f.input = e.input /\ f.output = e.output
           /\ f.hand = Front(e.hand) /\ f.selected = e.selected /\ f.look = e.look /\ f.doneIndex = e.doneIndex
<1>1. Front(e.hand) \in Seq(Packets) BY LocalsFields, FrontIs
<1> QED BY <1>1, LocalsAre

\* r has one packet less in hand than e.
PutAway(e, r) ==
    /\ r \in Locals /\ r.round = e.round /\ r.from = e.from /\ r.todo = e.todo /\ r.item = e.item
    /\ r.input = e.input /\ r.output = e.output /\ r.hand = Front(e.hand) /\ r.selected = e.selected
    /\ r.doneIndex = e.doneIndex

\* A packet was put: the call returns, or the wait count is to be read.
LEMMA MildPut ==
    ASSUME NEW e \in Locals, Shape(e), e.pc \in Putting, NEW r, PutAway(e, r),
           \/ ReturnPlace(e.call, r)
           \/ r.pc = "pushed" /\ r.call = e.call
    PROVE  Mild(e, r)
<1>1. e.hand \in Seq(Packets) /\ e.hand # <<>> BY LocalsFields DEF Shape, HandOK, Putting
<1>2. /\ Len(e.hand) \in Nat \ {0} /\ r.hand \in Seq(Packets) /\ Len(r.hand) = Len(e.hand) - 1
      /\ \A i \in 1..Len(r.hand) : r.hand[i] = e.hand[i]
  BY <1>1, FrontIs DEF PutAway
<1>3. r.selected \in Nat /\ e.call \in {"roots", "pushFailed", "flush"} \cup OutputCalls
  BY LocalsFields DEF Shape, CallOK, Putting, OutputCalls, PutAway
<1>4. e.call \in {"roots", "pushFailed"} => r.hand = <<>>
  <2>1. e.call \in {"roots", "pushFailed"} => Len(e.hand) = 1 BY DEF Shape, HandOK
  <2>2. Len(r.hand) = 0 => r.hand = <<>> BY <1>2
  <2> QED BY <1>2, <2>1, <2>2
<1>5. \A i \in 1..Len(r.hand) : Len(r.hand[i]) <= Slots
  <2>1. \A i \in 1..Len(e.hand) : Len(e.hand[i]) <= Slots BY DEF Shape, HandOK
  <2> QED BY <1>2, <2>1
<1>6. Finished(e) => \A i \in 1..Len(r.hand) : r.hand[i] = <<>>
  <2>1. Finished(e) => \A i \in 1..Len(e.hand) : e.hand[i] = <<>> BY DEF Shape, HandOK
  <2> QED BY <1>2, <2>1
<1>7. e.selected <= Len(r.hand) /\ (e.call \notin OutputCalls => e.selected = 0)
  <2>1. /\ e.selected # 0 => e.call \in OutputCalls
        /\ e.call \in OutputCalls => e.selected < Len(e.hand)
    BY DEF Shape, HandOK
  <2> QED BY <1>2, <1>3, <2>1, LocalsFields
<1>8. e.selected # 0 => e.output = NoPacket /\ Len(r.hand[e.selected]) + RequiredSlots <= Slots
  <2>1. e.selected # 0 => e.output = NoPacket /\ Len(e.hand[e.selected]) + RequiredSlots <= Slots
    BY DEF Shape, HandOK
  <2>2. e.selected \in Nat BY LocalsFields
  <2>3. e.selected # 0 => e.selected \in 1..Len(r.hand) BY <1>2, <1>7, <2>2
  <2>4. e.selected # 0 => r.hand[e.selected] = e.hand[e.selected] BY <1>2, <2>3
  <2> QED BY <2>1, <2>4
<1> QED
  BY <1>1, <1>2, <1>3, <1>4, <1>5, <1>6, <1>7, <1>8 DEF Mild, SameWork, Shape, CallOK, WorkOK, OutputOK, HandOK,
     LookOK, Owns, Joined, IsLast, Walking, Pushing, Finished, Putting, OutputCalls, Idle, Looking, PutAway,
     ReturnPlace

LEMMA MildPutPacket ==
    ASSUME NEW e \in Locals, Shape(e), e.pc = "put", e.hand[Len(e.hand)] # <<>>,
           NEW place \in {"push", "pushNotify"}, NEW r, r = Goto(e, place)
    PROVE  Mild(e, r) /\ SameWork(e, r)
<1>1. place \in Pcs BY DEF Pcs
<1>2. r \in Locals /\ SameWork(e, r) /\ r.pc = place /\ r.call = e.call BY <1>1, GotoIs
<1> QED
  BY <1>2 DEF Mild, SameWork, Shape, CallOK, WorkOK, OutputOK, HandOK, LookOK, Owns, Joined, IsLast, Walking,
     Pushing, Finished, Putting, OutputCalls, Idle, Looking

LEMMA MildPutNotify ==
    ASSUME NEW e \in Locals, Shape(e), e.pc = "pushed", NEW r,
           r = Goto(e, "notify") \/ r = Returns(e)
    PROVE  Mild(e, r) /\ SameWork(e, r)
<1>1. CASE r = Goto(e, "notify")
  <2>1. "notify" \in Pcs BY DEF Pcs
  <2>2. r \in Locals /\ SameWork(e, r) /\ r.pc = "notify" /\ r.call = e.call BY <1>1, <2>1, GotoIs
  <2> QED
    BY <2>2 DEF Mild, SameWork, Shape, CallOK, WorkOK, OutputOK, HandOK, LookOK, Owns, Joined, IsLast, Walking,
       Pushing, Finished, Putting, OutputCalls, Idle, Looking
<1>2. CASE r = Returns(e)
  <2>1. e.call \in ReturnCalls BY DEF Shape, CallOK, Putting, OutputCalls, ReturnCalls
  <2>2. r \in Locals /\ SameWork(e, r) /\ ReturnPlace(e.call, r) BY <1>2, <2>1, ReturnsIs
  <2> QED
    BY <2>2 DEF Mild, SameWork, Shape, CallOK, WorkOK, OutputOK, HandOK, LookOK, Owns, Joined, IsLast, Walking,
       Pushing, Finished, Putting, OutputCalls, Idle, Looking, ReturnPlace
<1> QED BY <1>1, <1>2

\* A return from notifyWaitingThreads, which may have had the monitor.
LEMMA NotifyReturns ==
    ASSUME NEW e \in Locals, Shape(e), e.pc \in {"notify", "notified"}, NEW r, r = Returns(e)
    PROVE  /\ r \in Locals /\ Shape(r) /\ r.pc \notin {"waiting", "sync", "scanDone"}
           /\ ~Owns(r) /\ ~Joined(r) /\ ~IsLast(r) /\ ~Joined(e)
           /\ Walking(r) <=> Walking(e)
           /\ Finished(r) => Finished(e)
           /\ r.call \notin {"get", "getNoWait"}
           /\ SameWork(e, r)
<1>1. e.call \in ReturnCalls BY DEF Shape, CallOK, Putting, OutputCalls, ReturnCalls
<1>2. r \in Locals /\ SameWork(e, r) /\ ReturnPlace(e.call, r) BY <1>1, ReturnsIs
<1> QED
  BY <1>1, <1>2 DEF Mild, SameWork, Shape, CallOK, WorkOK, OutputOK, HandOK, LookOK, Owns, Joined, IsLast,
     Walking, Pushing, Finished, Putting, OutputCalls, Idle, Looking, ReturnPlace, ReturnCalls

LEMMA MildNotify ==
    ASSUME NEW e \in Locals, Shape(e), e.pc = "notify", NEW r, r = Returns(e)
    PROVE  Mild(e, r) /\ SameWork(e, r)
  BY NotifyReturns DEF Mild, Owns, SameWork

LEMMA MildNotifying ==
    ASSUME NEW e \in Locals, Shape(e), e.pc = "notifying", NEW r, r = Goto(e, "notified")
    PROVE  Mild(e, r) /\ SameWork(e, r)
<1>1. "notified" \in Pcs BY DEF Pcs
<1>2. r \in Locals /\ SameWork(e, r) /\ r.pc = "notified" /\ r.call = e.call BY <1>1, GotoIs
<1> QED
  BY <1>2 DEF Mild, SameWork, Shape, CallOK, WorkOK, OutputOK, HandOK, LookOK, Owns, Joined, IsLast, Walking,
     Pushing, Finished, Putting, OutputCalls, Idle, Looking

\* The orders in which lists are looked at, and what is left of them.
LEMMA Looks ==
    /\ Len(InputLists) = 3 /\ Head(InputLists) = "full" /\ Tail(InputLists) = <<"relativelyFull", "nonEmpty">>
    /\ Len(<<"relativelyFull", "nonEmpty">>) = 2 /\ Head(<<"relativelyFull", "nonEmpty">>) = "relativelyFull"
    /\ Tail(<<"relativelyFull", "nonEmpty">>) = <<"nonEmpty">>
    /\ Len(<<"nonEmpty">>) = 1 /\ Head(<<"nonEmpty">>) = "nonEmpty"
    /\ Len(<<"nonEmpty", "relativelyFull", "full">>) = 3
    /\ Head(<<"nonEmpty", "relativelyFull", "full">>) = "nonEmpty"
    /\ Tail(<<"nonEmpty", "relativelyFull", "full">>) = <<"relativelyFull", "full">>
    /\ Len(<<"relativelyFull", "full">>) = 2 /\ Head(<<"relativelyFull", "full">>) = "relativelyFull"
    /\ Tail(<<"relativelyFull", "full">>) = <<"full">>
    /\ Len(<<"full">>) = 1 /\ Head(<<"full">>) = "full"
    /\ Len(OutputLists) = 2 /\ Head(OutputLists) = "nonEmpty" /\ Tail(OutputLists) = <<"relativelyFull">>
    /\ Len(<<"relativelyFull">>) = 1 /\ Head(<<"relativelyFull">>) = "relativelyFull"
    /\ Reverse(InputLists) = <<"nonEmpty", "relativelyFull", "full">>
  BY DEF InputLists, OutputLists, Reverse

LEMMA LookHead ==
    ASSUME NEW e \in Locals, Shape(e), e.pc \in {"check", "take", "search"}
    PROVE  e.look # <<>> /\ Head(e.look) \in WorkLists
  BY Looks DEF Shape, LookOK, WorkLists

LEMMA LookTail ==
    ASSUME NEW e \in Locals, LookOK(e), e.pc \in {"check", "take", "search"}, Len(e.look) > 1,
           NEW r, r.pc = e.pc, r.look = Tail(e.look)
    PROVE  LookOK(r)
<1>1. CASE e.look = InputLists BY <1>1, Looks DEF LookOK, InputLists, OutputLists
<1>2. CASE e.look = <<"relativelyFull", "nonEmpty">> BY <1>2, Looks DEF LookOK, InputLists, OutputLists
<1>3. CASE e.look = <<"nonEmpty", "relativelyFull", "full">> BY <1>3, Looks DEF LookOK, InputLists, OutputLists
<1>4. CASE e.look = <<"relativelyFull", "full">> BY <1>4, Looks DEF LookOK, InputLists, OutputLists
<1>5. CASE e.look = OutputLists BY <1>5, Looks DEF LookOK, InputLists, OutputLists
<1>6. e.look \notin {<<"nonEmpty">>, <<"full">>, <<"relativelyFull">>}
  <2>1. ASSUME e.look = <<"nonEmpty">> PROVE FALSE
    <3>1. Len(e.look) = 1 BY <2>1
    <3> QED BY <3>1
  <2>2. ASSUME e.look = <<"full">> PROVE FALSE
    <3>1. Len(e.look) = 1 BY <2>2
    <3> QED BY <3>1
  <2>3. ASSUME e.look = <<"relativelyFull">> PROVE FALSE
    <3>1. Len(e.look) = 1 BY <2>3
    <3> QED BY <3>1
  <2> QED BY <2>1, <2>2, <2>3, Zenon
<1>7. \/ e.look \in {InputLists, <<"relativelyFull", "nonEmpty">>, OutputLists}
      \/ e.look \in {<<"nonEmpty", "relativelyFull", "full">>, <<"relativelyFull", "full">>}
      \/ e.look \in {<<"nonEmpty">>, <<"full">>, <<"relativelyFull">>}
  <2> HIDE DEF InputLists, OutputLists
  <2> QED BY Zenon DEF LookOK
<1> QED BY <1>1, <1>2, <1>3, <1>4, <1>5, <1>6, <1>7

LEMMA MissesIs ==
    ASSUME NEW e \in Locals, Shape(e), e.pc \in {"check", "take", "search"}, NEW x
    PROVE  \/ Len(e.look) > 1 /\ Misses(e, x) = [e EXCEPT !.look = Tail(@)]
           \/ Len(e.look) = 1 /\ Misses(e, x) = x
  BY Looks DEF Shape, LookOK, Misses

\* Another list is looked at.
LEMMA MildTail ==
    ASSUME NEW e \in Locals, Shape(e), e.pc \in {"check", "take", "search"}, Len(e.look) > 1, ~IsLast(e),
           NEW r, r = [e EXCEPT !.look = Tail(@)]
    PROVE  Mild(e, r) /\ SameWork(e, r)
<1>1. /\ r \in Locals /\ SameWork(e, r) /\ r.pc = e.pc /\ r.call = e.call /\ r.look = Tail(e.look)
  BY LookHead, TailIs
<1>2. LookOK(r) BY <1>1, LookTail DEF Shape
<1> QED
  BY <1>1, <1>2 DEF Mild, SameWork, Shape, CallOK, WorkOK, OutputOK, HandOK, Owns, Joined, IsLast, Walking,
     Pushing, Finished, Putting, OutputCalls, Idle, Looking

LEMMA MildAvailable ==
    ASSUME NEW e \in Locals, Shape(e), e.pc = "check", NEW r, r = Available(e)
    PROVE  Mild(e, r) /\ SameWork(e, r)
<1>1. e.call \in {"retrieve", "get", "getNoWait", "last", "waiting", "more"} BY DEF Shape, CallOK
<1>2. /\ r \in Locals /\ SameWork(e, r)
      /\ e.call \in {"retrieve", "getNoWait"} => r.pc = "choose" /\ r.call = e.call
      /\ e.call = "get" => r.pc = "check" /\ r.call = "getNoWait" /\ r.look = InputLists
      /\ e.call = "last" => r.pc = "check" /\ r.call = "waiting" /\ r.look = InputLists
      /\ e.call = "waiting" => r.pc = "leave" /\ r.call = e.call
      /\ e.call = "more" => r.pc = "notify" /\ r.call = e.call
  BY <1>1, AvailableIs
<1> QED
  BY <1>1, <1>2 DEF Mild, SameWork, Shape, CallOK, WorkOK, OutputOK, HandOK, LookOK, Owns, Joined, IsLast,
     Walking, Pushing, Finished, Putting, OutputCalls, Idle, Looking

LEMMA MildUnavailable ==
    ASSUME NEW e \in Locals, Shape(e), e.pc \in {"check", "take"}, e.call # "last", NEW r, r = Unavailable(e)
    PROVE  Mild(e, r) /\ SameWork(e, r)
<1>1. /\ e.call \in {"retrieve", "get", "getNoWait", "waiting", "more"}
      /\ e.pc = "take" => e.call \in {"retrieve", "getNoWait"}
  BY DEF Shape, CallOK
<1>2. /\ r \in Locals /\ SameWork(e, r)
      /\ e.call = "retrieve" => r.pc = "swap" /\ r.call = e.call
      /\ e.call = "getNoWait" => r.pc = "check" /\ r.call = "get" /\ r.look = InputLists
      /\ e.call = "get" => r.pc = "enter" /\ r.call = e.call
      /\ e.call = "waiting" => r.pc = "wait" /\ r.call = e.call
      /\ e.call = "more" => r.pc = "pop" /\ r.call = "none"
  BY <1>1, UnavailableIs
<1> QED
  BY <1>1, <1>2 DEF Mild, SameWork, Shape, CallOK, WorkOK, OutputOK, HandOK, LookOK, Owns, Joined, IsLast,
     Walking, Pushing, Finished, Putting, OutputCalls, Idle, Looking

LEMMA LastMisses ==
    ASSUME NEW e \in Locals, Shape(e), e.pc = "check", e.call = "last", NEW r, r = Misses(e, Unavailable(e))
    PROVE  /\ r \in Locals /\ Shape(r) /\ SameWork(e, r) /\ r.call = "last"
           /\ r.pc = "check" \/ r.pc = "finish"
           /\ r.pc = "check" => r.look = Tail(e.look)
           /\ r.pc = "finish" => e.look = <<"nonEmpty">>
<1>1. CASE Len(e.look) > 1 /\ r = [e EXCEPT !.look = Tail(@)]
  <2>1. r \in Locals /\ SameWork(e, r) /\ r.pc = e.pc /\ r.call = e.call /\ r.look = Tail(e.look)
    BY <1>1, LookHead, TailIs
  <2>2. LookOK(r) BY <1>1, <2>1, LookTail DEF Shape
  <2> QED
    BY <2>1, <2>2 DEF SameWork, Shape, CallOK, WorkOK, OutputOK, HandOK, Pushing, Finished, Putting,
       OutputCalls, Idle, Looking
<1>2. CASE Len(e.look) = 1 /\ r = Unavailable(e)
  <2>1. r \in Locals /\ SameWork(e, r) /\ r.pc = "finish" /\ r.call = e.call
    BY <1>2, UnavailableIs
  <2>2. e.look = <<"nonEmpty">> BY <1>2, Looks DEF Shape, LookOK
  <2> QED
    BY <2>1, <2>2 DEF Mild, SameWork, Shape, CallOK, WorkOK, OutputOK, HandOK, LookOK, Owns, Joined, IsLast,
       Walking, Pushing, Finished, Putting, OutputCalls, Idle, Looking
<1> QED BY <1>1, <1>2, MissesIs

LEMMA MildChoose ==
    ASSUME NEW e \in Locals, Shape(e), e.pc = "choose", NEW look, look \in {InputLists, Reverse(InputLists)},
           NEW r, r = [e EXCEPT !.pc = "take", !.look = look]
    PROVE  Mild(e, r) /\ SameWork(e, r)
<1>1. look \in Seq(Lists)
  <2>1. <<"nonEmpty", "relativelyFull", "full">> \in Seq(Lists) BY DEF Lists
  <2> QED BY <2>1, Looks, ListsAre
<1>2. "take" \in Pcs BY DEF Pcs
<1>3. r \in Locals /\ SameWork(e, r) /\ r.pc = "take" /\ r.call = e.call /\ r.look = look
  BY <1>1, <1>2, LocalsAre DEF SameWork
<1> QED
  BY <1>3, Looks DEF Mild, SameWork, Shape, CallOK, WorkOK, OutputOK, HandOK, LookOK, Owns, Joined, IsLast,
     Walking, Pushing, Finished, Putting, OutputCalls, Idle, Looking

\* A packet becomes the input packet.
Taken(e, p) == [e EXCEPT !.pc = "took", !.input = p]

LEMMA MildTake ==
    ASSUME NEW e \in Locals, Shape(e), e.pc = "take", NEW p \in Packets, Len(p) <= Slots, NEW r, r = Taken(e, p)
    PROVE  /\ Mild(e, r) /\ r.input = p /\ e.input = NoPacket /\ r.output = e.output /\ r.hand = e.hand
           /\ r.item = e.item /\ r.todo = e.todo
<1>1. "took" \in Pcs BY DEF Pcs
<1>2. /\ r \in Locals /\ r.pc = "took" /\ r.call = e.call /\ r.round = e.round /\ r.from = e.from /\ r.todo = e.todo
      /\ r.item = e.item /\ r.input = p /\ r.output = e.output /\ r.hand = e.hand /\ r.selected = e.selected
      /\ r.look = e.look /\ r.doneIndex = e.doneIndex
  BY <1>1, LocalsAre DEF Taken
<1> QED
  BY <1>2 DEF Mild, SameWork, Shape, CallOK, WorkOK, OutputOK, HandOK, LookOK, Owns, Joined, IsLast, Walking,
     Pushing, Finished, Putting, OutputCalls, Idle, Looking

LEMMA MildTook ==
    ASSUME NEW e \in Locals, Shape(e), e.pc = "took", NEW r,
           r = Checks(e, "more") \/ r = Calls(e, "pop", "none")
    PROVE  Mild(e, r) /\ SameWork(e, r)
<1>1. CASE r = Checks(e, "more")
  <2>1. "more" \in CallNames BY DEF CallNames
  <2>2. r \in Locals /\ SameWork(e, r) /\ r.pc = "check" /\ r.call = "more" /\ r.look = InputLists
    BY <1>1, <2>1, ChecksIs
  <2> QED
    BY <2>2 DEF Mild, SameWork, Shape, CallOK, WorkOK, OutputOK, HandOK, LookOK, Owns, Joined, IsLast, Walking,
       Pushing, Finished, Putting, OutputCalls, Idle, Looking
<1>2. CASE r = Calls(e, "pop", "none")
  <2>1. "pop" \in Pcs /\ "none" \in CallNames BY DEF Pcs, CallNames
  <2>2. r \in Locals /\ SameWork(e, r) /\ r.pc = "pop" /\ r.call = "none" BY <1>2, <2>1, CallsIs
  <2> QED
    BY <2>2 DEF Mild, SameWork, Shape, CallOK, WorkOK, OutputOK, HandOK, LookOK, Owns, Joined, IsLast, Walking,
       Pushing, Finished, Putting, OutputCalls, Idle, Looking
<1> QED BY <1>1, <1>2

\* An empty packet becomes the output packet.
LEMMA TakeEmptyIs ==
    ASSUME NEW e \in Locals
    PROVE  LET r == Calls([e EXCEPT !.output = <<>>], "pushItem", "none") IN
           /\ r \in Locals /\ r.pc = "pushItem" /\ r.call = "none" /\ r.round = e.round /\ r.from = e.from
           /\ r.todo = e.todo /\ r.item = e.item /\ r.input = e.input /\ r.output = <<>> /\ r.hand = e.hand
           /\ r.selected = e.selected /\ r.doneIndex = e.doneIndex
<1> DEFINE f == [e EXCEPT !.output = <<>>]
<1>1. <<>> \in Packets BY DEF Packets
<1>2. /\ f \in Locals /\ f.round = e.round /\ f.from = e.from /\ f.item = e.item /\ f.todo = e.todo
      /\ f.input = e.input /\ f.output = <<>> /\ f.hand = e.hand /\ f.selected = e.selected
      /\ f.doneIndex = e.doneIndex
  BY <1>1, LocalsAre
<1>3. "pushItem" \in Pcs /\ "none" \in CallNames BY DEF Pcs, CallNames
<1> HIDE DEF f
<1>4. LET r == Calls(f, "pushItem", "none") IN
      r \in Locals /\ SameWork(f, r) /\ r.pc = "pushItem" /\ r.call = "none"
  BY <1>2, <1>3, CallsIs
<1> QED BY <1>2, <1>4 DEF f, SameWork

LEMMA EmptyLength == Len(<<>>) = 0 /\ 0 < Slots /\ 0 <= Slots /\ 0 < MaxPacketSearch
  BY PacketsAssumption

LEMMA MildTakeEmpty ==
    ASSUME NEW e \in Locals, Shape(e), e.pc \in {"takeEmpty", "allocate"}, NEW r,
           /\ r \in Locals /\ r.pc = "pushItem" /\ r.call = "none" /\ r.round = e.round /\ r.from = e.from
           /\ r.todo = e.todo /\ r.item = e.item /\ r.input = e.input /\ r.output = <<>> /\ r.hand = e.hand
           /\ r.selected = e.selected /\ r.doneIndex = e.doneIndex
    PROVE  Mild(e, r) /\ e.output = NoPacket
<1>1. e.hand = <<>> /\ e.selected = 0 /\ e.output = NoPacket /\ e.call \in OutputCalls
  BY LocalsFields, EmptyLength DEF Shape, CallOK, WorkOK, OutputOK, HandOK, Pushing, Putting, OutputCalls
<1> QED
  BY <1>1, EmptyLength DEF Mild, SameWork, Shape, CallOK, WorkOK, OutputOK, HandOK, LookOK, Owns, Joined,
     IsLast, Walking, Pushing, Finished, Putting, OutputCalls, Idle, Looking

LEMMA MildSearches ==
    ASSUME NEW e \in Locals, Shape(e), e.pc \in {"takeEmpty", "allocate"}, NEW call \in OutputCalls,
           NEW r, r = Searches(e, call)
    PROVE  Mild(e, r) /\ SameWork(e, r)
<1>1. e.hand = <<>> /\ e.selected = 0 /\ e.output = NoPacket /\ e.call \in OutputCalls
  BY LocalsFields, EmptyLength DEF Shape, CallOK, WorkOK, OutputOK, HandOK, Pushing, Putting, OutputCalls
<1>2. call \in CallNames BY DEF CallNames, OutputCalls
<1>3. r \in Locals /\ SameWork(e, r) /\ r.pc = "search" /\ r.call = call /\ r.look = OutputLists
  BY <1>2, SearchesIs
<1> QED
  BY <1>1, <1>3, EmptyLength DEF Mild, SameWork, Shape, CallOK, WorkOK, OutputOK, HandOK, LookOK, Owns, Joined,
     IsLast, Walking, Pushing, Finished, Putting, OutputCalls, Idle, Looking

\* A block was added, or there was no full packet to empty.
LEMMA MildRetry ==
    ASSUME NEW e \in Locals, Shape(e), e.pc \in {"allocate", "takeFull"}, NEW call \in OutputCalls,
           NEW r, r = Calls(e, "takeEmpty", call)
    PROVE  Mild(e, r) /\ SameWork(e, r)
<1>1. e.call \in OutputCalls BY DEF Shape, CallOK, OutputCalls
<1>2. "takeEmpty" \in Pcs /\ call \in CallNames BY DEF Pcs, CallNames, OutputCalls
<1>3. r \in Locals /\ SameWork(e, r) /\ r.pc = "takeEmpty" /\ r.call = call BY <1>2, CallsIs
<1> QED
  BY <1>1, <1>3 DEF Mild, SameWork, Shape, CallOK, WorkOK, OutputOK, HandOK, LookOK, Owns, Joined, IsLast,
     Walking, Pushing, Finished, Putting, OutputCalls, Idle, Looking

\* An emptied packet becomes the output packet.
Emptying(e) == [e EXCEPT !.output = <<>>, !.pc = "alert"]

LEMMA MildTakeFull ==
    ASSUME NEW e \in Locals, Shape(e), e.pc = "takeFull", NEW r, r = Emptying(e)
    PROVE  /\ Mild(e, r) /\ e.output = NoPacket /\ r.output = <<>> /\ r.input = e.input /\ r.hand = e.hand
           /\ r.item = e.item /\ r.todo = e.todo
<1>1. "alert" \in Pcs /\ <<>> \in Packets BY DEF Pcs, Packets
<1>2. /\ r \in Locals /\ r.pc = "alert" /\ r.call = e.call /\ r.round = e.round /\ r.from = e.from
      /\ r.todo = e.todo /\ r.item = e.item /\ r.input = e.input /\ r.output = <<>> /\ r.hand = e.hand
      /\ r.selected = e.selected /\ r.look = e.look /\ r.doneIndex = e.doneIndex
  BY <1>1, LocalsAre DEF Emptying
<1>3. e.hand = <<>> /\ e.selected = 0 /\ e.output = NoPacket /\ e.call = "second"
  BY LocalsFields, EmptyLength DEF Shape, CallOK, WorkOK, OutputOK, HandOK, Pushing, Putting, OutputCalls
<1> QED
  BY <1>2, <1>3, EmptyLength DEF Mild, SameWork, Shape, CallOK, WorkOK, OutputOK, HandOK, LookOK, Owns, Joined,
     IsLast, Walking, Pushing, Finished, Putting, OutputCalls, Idle, Looking

LEMMA MildLookAt ==
    ASSUME NEW e \in Locals, Shape(e), e.pc = "search", NEW p \in Packets, Len(p) <= Slots,
           NEW r, r = LookAt(e, p)
    PROVE  /\ Mild(e, r) /\ r.hand = Append(e.hand, p) /\ r.output = e.output /\ r.input = e.input
           /\ r.item = e.item /\ r.todo = e.todo
<1> DEFINE n == Len(e.hand)
           better == freeSlots(p) > MaxCapacity(e)
           enough == \/ n + 1 = MaxPacketSearch
                     \/ better /\ freeSlots(p) >= SatisfactoryCapacity
                     \/ ~better /\ MaxCapacity(e) >= FullPacketThreshold /\ freeSlots(p) < FullPacketThreshold
           hand == Append(e.hand, p)
           selected == IF better THEN n + 1 ELSE e.selected
           pc == IF enough THEN "putBack" ELSE e.pc
<1>1. r = [e EXCEPT !.hand = hand, !.look = OutputLists, !.selected = selected, !.pc = pc]
  BY DEF LookAt
<1>2. e.hand \in Seq(Packets) /\ n \in Nat /\ e.selected \in Nat BY LocalsFields
<1>3. hand \in Seq(Packets) /\ Len(hand) = n + 1 /\ hand[n + 1] = p /\ hand # <<>>
      /\ \A i \in 1..n : hand[i] = e.hand[i]
  BY <1>2
<1>4. n < MaxPacketSearch /\ e.selected <= n /\ e.output = NoPacket /\ e.call \in OutputCalls
  BY <1>2 DEF Shape, CallOK, OutputOK, HandOK
<1>5. selected \in 0..MaxPacketSearch /\ selected <= n + 1
  BY <1>2, <1>4, PacketsAssumption
<1>6. "putBack" \in Pcs /\ "search" \in Pcs BY DEF Pcs
<1>7. Len(p) \in Nat BY DEF Packets
<1>8. selected # 0 => Len(hand[selected]) + RequiredSlots <= Slots
  <2>1. CASE better
    <3>1. MaxCapacity(e) >= RequiredSlots - 1
      <4>1. CASE e.selected = 0 BY <4>1 DEF MaxCapacity, RequiredSlots
      <4>2. CASE e.selected # 0
        <5>1. Len(e.hand[e.selected]) + RequiredSlots <= Slots BY <4>2 DEF Shape, HandOK
        <5>2. e.selected \in 1..n BY <1>2, <1>4, <4>2
        <5>3. Len(e.hand[e.selected]) \in Nat BY <1>2, <5>2 DEF Packets
        <5> QED BY <4>2, <5>1, <5>3, PacketsAssumption DEF MaxCapacity, RequiredSlots, freeSlots
      <4> QED BY <4>1, <4>2
    <3>2. MaxCapacity(e) \in Int
      <4>1. CASE e.selected = 0 BY <4>1 DEF MaxCapacity, RequiredSlots
      <4>2. CASE e.selected # 0
        <5>1. e.selected \in 1..n BY <1>2, <1>4, <4>2
        <5>2. Len(e.hand[e.selected]) \in Nat BY <1>2, <5>1 DEF Packets
        <5> QED BY <4>2, <5>2, PacketsAssumption DEF MaxCapacity, freeSlots
      <4> QED BY <4>1, <4>2
    <3> HIDE DEF hand
    <3>3. Slots - Len(p) > RequiredSlots - 1
      BY <1>7, <2>1, <3>1, <3>2, PacketsAssumption DEF freeSlots, RequiredSlots
    <3> QED BY <1>3, <1>7, <2>1, <3>3, PacketsAssumption DEF RequiredSlots
  <2>2. CASE ~better
    <3>1. e.selected # 0 => Len(e.hand[e.selected]) + RequiredSlots <= Slots BY DEF Shape, HandOK
    <3>2. e.selected # 0 => e.selected \in 1..n BY <1>2, <1>4
    <3> HIDE DEF better
    <3> QED BY <1>3, <2>2, <3>1, <3>2
  <2> QED BY <2>1, <2>2
<1>9. pc = "putBack" \/ (pc = "search" /\ n + 1 # MaxPacketSearch) OBVIOUS
<1>10. \A i \in 1..Len(hand) : Len(hand[i]) <= Slots
  <2>1. \A i \in 1..n : Len(e.hand[i]) <= Slots BY DEF Shape, HandOK
  <2> QED BY <1>2, <1>3, <2>1
<1> HIDE DEF n, better, enough, hand, selected, pc
<1>11. /\ r \in Locals /\ r.pc = pc /\ r.call = e.call /\ r.round = e.round /\ r.from = e.from
       /\ r.todo = e.todo /\ r.item = e.item /\ r.input = e.input /\ r.output = e.output /\ r.hand = hand
       /\ r.selected = selected /\ r.look = OutputLists /\ r.doneIndex = e.doneIndex
  BY <1>1, <1>3, <1>5, <1>6, <1>9, ListsAre, LocalsAre
<1>12. pc = "search" => Len(hand) < MaxPacketSearch
  BY <1>2, <1>3, <1>4, <1>9, PacketsAssumption
<1>13. Mild(e, r)
  BY <1>3, <1>4, <1>5, <1>8, <1>9, <1>10, <1>11, <1>12 DEF Mild, SameWork, Shape, CallOK, WorkOK, OutputOK,
     HandOK, LookOK, Owns, Joined, IsLast, Walking, Pushing, Finished, Putting, OutputCalls, Idle, Looking
<1> QED BY <1>11, <1>13 DEF hand

LEMMA MildGiveUp ==
    ASSUME NEW e \in Locals, Shape(e), e.pc = "search", NEW r, r = GiveUp(e)
    PROVE  Mild(e, r) /\ SameWork(e, r)
<1>1. "putBack" \in Pcs BY DEF Pcs
<1>2. r \in Locals /\ SameWork(e, r) /\ r.pc = "putBack" /\ r.call = e.call BY <1>1, GotoIs DEF GiveUp
<1> QED
  BY <1>2 DEF Mild, SameWork, Shape, CallOK, WorkOK, OutputOK, HandOK, LookOK, Owns, Joined, IsLast, Walking,
     Pushing, Finished, Putting, OutputCalls, Idle, Looking

\* The selected packet becomes the output packet.
LEMMA MildSelected ==
    ASSUME NEW e \in Locals, Shape(e), e.pc = "putBack", e.hand # <<>>, Len(e.hand) = e.selected,
           NEW r, r = [e EXCEPT !.output = Last(e.hand), !.hand = Front(@), !.selected = 0]
    PROVE  /\ Mild(e, r) /\ e.output = NoPacket /\ r.output = Last(e.hand) /\ r.hand = Front(e.hand)
           /\ r.input = e.input /\ r.item = e.item /\ r.todo = e.todo
<1>1. e.hand \in Seq(Packets) BY LocalsFields
<1>2. /\ Len(e.hand) \in Nat \ {0} /\ Last(e.hand) \in Packets /\ Last(e.hand) = e.hand[Len(e.hand)]
      /\ Front(e.hand) \in Seq(Packets) /\ Len(Front(e.hand)) = Len(e.hand) - 1
      /\ \A i \in 1..(Len(e.hand) - 1) : Front(e.hand)[i] = e.hand[i]
  BY <1>1, FrontIs
<1>3. 0 \in 0..MaxPacketSearch BY PacketsAssumption
<1>4. /\ r \in Locals /\ r.pc = e.pc /\ r.call = e.call /\ r.round = e.round /\ r.from = e.from
      /\ r.todo = e.todo /\ r.item = e.item /\ r.input = e.input /\ r.output = Last(e.hand)
      /\ r.hand = Front(e.hand) /\ r.selected = 0 /\ r.look = e.look /\ r.doneIndex = e.doneIndex
  BY <1>2, <1>3, LocalsAre
<1>5. e.output = NoPacket /\ Len(e.hand[Len(e.hand)]) + RequiredSlots <= Slots
  BY <1>2 DEF Shape, HandOK
<1>6. Len(r.output) < Slots /\ Len(r.output) <= Slots
  <2>1. Len(r.output) \in Nat BY <1>2, <1>4 DEF Packets
  <2>2. Len(r.output) + RequiredSlots <= Slots BY <1>2, <1>4, <1>5
  <2> QED BY <2>1, <2>2, PacketsAssumption DEF RequiredSlots
<1>7. \A i \in 1..Len(r.hand) : Len(r.hand[i]) <= Slots
  <2>1. \A i \in 1..Len(e.hand) : Len(e.hand[i]) <= Slots BY DEF Shape, HandOK
  <2> QED BY <1>2, <1>4, <2>1
<1>8. 0 <= Len(r.hand) BY <1>2, <1>4
<1> QED
  BY <1>4, <1>5, <1>6, <1>7, <1>8 DEF Mild, SameWork, Shape, CallOK, WorkOK, OutputOK, HandOK, LookOK, Owns,
     Joined, IsLast, Walking, Pushing, Finished, Putting, OutputCalls, Idle, Looking

\* Packets that were not selected are put; then pushFailed goes on.
LEMMA MildPutBack ==
    ASSUME NEW e \in Locals, Shape(e), e.pc = "putBack", NEW r,
           \/ e.hand # <<>> /\ Len(e.hand) # e.selected /\ r = Goto(e, "put")
           \/ e.hand = <<>> /\ r = Calls(e, "pushItem", "none")
           \/ e.hand = <<>> /\ e.output = NoPacket /\ e.call = "first" /\ r = Goto(e, "allocate")
           \/ e.hand = <<>> /\ e.output = NoPacket /\ e.call = "second" /\ r = Goto(e, "takeFull")
    PROVE  Mild(e, r) /\ SameWork(e, r)
<1>1. CASE e.hand # <<>> /\ Len(e.hand) # e.selected /\ r = Goto(e, "put")
  <2>1. "put" \in Pcs BY DEF Pcs
  <2>2. r \in Locals /\ SameWork(e, r) /\ r.pc = "put" /\ r.call = e.call BY <1>1, <2>1, GotoIs
  <2>3. e.selected \in Nat /\ Len(e.hand) \in Nat BY LocalsFields
  <2> QED
    BY <1>1, <2>2, <2>3 DEF Mild, SameWork, Shape, CallOK, WorkOK, OutputOK, HandOK, LookOK, Owns, Joined,
       IsLast, Walking, Pushing, Finished, Putting, OutputCalls, Idle, Looking
<1>2. CASE e.hand = <<>> /\ r = Calls(e, "pushItem", "none")
  <2>1. "pushItem" \in Pcs /\ "none" \in CallNames BY DEF Pcs, CallNames
  <2>2. r \in Locals /\ SameWork(e, r) /\ r.pc = "pushItem" /\ r.call = "none" BY <1>2, <2>1, CallsIs
  <2>3. e.selected = 0 BY <1>2, LocalsFields, EmptyLength DEF Shape, HandOK
  <2> QED
    BY <1>2, <2>2, <2>3 DEF Mild, SameWork, Shape, CallOK, WorkOK, OutputOK, HandOK, LookOK, Owns, Joined,
       IsLast, Walking, Pushing, Finished, Putting, OutputCalls, Idle, Looking
<1>3. CASE e.hand = <<>> /\ e.output = NoPacket /\ e.call = "first" /\ r = Goto(e, "allocate")
  <2>1. "allocate" \in Pcs BY DEF Pcs
  <2>2. r \in Locals /\ SameWork(e, r) /\ r.pc = "allocate" /\ r.call = e.call BY <1>3, <2>1, GotoIs
  <2> QED
    BY <1>3, <2>2 DEF Mild, SameWork, Shape, CallOK, WorkOK, OutputOK, HandOK, LookOK, Owns, Joined, IsLast,
       Walking, Pushing, Finished, Putting, OutputCalls, Idle, Looking
<1>4. CASE e.hand = <<>> /\ e.output = NoPacket /\ e.call = "second" /\ r = Goto(e, "takeFull")
  <2>1. "takeFull" \in Pcs BY DEF Pcs
  <2>2. r \in Locals /\ SameWork(e, r) /\ r.pc = "takeFull" /\ r.call = e.call BY <1>4, <2>1, GotoIs
  <2> QED
    BY <1>4, <2>2 DEF Mild, SameWork, Shape, CallOK, WorkOK, OutputOK, HandOK, LookOK, Owns, Joined, IsLast,
       Walking, Pushing, Finished, Putting, OutputCalls, Idle, Looking
<1> QED BY <1>1, <1>2, <1>3, <1>4

\* pushFailed ends.
Resumed(e) == [e EXCEPT !.item = 0, !.pc = "mark"]
PushedItem(e) == [Resumed(e) EXCEPT !.output = Append(@, e.item)]

LEMMA MildPushItem ==
    ASSUME NEW e \in Locals, Shape(e), e.pc = "pushItem",
           NEW r, r = Resumed(e) \/ (e.output # NoPacket /\ r = PushedItem(e))
    PROVE  /\ Mild(e, r) /\ r.input = e.input /\ r.hand = e.hand /\ r.item = 0 /\ r.todo = e.todo
           /\ e.item \in Objects
           /\ r = Resumed(e) => r.output = e.output
           /\ e.output # NoPacket /\ r = PushedItem(e) => r.output = Append(e.output, e.item) /\ e.output \in Packets
<1> DEFINE f == Resumed(e)
<1>1. "mark" \in Pcs BY DEF Pcs
<1>2. /\ f \in Locals /\ f.pc = "mark" /\ f.call = e.call /\ f.round = e.round /\ f.from = e.from
      /\ f.todo = e.todo /\ f.item = 0 /\ f.input = e.input /\ f.output = e.output /\ f.hand = e.hand
      /\ f.selected = e.selected /\ f.look = e.look /\ f.doneIndex = e.doneIndex
  BY <1>1, LocalsAre DEF Resumed
<1>3. e.item \in Objects BY LocalsFields DEF Shape, WorkOK, Pushing
<1> HIDE DEF f
<1>4. ASSUME r = f
      PROVE  /\ Mild(e, r) /\ r.input = e.input /\ r.hand = e.hand /\ r.item = 0 /\ r.todo = e.todo
             /\ r.output = e.output
  BY <1>2, <1>3, <1>4 DEF Mild, SameWork, Shape, CallOK, WorkOK, OutputOK, HandOK, LookOK, Owns, Joined, IsLast,
     Walking, Pushing, Finished, Putting, OutputCalls, Idle, Looking
<1>5. ASSUME e.output # NoPacket, r = PushedItem(e)
      PROVE  /\ Mild(e, r) /\ r.input = e.input /\ r.hand = e.hand /\ r.item = 0 /\ r.todo = e.todo
             /\ r.output = Append(e.output, e.item) /\ e.output \in Packets
  <2>1. e.output \in Packets /\ Len(e.output) < Slots BY <1>2, <1>5, LocalsFields DEF Shape, OutputOK, Pushing
  <2>2. Append(e.output, e.item) \in Packets /\ Len(Append(e.output, e.item)) = Len(e.output) + 1
    BY <1>3, <2>1 DEF Packets
  <2>3. Len(e.output) \in Nat BY <2>1 DEF Packets
  <2>4. Len(Append(e.output, e.item)) <= Slots BY <2>1, <2>2, <2>3, PacketsAssumption
  <2>5. /\ r \in Locals /\ r.pc = "mark" /\ r.call = e.call /\ r.round = e.round /\ r.from = e.from
        /\ r.todo = e.todo /\ r.item = 0 /\ r.input = e.input /\ r.output = Append(e.output, e.item)
        /\ r.hand = e.hand /\ r.selected = e.selected /\ r.look = e.look /\ r.doneIndex = e.doneIndex
    <3>1. r = [f EXCEPT !.output = Append(@, e.item)] BY <1>5 DEF PushedItem, f
    <3> QED BY <1>2, <2>2, <3>1, LocalsAre
  <2> QED
    BY <1>2, <1>3, <1>5, <2>1, <2>4, <2>5 DEF Mild, SameWork, Shape, CallOK, WorkOK, OutputOK, HandOK, LookOK,
       Owns, Joined, IsLast, Walking, Pushing, Finished, Putting, OutputCalls, Idle, Looking
<1> QED BY <1>3, <1>4, <1>5 DEF f

\* The work stack is flushed: what is left is at most an empty output packet.
LEMMA FlushIs ==
    ASSUME NEW e \in Locals, Shape(e), e.pc = "flush"
    PROVE  /\ e.input = NoPacket
           /\ Own(e) \o e.hand = IF e.output = NoPacket THEN e.hand ELSE <<e.output>>
           /\ e.output # NoPacket => e.hand = <<>> /\ e.output = <<>>
<1>1. /\ e.input = NoPacket
      /\ e.output # NoPacket => e.hand = <<>> /\ e.output = <<>>
  BY DEF Shape, WorkOK, OutputOK, Idle, Finished
<1>2. e.hand \in Seq(Packets) BY LocalsFields
<1>3. CASE e.output = NoPacket
  <2>1. Own(e) = <<>> \o <<>> BY <1>1, <1>3 DEF Own, Just
  <2>2. <<>> \o <<>> = <<>> OBVIOUS
  <2>3. <<>> \o e.hand = e.hand BY <1>2
  <2> QED BY <1>1, <1>3, <2>1, <2>2, <2>3
<1>4. CASE e.output # NoPacket
  <2>1. Own(e) = <<e.output>> \o <<>> BY <1>1, <1>4 DEF Own, Just
  <2>2. <<e.output>> \o <<>> = <<e.output>> OBVIOUS
  <2> QED BY <1>1, <1>4, <2>1, <2>2
<1> QED BY <1>1, <1>3, <1>4

Left(e) == Own(e) \o e.hand
Flushing(e, packets) ==
    [e EXCEPT !.pc = "put", !.call = "flush", !.hand = packets, !.input = NoPacket, !.output = NoPacket]

LEMMA MildFlush ==
    ASSUME NEW e \in Locals, Shape(e), e.pc = "flush", NEW hand, hand = Left(e), NEW r,
           \/ hand = <<>> /\ r = Goto(e, "done")
           \/ hand # <<>> /\ r = Flushing(e, hand)
    PROVE  /\ Mild(e, r) /\ r.input = NoPacket /\ r.output = NoPacket /\ r.item = e.item /\ r.todo = e.todo
           /\ hand = <<>> => r.hand = <<>>
           /\ hand # <<>> => r.hand = hand
<1>1. /\ e.input = NoPacket /\ hand = (IF e.output = NoPacket THEN e.hand ELSE <<e.output>>)
      /\ e.output # NoPacket => e.hand = <<>> /\ e.output = <<>>
  BY FlushIs DEF Left
<1>2. hand \in Seq(Packets) /\ \A i \in 1..Len(hand) : hand[i] = <<>>
  <2>1. CASE e.output = NoPacket BY <1>1, <2>1, LocalsFields DEF Shape, HandOK, Finished
  <2>2. CASE e.output # NoPacket
    <3>1. hand = <<e.output>> /\ e.output \in Packets /\ e.output = <<>> BY <1>1, <2>2, LocalsFields
    <3>2. Len(hand) = 1 /\ hand[1] = e.output BY <3>1
    <3> QED BY <3>1, <3>2
  <2> QED BY <2>1, <2>2
<1>3. CASE hand = <<>> /\ r = Goto(e, "done")
  <2>1. "done" \in Pcs BY DEF Pcs
  <2>2. r \in Locals /\ SameWork(e, r) /\ r.pc = "done" /\ r.call = e.call BY <1>3, <2>1, GotoIs
  <2>3. e.output = NoPacket /\ e.hand = <<>> BY <1>1, <1>3
  <2> QED
    BY <1>1, <1>3, <2>2, <2>3 DEF Mild, SameWork, Shape, CallOK, WorkOK, OutputOK, HandOK, LookOK, Owns, Joined,
       IsLast, Walking, Pushing, Finished, Putting, OutputCalls, Idle, Looking
<1>4. CASE hand # <<>> /\ r = Flushing(e, hand)
  <2>1. "put" \in Pcs /\ "flush" \in CallNames BY DEF Pcs, CallNames
  <2>2. /\ r \in Locals /\ r.pc = "put" /\ r.call = "flush" /\ r.round = e.round /\ r.from = e.from
        /\ r.todo = e.todo /\ r.item = e.item /\ r.input = NoPacket /\ r.output = NoPacket
        /\ r.hand = hand /\ r.selected = e.selected /\ r.look = e.look /\ r.doneIndex = e.doneIndex
    BY <1>2, <1>4, <2>1, LocalsAre DEF Flushing
  <2>3. e.selected = 0 /\ 0 <= Len(hand)
    BY <1>2, LocalsFields DEF Shape, CallOK, WorkOK, OutputOK, HandOK, Pushing, Putting, OutputCalls
  <2>4. \A i \in 1..Len(hand) : Len(hand[i]) <= Slots BY <1>2, EmptyLength
  <2> QED
    BY <1>2, <1>4, <2>2, <2>3, <2>4 DEF Mild, SameWork, Shape, CallOK, WorkOK, OutputOK, HandOK, LookOK, Owns,
       Joined, IsLast, Walking, Pushing, Finished, Putting, OutputCalls, Idle, Looking
<1> QED BY <1>3, <1>4

\* A wait that is not needed any more.
LEMMA MildWaitEnds ==
    ASSUME NEW e \in Locals, Shape(e), e.pc = "wait", NEW r, r = Goto(e, "leave")
    PROVE  Mild(e, r) /\ SameWork(e, r)
<1>1. "leave" \in Pcs BY DEF Pcs
<1>2. r \in Locals /\ SameWork(e, r) /\ r.pc = "leave" /\ r.call = e.call BY <1>1, GotoIs
<1> QED
  BY <1>2 DEF Mild, SameWork, Shape, CallOK, WorkOK, OutputOK, HandOK, LookOK, Owns, Joined, IsLast, Walking,
     Pushing, Finished, Putting, OutputCalls, Idle, Looking

LEMMA MildWalkHeap ==
    ASSUME NEW e \in Locals, Shape(e), e.pc = "walk", NEW o \in Objects, NEW r, r = Scans(e, o, "walk")
    PROVE  /\ Mild(e, r) /\ r.input = e.input /\ r.output = e.output /\ r.hand = e.hand /\ r.item = e.item
           /\ r.todo = Refs[o]
<1>1. /\ r \in Locals /\ r.pc = "mark" /\ r.call = "none" /\ r.from = "walk" /\ r.todo = Refs[o]
      /\ r.round = e.round /\ r.item = e.item /\ r.input = e.input /\ r.output = e.output
      /\ r.hand = e.hand /\ r.selected = e.selected /\ r.look = e.look /\ r.doneIndex = e.doneIndex
  BY ScansIs
<1> QED
  BY <1>1 DEF Mild, SameWork, Shape, CallOK, WorkOK, OutputOK, HandOK, LookOK, Owns, Joined, IsLast, Walking,
     Pushing, Finished, Putting, OutputCalls, Idle, Looking

\* The other steps that change the place and the call alone.
LEMMA ShapeShifts ==
    ASSUME NEW e \in Locals, Shape(e), NEW r \in Locals, SameWork(e, r),
           \/ e.pc = "notify" /\ r.pc = "notifying" /\ r.call = e.call
           \/ e.pc = "enter" /\ r.pc = "entered" /\ r.call = e.call
           \/ e.pc = "alert" /\ r.pc = "notifying" /\ r.call = "overflowed"
           \/ e.pc = "entered" /\ r.pc = "check" /\ r.call \in {"last", "waiting"} /\ r.look = InputLists
           \/ e.pc = "finish" /\ r.pc = "leave" /\ r.call = e.call
           \/ e.pc = "wait" /\ r.pc = "waiting" /\ r.call = e.call
           \/ e.pc = "waiting" /\ r.pc = "check" /\ r.call = "waiting" /\ r.look = InputLists
           \/ e.pc = "leave" /\ r.pc = "scanDone" /\ r.call = "none"
           \/ e.pc = "leave" /\ r.pc = "check" /\ r.call = "get" /\ r.look = InputLists
           \/ e.pc = "scanDone" /\ r.pc \in {"sync", "flush"} /\ r.call = e.call
           \/ e.pc = "sync" /\ r.pc \in {"walk", "pop"} /\ r.call = e.call
           \/ e.pc = "walk" /\ r.pc = "pop" /\ r.call = e.call
    PROVE  Shape(r)
<1>1. CASE e.pc = "notify" /\ r.pc = "notifying" /\ r.call = e.call
  BY <1>1 DEF SameWork, Shape, CallOK, WorkOK, OutputOK, HandOK, LookOK, Pushing, Putting, OutputCalls, Idle,
     Looking, Finished
<1>2. CASE e.pc = "enter" /\ r.pc = "entered" /\ r.call = e.call
  BY <1>2 DEF SameWork, Shape, CallOK, WorkOK, OutputOK, HandOK, LookOK, Pushing, Putting, OutputCalls, Idle,
     Looking, Finished
<1>3. CASE e.pc = "alert" /\ r.pc = "notifying" /\ r.call = "overflowed"
  <2>1. e.hand = <<>> /\ e.selected = 0 /\ e.output = <<>>
    BY <1>3, LocalsFields, EmptyLength DEF Shape, CallOK, WorkOK, OutputOK, HandOK, Pushing, Putting,
       OutputCalls
  <2>2. Pushing(e) /\ e.item # 0 BY <1>3 DEF Shape, CallOK, WorkOK, Pushing, OutputCalls
  <2> QED
    BY <1>3, <2>1, <2>2, EmptyLength DEF SameWork, Shape, CallOK, WorkOK, OutputOK, HandOK, LookOK, Pushing,
       Putting, OutputCalls, Idle, Looking, Finished
<1>4. CASE e.pc = "entered" /\ r.pc = "check" /\ r.call \in {"last", "waiting"} /\ r.look = InputLists
  BY <1>4 DEF SameWork, Shape, CallOK, WorkOK, OutputOK, HandOK, LookOK, Pushing, Putting, OutputCalls, Idle,
     Looking, Finished
<1>5. CASE e.pc = "finish" /\ r.pc = "leave" /\ r.call = e.call
  BY <1>5 DEF SameWork, Shape, CallOK, WorkOK, OutputOK, HandOK, LookOK, Pushing, Putting, OutputCalls, Idle,
     Looking, Finished
<1>6. CASE e.pc = "wait" /\ r.pc = "waiting" /\ r.call = e.call
  BY <1>6 DEF SameWork, Shape, CallOK, WorkOK, OutputOK, HandOK, LookOK, Pushing, Putting, OutputCalls, Idle,
     Looking, Finished
<1>7. CASE e.pc = "waiting" /\ r.pc = "check" /\ r.call = "waiting" /\ r.look = InputLists
  BY <1>7 DEF SameWork, Shape, CallOK, WorkOK, OutputOK, HandOK, LookOK, Pushing, Putting, OutputCalls, Idle,
     Looking, Finished
<1>8. CASE e.pc = "leave" /\ r.pc = "scanDone" /\ r.call = "none"
  BY <1>8 DEF SameWork, Shape, CallOK, WorkOK, OutputOK, HandOK, LookOK, Pushing, Putting, OutputCalls, Idle,
     Looking, Finished
<1>9. CASE e.pc = "leave" /\ r.pc = "check" /\ r.call = "get" /\ r.look = InputLists
  BY <1>9 DEF SameWork, Shape, CallOK, WorkOK, OutputOK, HandOK, LookOK, Pushing, Putting, OutputCalls, Idle,
     Looking, Finished
<1>10. CASE e.pc = "scanDone" /\ r.pc \in {"sync", "flush"} /\ r.call = e.call
  <2>1. e.hand = <<>> /\ Len(<<>>) = 0 BY <1>10 DEF Shape, CallOK, HandOK, Putting, OutputCalls
  <2> QED
    BY <1>10, <2>1 DEF SameWork, Shape, CallOK, WorkOK, OutputOK, HandOK, LookOK, Pushing, Putting, OutputCalls,
       Idle, Looking, Finished
<1>11. CASE e.pc = "sync" /\ r.pc \in {"walk", "pop"} /\ r.call = e.call
  BY <1>11 DEF SameWork, Shape, CallOK, WorkOK, OutputOK, HandOK, LookOK, Pushing, Putting, OutputCalls, Idle,
     Looking, Finished
<1>12. CASE e.pc = "walk" /\ r.pc = "pop" /\ r.call = e.call
  BY <1>12 DEF SameWork, Shape, CallOK, WorkOK, OutputOK, HandOK, LookOK, Pushing, Putting, OutputCalls, Idle,
     Looking, Finished
<1> QED
  BY <1>1, <1>2, <1>3, <1>4, <1>5, <1>6, <1>7, <1>8, <1>9, <1>10, <1>11, <1>12

\* The output packet becomes the input packet.
LEMMA MildSwap ==
    ASSUME NEW e \in Locals, Shape(e), e.pc = "swap", HasWork(e.output), NEW r,
           r = Calls(Swapped(e), "pop", "none")
    PROVE  /\ Mild(e, r) /\ e.input = NoPacket /\ r.input = e.output /\ r.output = NoPacket
           /\ r.hand = e.hand /\ r.item = e.item /\ r.todo = e.todo
<1> DEFINE f == [e EXCEPT !.input = e.output, !.output = NoPacket]
<1>1. /\ f \in Locals /\ f.round = e.round /\ f.from = e.from /\ f.item = e.item /\ f.todo = e.todo
      /\ f.input = e.output /\ f.output = NoPacket /\ f.hand = e.hand /\ f.selected = e.selected
      /\ f.doneIndex = e.doneIndex
  BY LocalsAre
<1>2. "pop" \in Pcs /\ "none" \in CallNames BY DEF Pcs, CallNames
<1>3. r = Calls(f, "pop", "none") BY DEF Swapped
<1> HIDE DEF f
<1>4. r \in Locals /\ SameWork(f, r) /\ r.pc = "pop" /\ r.call = "none" BY <1>1, <1>2, <1>3, CallsIs
<1> QED
  BY <1>1, <1>4 DEF Mild, SameWork, Shape, CallOK, WorkOK, OutputOK, HandOK, LookOK, Owns, Joined, IsLast,
     Walking, Pushing, Finished, Putting, OutputCalls, Idle, Looking, HasWork

\* getInputPacket is called, and reads the done index.
LEMMA GetIs ==
    ASSUME NEW e \in Locals, Shape(e), e.pc = "swap", ~HasWork(e.output), NEW index \in Nat, NEW r,
           r = Checks([e EXCEPT !.doneIndex = index], "get")
    PROVE  /\ r \in Locals /\ Shape(r) /\ r.pc = "check" /\ r.call = "get" /\ r.doneIndex = index
           /\ r.round = e.round /\ r.from = e.from /\ r.todo = e.todo /\ r.item = e.item
           /\ r.input = e.input /\ r.output = e.output /\ r.hand = e.hand
<1> DEFINE f == [e EXCEPT !.doneIndex = index]
<1>1. /\ f \in Locals /\ f.round = e.round /\ f.from = e.from /\ f.item = e.item /\ f.todo = e.todo
      /\ f.input = e.input /\ f.output = e.output /\ f.hand = e.hand /\ f.selected = e.selected
      /\ f.doneIndex = index
  BY LocalsAre
<1>2. "get" \in CallNames BY DEF CallNames
<1> HIDE DEF f
<1>3. r \in Locals /\ SameWork(f, r) /\ r.pc = "check" /\ r.call = "get" /\ r.look = InputLists
  BY <1>1, <1>2, ChecksIs DEF f
<1>4. e.hand = <<>> BY DEF Shape, CallOK, WorkOK, OutputOK, HandOK, Pushing, Putting, OutputCalls
<1> QED
  BY <1>1, <1>3, <1>4, EmptyLength DEF Mild, SameWork, Shape, CallOK, WorkOK, OutputOK, HandOK, LookOK, Owns,
     Joined, IsLast, Walking, Pushing, Finished, Putting, OutputCalls, Idle, Looking, HasWork

\* More roots are marked before another completeScan.
MoreRoots(e) == [e EXCEPT !.pc = "mark", !.from = "roots", !.round = @ + 1, !.todo = Roots[e.round + 1]]

LEMMA RootsIs ==
    ASSUME NEW e \in Locals, Shape(e), e.pc = "scanDone", e.round < Len(Roots), NEW r,
           r = MoreRoots(e)
    PROVE  /\ r \in Locals /\ Shape(r) /\ r.pc = "mark" /\ r.call = "none" /\ r.doneIndex = e.doneIndex
           /\ r.round = e.round + 1 /\ r.from = "roots" /\ r.todo = Roots[e.round + 1] /\ r.item = e.item
           /\ r.input = e.input /\ r.output = e.output /\ r.hand = e.hand
<1>1. e.round \in 1..Len(Roots) /\ Len(Roots) \in Nat BY LocalsFields, HeapAssumption
<1>2. e.round + 1 \in 1..Len(Roots) BY <1>1
<1>3. Roots[e.round + 1] \in Seq(Objects) BY <1>2, HeapAssumption
<1>4. "mark" \in Pcs BY DEF Pcs
<1>5. /\ r \in Locals /\ r.pc = "mark" /\ r.call = e.call /\ r.round = e.round + 1 /\ r.from = "roots"
      /\ r.todo = Roots[e.round + 1] /\ r.item = e.item /\ r.input = e.input /\ r.output = e.output
      /\ r.hand = e.hand /\ r.selected = e.selected /\ r.look = e.look /\ r.doneIndex = e.doneIndex
  BY <1>2, <1>3, <1>4, LocalsAre DEF MoreRoots
<1> QED
  BY <1>5 DEF Mild, SameWork, Shape, CallOK, WorkOK, OutputOK, HandOK, LookOK, Owns, Joined, IsLast, Walking,
     Pushing, Finished, Putting, OutputCalls, Idle, Looking

-----------------------------------------------------------------------------
(* A step of one thread: what it has to show of each part of the invariant. *)

\* Thread t has the locals r after the step.
Turns(t, r) == r \in Locals /\ env' = [env EXCEPT ![t] = r]

LEMMA TurnsIs ==
    ASSUME env \in [Threads -> Locals], NEW t \in Threads, NEW r, Turns(t, r)
    PROVE  /\ env' \in [Threads -> Locals] /\ env'[t] = r
           /\ \A u \in Threads : u # t => env'[u] = env[u]
           /\ \A u \in Threads : env[u] \in Locals
  BY DEF Turns

LEMMA ShapeFrame ==
    ASSUME TypeOK, ShapeInv, NEW t \in Threads, NEW r, Turns(t, r), Shape(r)
    PROVE  ShapeInv'
<1>1. env' \in [Threads -> Locals] /\ env'[t] = r /\ \A u \in Threads : u # t => env'[u] = env[u]
  BY TurnsIs DEF TypeOK
<1> QED BY <1>1 DEF ShapeInv

LEMMA MonitorFrame ==
    ASSUME TypeOK, MonitorInv, NEW t \in Threads, NEW r, Turns(t, r), Owns(r) <=> Owns(env[t]),
           env[t].pc # "waiting", r.pc # "waiting", UNCHANGED <<owner, count, saved>>,
           waitState' \in [Threads -> {"none", "waiting", "woken"}],
           \A u \in Threads : waitState'[u] = "none" <=> waitState[u] = "none"
    PROVE  MonitorInv' /\ Monitor!TypeOK'
<1>1. env'[t] = r /\ \A u \in Threads : u # t => env'[u] = env[u] BY TurnsIs DEF TypeOK
<1>2. \A u \in Threads : Owns(env'[u]) <=> owner' = u BY <1>1 DEF MonitorInv
<1>3. \A u \in Threads : env'[u].pc = "waiting" <=> env[u].pc = "waiting" BY <1>1
<1>4. Monitor!TypeOK' BY DEF TypeOK, Monitor!TypeOK
<1> HIDE DEF Owns
<1> QED BY <1>2, <1>3, <1>4 DEF MonitorInv

LEMMA MonitorEnter ==
    ASSUME TypeOK, MonitorInv, NEW t \in Threads, NEW r, Turns(t, r), ~Owns(env[t]), Owns(r),
           r.pc # "waiting", Monitor!Enter(t)
    PROVE  MonitorInv' /\ Monitor!TypeOK'
<1>1. env'[t] = r /\ \A u \in Threads : u # t => env'[u] = env[u] BY TurnsIs DEF TypeOK
<1>2. owner = NoThread /\ owner' = t /\ count' = 1 /\ waitState' = waitState /\ saved' = saved /\ waitState[t] = "none"
  BY DEF MonitorInv, Monitor!Enter
<1>3. \A u \in Threads : Owns(env'[u]) <=> owner' = u BY <1>1, <1>2, ThreadsAssumption DEF MonitorInv
<1>4. \A u \in Threads : env'[u].pc = "waiting" <=> env[u].pc = "waiting" BY <1>1, <1>2 DEF MonitorInv
<1>5. Monitor!TypeOK' BY <1>2 DEF TypeOK, Monitor!TypeOK
<1> HIDE DEF Owns
<1> QED BY <1>2, <1>3, <1>4, <1>5, ThreadsAssumption DEF MonitorInv

LEMMA MonitorExit ==
    ASSUME TypeOK, MonitorInv, NEW t \in Threads, NEW r, Turns(t, r), ~Owns(r),
           env[t].pc # "waiting", r.pc # "waiting", Monitor!Exit(t)
    PROVE  MonitorInv' /\ Monitor!TypeOK'
<1>1. env'[t] = r /\ \A u \in Threads : u # t => env'[u] = env[u] BY TurnsIs DEF TypeOK
<1>2. owner = t /\ owner' = NoThread /\ count' = 0 /\ waitState' = waitState /\ saved' = saved
  BY ThreadsAssumption DEF MonitorInv, Monitor!Exit
<1>3. \A u \in Threads : Owns(env'[u]) <=> owner' = u BY <1>1, <1>2, ThreadsAssumption DEF MonitorInv
<1>4. \A u \in Threads : env'[u].pc = "waiting" <=> env[u].pc = "waiting" BY <1>1, <1>2 DEF MonitorInv
<1>5. Monitor!TypeOK' BY <1>2 DEF TypeOK, Monitor!TypeOK
<1> HIDE DEF Owns
<1> QED BY <1>2, <1>3, <1>4, <1>5, ThreadsAssumption DEF MonitorInv

LEMMA MonitorWait ==
    ASSUME TypeOK, MonitorInv, NEW t \in Threads, NEW r, Turns(t, r), ~Owns(r), r.pc = "waiting", Monitor!Wait(t)
    PROVE  MonitorInv' /\ Monitor!TypeOK'
<1>1. env'[t] = r /\ \A u \in Threads : u # t => env'[u] = env[u] BY TurnsIs DEF TypeOK
<1>2. /\ owner = t /\ owner' = NoThread /\ count = 1 /\ count' = 0
      /\ waitState' = [waitState EXCEPT ![t] = "waiting"] /\ saved' = [saved EXCEPT ![t] = 1]
  BY ThreadsAssumption DEF MonitorInv, Monitor!Wait
<1>3. \A u \in Threads : Owns(env'[u]) <=> owner' = u BY <1>1, <1>2, ThreadsAssumption DEF MonitorInv
<1>4. /\ waitState \in [Threads -> {"none", "waiting", "woken"}] /\ saved \in [Threads -> Nat]
      /\ waitState' \in [Threads -> {"none", "waiting", "woken"}] /\ saved' \in [Threads -> Nat]
  BY <1>2 DEF TypeOK, Monitor!TypeOK
<1>5. Monitor!TypeOK' BY <1>2, <1>4 DEF Monitor!TypeOK
<1>6. \A u \in Threads : /\ waitState'[u] # "none" <=> env'[u].pc = "waiting"
                         /\ saved'[u] = IF waitState'[u] = "none" THEN 0 ELSE 1
  BY <1>1, <1>2, <1>4 DEF MonitorInv
<1> HIDE DEF Owns
<1> QED BY <1>2, <1>3, <1>5, <1>6, ThreadsAssumption DEF MonitorInv

LEMMA MonitorReacquire ==
    ASSUME TypeOK, MonitorInv, NEW t \in Threads, NEW r, Turns(t, r), Owns(r), r.pc # "waiting",
           Monitor!Reacquire(t)
    PROVE  MonitorInv' /\ Monitor!TypeOK'
<1>1. env'[t] = r /\ \A u \in Threads : u # t => env'[u] = env[u] BY TurnsIs DEF TypeOK
<1>2. /\ owner = NoThread /\ owner' = t /\ count' = 1
      /\ waitState' = [waitState EXCEPT ![t] = "none"] /\ saved' = [saved EXCEPT ![t] = 0]
  BY ThreadsAssumption DEF MonitorInv, Monitor!Reacquire
<1>3. \A u \in Threads : Owns(env'[u]) <=> owner' = u BY <1>1, <1>2, ThreadsAssumption DEF MonitorInv
<1>4. /\ waitState \in [Threads -> {"none", "waiting", "woken"}] /\ saved \in [Threads -> Nat]
      /\ waitState' \in [Threads -> {"none", "waiting", "woken"}] /\ saved' \in [Threads -> Nat]
  BY <1>2 DEF TypeOK, Monitor!TypeOK
<1>5. Monitor!TypeOK' BY <1>2, <1>4 DEF Monitor!TypeOK
<1>6. \A u \in Threads : /\ waitState'[u] # "none" <=> env'[u].pc = "waiting"
                         /\ saved'[u] = IF waitState'[u] = "none" THEN 0 ELSE 1
  BY <1>1, <1>2, <1>4 DEF MonitorInv
<1> HIDE DEF Owns
<1> QED BY <1>2, <1>3, <1>5, <1>6, ThreadsAssumption DEF MonitorInv

LEMMA IndexFrame ==
    ASSUME TypeOK, IndexInv, NEW t \in Threads, NEW r, Turns(t, r), inputListDoneIndex' = inputListDoneIndex,
           r.doneIndex <= inputListDoneIndex,
           r.call \in {"get", "getNoWait"} => r.doneIndex = inputListDoneIndex
    PROVE  IndexInv'
<1>1. env'[t] = r /\ \A u \in Threads : u # t => env'[u] = env[u] BY TurnsIs DEF TypeOK
<1> QED BY <1>1 DEF IndexInv

LEMMA CountFrame ==
    ASSUME TypeOK, WaitCountExact, NEW t \in Threads, NEW r, Turns(t, r), UNCHANGED countVars,
           Counted(t)' <=> Counted(t)
    PROVE  WaitCountExact'
<1>1. env'[t] = r /\ \A u \in Threads : u # t => env'[u] = env[u] BY TurnsIs DEF TypeOK
<1>2. \A u \in Threads : u # t => (Counted(u)' <=> Counted(u)) BY <1>1 DEF Counted, At, countVars
<1>3. {u \in Threads : Counted(u)'} = {u \in Threads : Counted(u)} BY <1>2
<1>4. {u \in Threads : Counted(u)}' = {u \in Threads : Counted(u)'} OBVIOUS
<1> QED BY <1>3, <1>4 DEF WaitCountExact, countVars

\* Nobody else takes a step while the last thread looks at the lists.
LEMMA OthersSleep ==
    ASSUME LastInv, MonitorInv, NEW u \in Threads, IsLast(env[u])
    PROVE  owner = u /\ \A t \in Threads : t # u => env[t].pc = "waiting"
<1>1. Owns(env[u]) /\ \A t \in Threads : Counted(t) BY DEF LastInv, IsLast, Owns
<1>2. owner = u /\ \A t \in Threads : t # u => ~Owns(env[t]) BY <1>1 DEF MonitorInv
<1> QED BY <1>1, <1>2 DEF Counted, Owns, At

LEMMA LastFrame ==
    ASSUME TypeOK, LastInv, MonitorInv, NEW t \in Threads, NEW r, Turns(t, r), ~IsLast(r),
           env[t].pc # "waiting" \/ owner = NoThread
    PROVE  LastInv'
<1>1. env'[t] = r /\ \A u \in Threads : u # t => env'[u] = env[u] BY TurnsIs DEF TypeOK
<1>2. ASSUME NEW u \in Threads, IsLast(env'[u]) PROVE FALSE
  <2>1. u # t /\ IsLast(env[u]) BY <1>1, <1>2
  <2>2. owner = u /\ env[t].pc = "waiting" BY <2>1, OthersSleep
  <2> QED BY <2>2, ThreadsAssumption
<1> QED BY <1>2 DEF LastInv, IsLast

LEMMA WalkFrame ==
    ASSUME TypeOK, WalkInv, NEW t \in Threads, NEW r, Turns(t, r), walk' = 0 <=> walk = 0,
           Walking(r) <=> Walking(env[t]), env[t].pc # "sync" \/ r.pc = "sync"
    PROVE  WalkInv'
<1>1. env'[t] = r /\ \A u \in Threads : u # t => env'[u] = env[u] BY TurnsIs DEF TypeOK
<1>2. walk # 0 => t = Master \/ r.pc = "sync" BY DEF WalkInv
<1> HIDE DEF Walking
<1> QED BY <1>1, <1>2 DEF WalkInv

LEMMA QuietFrame ==
    ASSUME TypeOK, QuietInv, NEW t \in Threads, NEW r, Turns(t, r), inputListDoneIndex' = inputListDoneIndex,
           walk' = 0 => walk = 0,
           (Late(t) \/ Finished(env[t]))' => Late(t) \/ Finished(env[t]),
           \/ \A l \in WorkLists : list[l] = <<>> => list'[l] = <<>>
           \/ ~(Late(t) \/ Finished(env[t]))
    PROVE  QuietInv'
<1>1. env'[t] = r /\ \A u \in Threads : u # t => env'[u] = env[u] BY TurnsIs DEF TypeOK
<1>2. \A u \in Threads : (Late(u) \/ Finished(env[u]))' => Late(u) \/ Finished(env[u])
  BY <1>1 DEF Late
<1> QED BY <1>2 DEF QuietInv

LEMMA CompleteFrame ==
    ASSUME TypeOK, CompleteInv, NEW t \in Threads, NEW r, Turns(t, r), inputListDoneIndex' = inputListDoneIndex,
           scanned \subseteq scanned', overflow => overflow',
           Late(t)' /\ r.pc # "sync" => Late(t) /\ env[t].pc # "sync" /\ r.round = env[t].round
    PROVE  CompleteInv'
<1>1. env'[t] = r /\ \A u \in Threads : u # t => env'[u] = env[u] BY TurnsIs DEF TypeOK
<1>2. \A u \in Threads : Late(u)' /\ env'[u].pc # "sync" =>
                         Late(u) /\ env[u].pc # "sync" /\ env'[u].round = env[u].round
  BY <1>1 DEF Late
<1> QED BY <1>2 DEF CompleteInv

LEMMA MarkingFrame ==
    ASSUME TypeOK, MarkingComplete, NEW t \in Threads, NEW r, Turns(t, r), scanned \subseteq scanned',
           \A q \in 1..Len(Roots) : Past(t, q)' => Past(t, q) \/ Reachable[q] \subseteq scanned
    PROVE  MarkingComplete'
<1>1. env'[t] = r /\ \A u \in Threads : u # t => env'[u] = env[u] BY TurnsIs DEF TypeOK
<1>2. \A u \in Threads, q \in 1..Len(Roots) : Past(u, q)' => Past(u, q) \/ Reachable[q] \subseteq scanned
  BY <1>1 DEF Past
<1> QED BY <1>2 DEF MarkingComplete

\* What is left when packets, marks and slots are set aside.
Control ==
    /\ ShapeInv /\ MonitorInv /\ IndexInv /\ WaitCountExact /\ LastInv /\ WalkInv /\ QuietInv /\ CompleteInv
    /\ MarkingComplete

LEMMA MildFrame ==
    ASSUME TypeOK, Control, NEW t \in Threads, NEW r, Turns(t, r), Mild(env[t], r),
           UNCHANGED <<countVars, owner, count, saved>>,
           waitState' \in [Threads -> {"none", "waiting", "woken"}],
           \A u \in Threads : waitState'[u] = "none" <=> waitState[u] = "none",
           scanned \subseteq scanned', overflow => overflow', walk' = 0 <=> walk = 0,
           \/ \A l \in WorkLists : list[l] = <<>> => list'[l] = <<>>
           \/ env[t].pc \in Putting /\ env[t].call # "flush"
    PROVE  Control' /\ Monitor!TypeOK'
<1> DEFINE e == env[t]
<1>1. env'[t] = r /\ e \in Locals BY TurnsIs DEF TypeOK
<1>2. UNCHANGED countVars /\ inputListDoneIndex' = inputListDoneIndex BY DEF countVars
<1>3. ShapeInv' BY ShapeFrame DEF Control, Mild
<1>4. MonitorInv' /\ Monitor!TypeOK' BY MonitorFrame DEF Control, Mild
<1>5. e.doneIndex <= inputListDoneIndex
      /\ (e.call \in {"get", "getNoWait"} => e.doneIndex = inputListDoneIndex)
  BY DEF Control, IndexInv
<1>6. IndexInv' BY <1>2, <1>5, IndexFrame DEF Control, Mild
<1>7. Counted(t)' <=> Counted(t) BY <1>1, <1>2 DEF Counted, At, Mild, Joined
<1>8. WaitCountExact' BY <1>2, <1>7, CountFrame DEF Control
<1>9. LastInv' BY LastFrame DEF Control, Mild
<1>10. WalkInv' BY WalkFrame DEF Control, Mild
<1>11. IsLast(e) => e.doneIndex = inputListDoneIndex BY DEF Control, LastInv, IsLast, Counted
<1>12. Late(t)' => Late(t) /\ e.pc # "sync" /\ r.pc # "sync"
  BY <1>1, <1>2, <1>11 DEF Late, Mild, Joined, IsLast, Control, ShapeInv, Shape, CallOK
<1>13. QuietInv'
  <2>1. (Late(t) \/ Finished(env[t]))' => Late(t) \/ Finished(env[t]) BY <1>1, <1>12 DEF Mild
  <2>2. env[t].pc \in Putting /\ env[t].call # "flush" => ~(Late(t) \/ Finished(env[t]))
    BY DEF Putting, Late, Finished
  <2> QED BY <1>2, <2>1, <2>2, QuietFrame DEF Control
<1>14. CompleteInv' BY <1>2, <1>12, CompleteFrame DEF Control, Mild
<1>15. MarkingComplete'
  <2>1. \A q \in 1..Len(Roots) : Past(t, q)' => Past(t, q) BY <1>1 DEF Past, Mild, Finished
  <2> QED BY <2>1, MarkingFrame DEF Control
<1> QED BY <1>3, <1>4, <1>6, <1>8, <1>9, <1>10, <1>13, <1>14, <1>15 DEF Control

\* A thread enters or leaves the monitor, or calls getInputPacket.
LEMMA CalmFrame ==
    ASSUME TypeOK, Control, NEW t \in Threads, NEW r, Turns(t, r), Shape(r), MonitorInv',
           UNCHANGED <<list, countVars, markVars>>,
           env[t].pc # "waiting" \/ owner = NoThread, env[t].pc # "sync", r.pc \notin {"sync", "scanDone"},
           ~IsLast(env[t]), ~IsLast(r), Walking(r) <=> Walking(env[t]), Finished(r) => Finished(env[t]),
           Joined(r) <=> Joined(env[t]), r.round = env[t].round,
           r.doneIndex = env[t].doneIndex \/ (r.doneIndex = inputListDoneIndex /\ ~Joined(r)),
           r.call \in {"get", "getNoWait"} => r.doneIndex = inputListDoneIndex
    PROVE  Control'
<1> DEFINE e == env[t]
<1>1. env'[t] = r /\ e \in Locals BY TurnsIs DEF TypeOK
<1>2. UNCHANGED countVars /\ inputListDoneIndex' = inputListDoneIndex BY DEF countVars
<1>3. scanned' = scanned /\ overflow' = overflow /\ walk' = walk BY DEF markVars
<1>4. ShapeInv' BY ShapeFrame DEF Control
<1>5. IndexInv'
  <2>1. e.doneIndex <= inputListDoneIndex /\ inputListDoneIndex <= inputListDoneIndex
    BY DEF Control, IndexInv, TypeOK
  <2> QED BY <1>2, <2>1, IndexFrame DEF Control
<1>6. Counted(t)' <=> Counted(t) BY <1>1, <1>2 DEF Counted, At, Joined
<1>7. WaitCountExact' BY <1>2, <1>6, CountFrame DEF Control
<1>8. LastInv' BY LastFrame DEF Control
<1>9. WalkInv' BY <1>3, WalkFrame DEF Control
<1>10. Late(t)' => Late(t) /\ e.pc # "sync" /\ r.pc # "sync"
  BY <1>1, <1>2 DEF Late, Joined, IsLast, Control, ShapeInv, Shape, CallOK
<1>11. QuietInv'
  <2>1. (Late(t) \/ Finished(env[t]))' => Late(t) \/ Finished(env[t]) BY <1>1, <1>10
  <2> QED BY <1>2, <1>3, <2>1, QuietFrame DEF Control
<1>12. CompleteInv' BY <1>2, <1>3, <1>10, CompleteFrame DEF Control
<1>13. MarkingComplete'
  <2>1. \A q \in 1..Len(Roots) : Past(t, q)' => Past(t, q) BY <1>1 DEF Past, Finished
  <2> QED BY <1>3, <2>1, MarkingFrame DEF Control
<1> QED BY <1>4, <1>5, <1>7, <1>8, <1>9, <1>11, <1>12, <1>13 DEF Control

LEMMA LocalsOf ==
    ASSUME TypeOK, Control, NEW t \in Threads
    PROVE  env[t] \in Locals /\ Shape(env[t])
  BY DEF TypeOK, Control, ShapeInv

\* The fields of packets and slots are as before.
KeepsWork(e, r) ==
    /\ r.round = e.round /\ r.todo = e.todo /\ r.item = e.item /\ r.input = e.input /\ r.output = e.output
    /\ r.hand = e.hand

LEMMA TryEnterControl ==
    ASSUME TypeOK, Control, NEW t \in Threads, At(t, "notify"), Monitor!Enter(t), Becomes(t, Goto(env[t], "notifying")),
           UNCHANGED <<listVars, countVars, markVars>>
    PROVE  Control' /\ Monitor!TypeOK' /\ \E r : Turns(t, r) /\ KeepsWork(env[t], r)
<1> DEFINE e == env[t]  r == Goto(e, "notifying")
<1>1. e \in Locals /\ Shape(e) /\ e.pc = "notify" BY LocalsOf DEF At
<1>2. "notifying" \in Pcs BY DEF Pcs
<1>3. r \in Locals /\ SameWork(e, r) /\ r.pc = "notifying" /\ r.call = e.call BY <1>1, <1>2, GotoIs
<1>4. Turns(t, r) BY <1>3 DEF Turns, Becomes
<1> HIDE DEF r
<1>5. Shape(r) BY <1>1, <1>3, ShapeShifts
<1>6. MonitorInv' /\ Monitor!TypeOK' BY <1>1, <1>3, <1>4, MonitorEnter DEF Control, Owns
<1>7. Control'
  BY <1>1, <1>3, <1>4, <1>5, <1>6, CalmFrame
     DEF SameWork, IsLast, Walking, Finished, Joined, Pushing, OutputCalls, listVars, Shape, CallOK
<1> QED BY <1>3, <1>4, <1>6, <1>7 DEF KeepsWork, SameWork

LEMMA NotifiedControl ==
    ASSUME TypeOK, Control, NEW t \in Threads, Notified(t)
    PROVE  Control' /\ Monitor!TypeOK' /\ \E r : Turns(t, r) /\ KeepsWork(env[t], r)
<1> DEFINE e == env[t]  r == Returns(e)
<1>1. e \in Locals /\ Shape(e) /\ e.pc = "notified" BY LocalsOf DEF At, Notified
<1>2. /\ r \in Locals /\ Shape(r) /\ r.pc \notin {"waiting", "sync", "scanDone"}
      /\ ~Owns(r) /\ ~Joined(r) /\ ~IsLast(r) /\ ~Joined(e)
      /\ Walking(r) <=> Walking(e)
      /\ Finished(r) => Finished(e)
      /\ r.call \notin {"get", "getNoWait"}
      /\ SameWork(e, r)
  BY <1>1, NotifyReturns
<1>4. Turns(t, r) BY <1>2 DEF Turns, Becomes, Notified
<1> HIDE DEF r
<1>6. MonitorInv' /\ Monitor!TypeOK' BY <1>1, <1>2, <1>4, MonitorExit DEF Control, Notified
<1>7. Control'
  BY <1>1, <1>2, <1>4, <1>6, CalmFrame DEF SameWork, IsLast, listVars, Notified
<1> QED BY <1>2, <1>4, <1>6, <1>7 DEF KeepsWork, SameWork

LEMMA EnterControl ==
    ASSUME TypeOK, Control, NEW t \in Threads, Enter(t)
    PROVE  Control' /\ Monitor!TypeOK' /\ \E r : Turns(t, r) /\ KeepsWork(env[t], r)
<1> DEFINE e == env[t]
<1>1. e \in Locals /\ Shape(e) BY LocalsOf
<1>2. ASSUME NEW r \in Locals, SameWork(e, r), Becomes(t, r),
             \/ e.pc = "enter" /\ r.pc = "entered" /\ r.call = e.call
             \/ e.pc = "alert" /\ r.pc = "notifying" /\ r.call = "overflowed"
      PROVE  Control' /\ Monitor!TypeOK' /\ \E q : Turns(t, q) /\ KeepsWork(env[t], q)
  <2>1. Turns(t, r) BY <1>2 DEF Turns, Becomes
  <2>2. Shape(r) BY <1>1, <1>2, ShapeShifts
  <2>3. MonitorInv' /\ Monitor!TypeOK' BY <1>2, <2>1, MonitorEnter DEF Control, Owns, Enter
  <2>4. r.call \in {"get", "getNoWait"} => r.doneIndex = inputListDoneIndex
    BY <1>2 DEF Control, IndexInv, SameWork
  <2>5. Control'
    <3>1. UNCHANGED <<list, countVars, markVars>> BY DEF Enter, listVars
    <3>2. Walking(r) <=> Walking(e)
      BY <1>1, <1>2 DEF SameWork, Walking, Pushing, OutputCalls, Shape, CallOK
    <3>3. ~IsLast(e) /\ ~IsLast(r) /\ ~Joined(e) /\ ~Joined(r) /\ (Finished(r) => Finished(e))
      BY <1>1, <1>2 DEF IsLast, Finished, Joined, Shape, CallOK
    <3> QED BY <1>1, <1>2, <2>1, <2>2, <2>3, <2>4, <3>1, <3>2, <3>3, CalmFrame DEF SameWork
  <2> QED BY <1>2, <2>1, <2>3, <2>5 DEF KeepsWork, SameWork
<1>3. "entered" \in Pcs /\ "notifying" \in Pcs /\ "overflowed" \in CallNames BY DEF Pcs, CallNames
<1>4. CASE At(t, "enter") /\ Becomes(t, Goto(env[t], "entered"))
  BY <1>1, <1>2, <1>3, <1>4, GotoIs DEF At
<1>5. CASE At(t, "alert") /\ Becomes(t, Calls(env[t], "notifying", "overflowed"))
  BY <1>1, <1>2, <1>3, <1>5, CallsIs DEF At
<1> QED BY <1>4, <1>5 DEF Enter

LEMMA WaitControl ==
    ASSUME TypeOK, Control, NEW t \in Threads, At(t, "wait"), Monitor!Wait(t), Becomes(t, Goto(env[t], "waiting")),
           UNCHANGED <<listVars, countVars, markVars>>
    PROVE  Control' /\ Monitor!TypeOK' /\ \E r : Turns(t, r) /\ KeepsWork(env[t], r)
<1> DEFINE e == env[t]  r == Goto(e, "waiting")
<1>1. e \in Locals /\ Shape(e) /\ e.pc = "wait" BY LocalsOf DEF At
<1>2. "waiting" \in Pcs BY DEF Pcs
<1>3. r \in Locals /\ SameWork(e, r) /\ r.pc = "waiting" /\ r.call = e.call BY <1>1, <1>2, GotoIs
<1>4. Turns(t, r) BY <1>3 DEF Turns, Becomes
<1> HIDE DEF r
<1>5. Shape(r) BY <1>1, <1>3, ShapeShifts
<1>6. MonitorInv' /\ Monitor!TypeOK' BY <1>1, <1>3, <1>4, MonitorWait DEF Control, Owns
<1>7. Control'
  BY <1>1, <1>3, <1>4, <1>5, <1>6, CalmFrame
     DEF SameWork, IsLast, Walking, Finished, Joined, Pushing, OutputCalls, listVars, Shape, CallOK
<1> QED BY <1>3, <1>4, <1>6, <1>7 DEF KeepsWork, SameWork

LEMMA ReacquireControl ==
    ASSUME TypeOK, Control, NEW t \in Threads, Reacquire(t)
    PROVE  Control' /\ Monitor!TypeOK' /\ \E r : Turns(t, r) /\ KeepsWork(env[t], r)
<1> DEFINE e == env[t]  r == Checks(e, "waiting")
<1>1. e \in Locals /\ Shape(e) /\ e.pc = "waiting" BY LocalsOf DEF At, Reacquire
<1>2. "waiting" \in CallNames BY DEF CallNames
<1>3. r \in Locals /\ SameWork(e, r) /\ r.pc = "check" /\ r.call = "waiting" /\ r.look = InputLists
  BY <1>1, <1>2, ChecksIs
<1>4. Turns(t, r) BY <1>3 DEF Turns, Becomes, Reacquire
<1> HIDE DEF r
<1>5. Shape(r) BY <1>1, <1>3, ShapeShifts
<1>6. MonitorInv' /\ Monitor!TypeOK' BY <1>1, <1>3, <1>4, MonitorReacquire DEF Control, Owns, Reacquire
<1>7. owner = NoThread BY DEF Reacquire, Monitor!Reacquire
<1>8. Control'
  BY <1>1, <1>3, <1>4, <1>5, <1>6, <1>7, CalmFrame
     DEF SameWork, IsLast, Walking, Finished, Joined, Pushing, OutputCalls, listVars, Shape, CallOK, Reacquire
<1> QED BY <1>3, <1>4, <1>6, <1>8 DEF KeepsWork, SameWork

LEMMA GetControl ==
    ASSUME TypeOK, Control, NEW t \in Threads, At(t, "swap"), ~HasWork(env[t].output),
           Becomes(t, Checks([env[t] EXCEPT !.doneIndex = inputListDoneIndex], "get")),
           UNCHANGED <<listVars, countVars, monitorVars, markVars>>
    PROVE  Control' /\ Monitor!TypeOK' /\ \E r : Turns(t, r) /\ KeepsWork(env[t], r)
<1> DEFINE e == env[t]  r == Checks([e EXCEPT !.doneIndex = inputListDoneIndex], "get")
<1>1. e \in Locals /\ Shape(e) /\ e.pc = "swap" BY LocalsOf DEF At
<1>2. inputListDoneIndex \in Nat BY DEF TypeOK
<1>3. /\ r \in Locals /\ Shape(r) /\ r.pc = "check" /\ r.call = "get" /\ r.doneIndex = inputListDoneIndex
      /\ r.round = e.round /\ r.from = e.from /\ r.todo = e.todo /\ r.item = e.item
      /\ r.input = e.input /\ r.output = e.output /\ r.hand = e.hand
  BY <1>1, <1>2, GetIs
<1>4. Turns(t, r) BY <1>3 DEF Turns, Becomes
<1> HIDE DEF r
<1>6. MonitorInv' /\ Monitor!TypeOK'
  <2>1. UNCHANGED <<owner, count, saved>> /\ waitState' = waitState BY DEF monitorVars
  <2>2. waitState \in [Threads -> {"none", "waiting", "woken"}] BY DEF TypeOK, Monitor!TypeOK
  <2> QED BY <1>1, <1>3, <1>4, <2>1, <2>2, MonitorFrame DEF Control, Owns
<1>7. Control'
  BY <1>1, <1>3, <1>4, <1>6, CalmFrame
     DEF SameWork, IsLast, Walking, Finished, Joined, Pushing, OutputCalls, listVars, Shape, CallOK
<1> QED BY <1>3, <1>4, <1>6, <1>7 DEF KeepsWork, SameWork

LEMMA LookSets ==
    /\ ToSet(InputLists) = WorkLists
    /\ ToSet(<<"relativelyFull", "nonEmpty">>) = {"relativelyFull", "nonEmpty"}
    /\ ToSet(<<"nonEmpty">>) = {"nonEmpty"}
<1>1. ToSet(InputLists) = WorkLists
  <2>1. DOMAIN InputLists = {1, 2, 3} BY DEF InputLists
  <2>2. InputLists[1] = "full" /\ InputLists[2] = "relativelyFull" /\ InputLists[3] = "nonEmpty"
    BY DEF InputLists
  <2> QED BY <2>1, <2>2 DEF ToSet, WorkLists
<1>2. ToSet(<<"relativelyFull", "nonEmpty">>) = {"relativelyFull", "nonEmpty"}
  <2> DEFINE s == <<"relativelyFull", "nonEmpty">>
  <2>1. DOMAIN s = {1, 2} /\ s[1] = "relativelyFull" /\ s[2] = "nonEmpty" OBVIOUS
  <2> HIDE DEF s
  <2>2. ToSet(s) = {"relativelyFull", "nonEmpty"} BY <2>1 DEF ToSet
  <2> QED BY <2>2 DEF s
<1>3. ToSet(<<"nonEmpty">>) = {"nonEmpty"}
  <2> DEFINE s == <<"nonEmpty">>
  <2>1. DOMAIN s = {1} /\ s[1] = "nonEmpty" OBVIOUS
  <2> HIDE DEF s
  <2>2. ToSet(s) = {"nonEmpty"} BY <2>1 DEF ToSet
  <2> QED BY <2>2 DEF s
<1> QED BY <1>1, <1>2, <1>3

\* A list is passed.
LEMMA LookPasses ==
    ASSUME NEW e \in Locals, Shape(e), e.pc = "check", NEW l \in ToSet(e.look), l # Head(e.look)
    PROVE  l \in ToSet(Tail(e.look)) /\ e.look # <<"nonEmpty">>
<1>1. CASE e.look = InputLists
  <2>1. Len(e.look) = 3 BY <1>1, Looks
  <2>2. ASSUME e.look = <<"nonEmpty">> PROVE FALSE
    <3>1. Len(e.look) = 1 BY <2>2
    <3> QED BY <2>1, <3>1
  <2> QED BY <1>1, <2>2, LookSets, Looks DEF WorkLists
<1>2. CASE e.look = <<"relativelyFull", "nonEmpty">>
  <2>1. Len(e.look) = 2 BY <1>2, Looks
  <2>2. ASSUME e.look = <<"nonEmpty">> PROVE FALSE
    <3>1. Len(e.look) = 1 BY <2>2
    <3> QED BY <2>1, <3>1
  <2> QED BY <1>2, <2>2, LookSets, Looks
<1>3. CASE e.look = <<"nonEmpty">> BY <1>3, LookSets, Looks
<1> QED BY <1>1, <1>2, <1>3 DEF Shape, LookOK

LEMMA LastMissesControl ==
    ASSUME TypeOK, Control, NEW t \in Threads, At(t, "check"), env[t].call = "last",
           list[Head(env[t].look)] = <<>>, Becomes(t, Misses(env[t], Unavailable(env[t]))),
           UNCHANGED <<listVars, countVars, monitorVars, markVars>>
    PROVE  Control' /\ Monitor!TypeOK' /\ \E r : Turns(t, r) /\ KeepsWork(env[t], r)
<1> DEFINE e == env[t]  r == Misses(e, Unavailable(e))
<1>1. e \in Locals /\ Shape(e) /\ e.pc = "check" BY LocalsOf DEF At
<1>2. /\ r \in Locals /\ Shape(r) /\ SameWork(e, r) /\ r.call = "last"
      /\ r.pc = "check" \/ r.pc = "finish"
      /\ r.pc = "check" => r.look = Tail(e.look)
      /\ r.pc = "finish" => e.look = <<"nonEmpty">>
  BY <1>1, LastMisses
<1>3. Turns(t, r) BY <1>2 DEF Turns, Becomes
<1> HIDE DEF r
<1>4. env'[t] = r /\ \A u \in Threads : u # t => env'[u] = env[u] BY <1>3, TurnsIs DEF TypeOK
<1>5. UNCHANGED countVars /\ inputListDoneIndex' = inputListDoneIndex /\ list' = list BY DEF countVars, listVars
<1>6. scanned' = scanned /\ overflow' = overflow /\ walk' = walk BY DEF markVars
<1>7. MonitorInv' /\ Monitor!TypeOK'
  <2>1. UNCHANGED <<owner, count, saved>> /\ waitState' = waitState BY DEF monitorVars
  <2>2. waitState \in [Threads -> {"none", "waiting", "woken"}] BY DEF TypeOK, Monitor!TypeOK
  <2> QED BY <1>1, <1>2, <1>3, <2>1, <2>2, MonitorFrame DEF Control, Owns
<1>8. ShapeInv' BY <1>2, <1>3, ShapeFrame DEF Control
<1>9. IndexInv' BY <1>2, <1>3, <1>5, IndexFrame DEF Control, IndexInv, SameWork
<1>10. Counted(t)' <=> Counted(t) BY <1>1, <1>2, <1>4, <1>5 DEF Counted, At, SameWork
<1>11. WaitCountExact' BY <1>3, <1>5, <1>10, CountFrame DEF Control
<1>12. IsLast(e) BY <1>1 DEF IsLast
<1>13. LastInv'
  <2>1. \A u \in Threads : u # t => env'[u].pc = "waiting" BY <1>4, <1>12, OthersSleep DEF Control
  <2>2. \A u \in Threads : Counted(u)'
    <3>1. \A u \in Threads : Counted(u) BY <1>1 DEF Control, LastInv
    <3> QED BY <1>4, <1>5, <1>10, <3>1 DEF Counted, At
  <2>3. ASSUME NEW l \in WorkLists
        PROVE  list'[l] = <<>> \/ (r.pc = "check" /\ l \in ToSet(r.look))
    <3>1. list[l] = <<>> \/ l \in ToSet(e.look) BY <1>1 DEF Control, LastInv
    <3>2. CASE list[l] = <<>> BY <1>5, <3>2
    <3>3. CASE list[l] # <<>> /\ l \in ToSet(e.look)
      <4>1. l # Head(e.look) BY <3>3
      <4>2. l \in ToSet(Tail(e.look)) /\ e.look # <<"nonEmpty">> BY <1>1, <3>3, <4>1, LookPasses
      <4> QED BY <1>2, <4>2
    <3> QED BY <3>1, <3>2, <3>3
  <2> QED BY <1>4, <2>1, <2>2, <2>3 DEF LastInv
<1>14. WalkInv'
  <2>1. ~Walking(e) /\ ~Walking(r) BY <1>1, <1>2 DEF Walking, Pushing, OutputCalls
  <2> QED BY <1>1, <1>3, <1>6, <2>1, WalkFrame DEF Control
<1>15. ~Late(t)' BY <1>2, <1>4 DEF Late
<1>16. QuietInv'
  <2>1. ~Finished(r) BY <1>2 DEF Finished
  <2>2. ~(Late(t) \/ Finished(env[t]))' BY <1>4, <1>15, <2>1
  <2> QED BY <1>3, <1>5, <1>6, <2>2, QuietFrame DEF Control
<1>17. CompleteInv' BY <1>3, <1>5, <1>6, <1>15, CompleteFrame DEF Control
<1>18. MarkingComplete'
  <2>1. \A q \in 1..Len(Roots) : Past(t, q)' => Past(t, q) BY <1>2, <1>4 DEF Past, SameWork
  <2> QED BY <1>3, <1>6, <2>1, MarkingFrame DEF Control
<1> QED
  BY <1>2, <1>3, <1>7, <1>8, <1>9, <1>11, <1>13, <1>14, <1>16, <1>17, <1>18
     DEF Control, KeepsWork, SameWork

LEMMA EnteredControl ==
    ASSUME TypeOK, Control, NEW t \in Threads, Entered(t)
    PROVE  /\ Control' /\ Monitor!TypeOK' /\ inputListWaitCount' \in 0..Cardinality(Threads)
           /\ \E r : Turns(t, r) /\ KeepsWork(env[t], r)
<1> DEFINE e == env[t]  r == Checks(e, IF OthersWait THEN "last" ELSE "waiting")
           C == {u \in Threads : Counted(u)}
<1>1. e \in Locals /\ Shape(e) /\ e.pc = "entered" BY LocalsOf DEF At, Entered
<1>2. e.doneIndex = inputListDoneIndex BY <1>1 DEF Control, IndexInv, Shape, CallOK
<1>3. "last" \in CallNames /\ "waiting" \in CallNames BY DEF CallNames
<1>4. /\ r \in Locals /\ SameWork(e, r) /\ r.pc = "check" /\ r.call = (IF OthersWait THEN "last" ELSE "waiting")
      /\ r.look = InputLists
  BY <1>1, <1>3, ChecksIs
<1>5. inputListWaitCount' = inputListWaitCount + 1 /\ Becomes(t, r) BY <1>2 DEF Entered
<1>6. Turns(t, r) BY <1>4, <1>5 DEF Turns, Becomes
<1> HIDE DEF r
<1>7. env'[t] = r /\ \A u \in Threads : u # t => env'[u] = env[u] BY <1>6, TurnsIs DEF TypeOK
<1>8. inputListDoneIndex' = inputListDoneIndex /\ list' = list /\ scanned' = scanned /\ overflow' = overflow
      /\ walk' = walk
  BY DEF Entered, listVars, markVars
<1>9. MonitorInv' /\ Monitor!TypeOK'
  <2>1. UNCHANGED <<owner, count, saved>> /\ waitState' = waitState BY DEF monitorVars, Entered
  <2>2. waitState \in [Threads -> {"none", "waiting", "woken"}] BY DEF TypeOK, Monitor!TypeOK
  <2> QED BY <1>1, <1>4, <1>6, <2>1, <2>2, MonitorFrame DEF Control, Owns
<1>10. ShapeInv'
  <2>1. Shape(r) BY <1>1, <1>4, ShapeShifts
  <2> QED BY <1>6, <2>1, ShapeFrame DEF Control
<1>11. IndexInv' BY <1>4, <1>6, <1>8, IndexFrame DEF Control, IndexInv, SameWork
<1>12. ~Counted(t) /\ Counted(t)' BY <1>1, <1>2, <1>4, <1>7, <1>8 DEF Counted, At, SameWork
<1>13. \A u \in Threads : u # t => (Counted(u)' <=> Counted(u)) BY <1>7, <1>8 DEF Counted, At
<1>14. {u \in Threads : Counted(u)'} = C \cup {t} BY <1>12, <1>13
<1>15. IsFiniteSet(Threads) BY ThreadsAssumption
<1>16. IsFiniteSet(C) /\ t \notin C BY <1>12, <1>15, FS_Subset
<1>17. Cardinality(C \cup {t}) = Cardinality(C) + 1 BY <1>16, FS_AddElement
<1>18. /\ Cardinality(C \cup {t}) <= Cardinality(Threads)
       /\ (Cardinality(C \cup {t}) = Cardinality(Threads) => C \cup {t} = Threads)
  <2>1. C \cup {t} \in SUBSET Threads OBVIOUS
  <2> HIDE DEF C
  <2> QED BY <1>15, <2>1, FS_Subset
<1>19. inputListWaitCount = Cardinality(C) BY DEF Control, WaitCountExact
<1>20. inputListWaitCount' = Cardinality(C \cup {t}) BY <1>5, <1>17, <1>19
<1>21. WaitCountExact' BY <1>14, <1>20 DEF WaitCountExact
<1>22. inputListWaitCount' \in 0..Cardinality(Threads)
  <2>1. inputListWaitCount \in Nat /\ Cardinality(Threads) \in Nat BY <1>15, FS_CardinalityType DEF TypeOK
  <2> HIDE DEF C
  <2> QED BY <1>5, <1>18, <1>20, <2>1
<1>23. LastInv'
  <2>1. CASE ~OthersWait
    <3>1. ~IsLast(r) BY <1>4, <2>1 DEF IsLast
    <3> QED BY <1>1, <1>6, <3>1, LastFrame DEF Control
  <2>2. CASE OthersWait
    <3>1. C \cup {t} = Threads BY <1>5, <1>18, <1>20, <2>2 DEF OthersWait
    <3>2. \A u \in Threads : Counted(u)' BY <1>14, <3>1
    <3>3. \A u \in Threads : u # t => ~IsLast(env[u])
      <4>1. owner = t BY <1>1 DEF Control, MonitorInv, Owns
      <4> QED BY <4>1, OthersSleep DEF Control
    <3>4. \A l \in WorkLists : l \in ToSet(r.look) BY <1>4, LookSets
    <3> QED BY <1>4, <1>7, <3>2, <3>3, <3>4 DEF LastInv, IsLast
  <2> QED BY <2>1, <2>2
<1>24. WalkInv'
  <2>1. ~Walking(e) /\ ~Walking(r) BY <1>1, <1>4 DEF Walking, Pushing, OutputCalls, Shape, CallOK
  <2> QED BY <1>1, <1>6, <1>8, <2>1, WalkFrame DEF Control
<1>25. ~Late(t)' BY <1>2, <1>4, <1>7, <1>8 DEF Late, SameWork
<1>26. QuietInv'
  <2>1. ~Finished(r) BY <1>4 DEF Finished
  <2>2. ~(Late(t) \/ Finished(env[t]))' BY <1>7, <1>25, <2>1
  <2> QED BY <1>6, <1>8, <2>2, QuietFrame DEF Control
<1>27. CompleteInv' BY <1>6, <1>8, <1>25, CompleteFrame DEF Control
<1>28. MarkingComplete'
  <2>1. \A q \in 1..Len(Roots) : Past(t, q)' => Past(t, q) BY <1>4, <1>7 DEF Past, SameWork
  <2> QED BY <1>6, <1>8, <2>1, MarkingFrame DEF Control
<1> QED
  BY <1>4, <1>6, <1>9, <1>10, <1>11, <1>21, <1>22, <1>23, <1>24, <1>26, <1>27, <1>28
     DEF Control, KeepsWork, SameWork

\* The last thread ends the round.  That nothing is left to scan is shown below.
LEMMA FinishControl ==
    ASSUME TypeOK, Control, NEW t \in Threads, Finish(t),
           ~overflow => \A u \in Threads : Reachable[env[u].round] \subseteq scanned
    PROVE  /\ Control' /\ Monitor!TypeOK' /\ inputListDoneIndex' \in Nat
           /\ inputListWaitCount' \in 0..Cardinality(Threads)
           /\ \E r : Turns(t, r) /\ KeepsWork(env[t], r)
<1> DEFINE e == env[t]  r == Goto(e, "leave")
<1>1. e \in Locals /\ Shape(e) /\ e.pc = "finish" /\ e.call = "last" BY LocalsOf DEF At, Finish, Shape, CallOK
<1>2. "leave" \in Pcs BY DEF Pcs
<1>3. r \in Locals /\ SameWork(e, r) /\ r.pc = "leave" /\ r.call = e.call BY <1>1, <1>2, GotoIs
<1>4. Turns(t, r) BY <1>3 DEF Turns, Becomes, Finish
<1> HIDE DEF r
<1>5. env'[t] = r /\ \A u \in Threads : u # t => env'[u] = env[u] BY <1>4, TurnsIs DEF TypeOK
<1>6. inputListDoneIndex' = inputListDoneIndex + 1 /\ inputListWaitCount' = 0 /\ list' = list
      /\ scanned' = scanned /\ overflow' = overflow /\ walk' = walk
  BY DEF Finish, listVars, markVars
<1>7. inputListDoneIndex \in Nat /\ \A u \in Threads : env[u].doneIndex \in Nat
  BY LocalsFields, LocalsOf DEF TypeOK
<1>8. \A u \in Threads : env'[u].doneIndex = env[u].doneIndex BY <1>3, <1>5 DEF SameWork
<1>9. \A u \in Threads : env'[u].doneIndex < inputListDoneIndex'
  BY <1>6, <1>7, <1>8 DEF Control, IndexInv
<1>10. \A u \in Threads : u # t => env'[u].pc = "waiting" /\ env'[u].call = "waiting"
  <2>1. \A u \in Threads : u # t => env[u].pc = "waiting" BY <1>1, OthersSleep DEF Control, IsLast
  <2>2. \A u \in Threads : Shape(env[u]) BY LocalsOf
  <2> QED BY <1>5, <2>1, <2>2 DEF Shape, CallOK
<1>11. MonitorInv' /\ Monitor!TypeOK'
  <2>1. UNCHANGED <<owner, count, saved>> BY DEF Finish, TellAll, Monitor!NotifyAll
  <2>2. waitState \in [Threads -> {"none", "waiting", "woken"}] BY DEF TypeOK, Monitor!TypeOK
  <2>3. waitState' = [u \in Threads |-> IF u \in Monitor!Waiters THEN "woken" ELSE waitState[u]]
    BY DEF Finish, TellAll, Monitor!NotifyAll
  <2>4. waitState' \in [Threads -> {"none", "waiting", "woken"}] BY <2>2, <2>3
  <2>5. \A u \in Threads : waitState'[u] = "none" <=> waitState[u] = "none" BY <2>3 DEF Monitor!Waiters
  <2> QED BY <1>1, <1>3, <1>4, <2>1, <2>4, <2>5, MonitorFrame DEF Control, Owns
<1>12. ShapeInv'
  <2>1. Shape(r) BY <1>1, <1>3, ShapeShifts
  <2> QED BY <1>4, <2>1, ShapeFrame DEF Control
<1>13. IndexInv'
  <2>1. \A u \in Threads : env'[u].call \notin {"get", "getNoWait"} BY <1>1, <1>3, <1>5, <1>10
  <2>2. \A u \in Threads : env'[u].doneIndex <= inputListDoneIndex' BY <1>6, <1>7, <1>8, <1>9
  <2> QED BY <2>1, <2>2 DEF IndexInv
<1>14. WaitCountExact'
  <2>1. \A u \in Threads : ~Counted(u)' BY <1>7, <1>8, <1>9 DEF Counted
  <2>2. {u \in Threads : Counted(u)'} = {} BY <2>1
  <2> QED BY <1>6, <2>2, FS_EmptySet DEF WaitCountExact
<1>15. LastInv' BY <1>3, <1>5, <1>10 DEF LastInv
<1>16. WalkInv'
  <2>1. ~Walking(e) /\ ~Walking(r) BY <1>1, <1>3 DEF Walking, Pushing, OutputCalls
  <2> QED BY <1>1, <1>4, <1>6, <2>1, WalkFrame DEF Control
<1>17. QuietInv'
  <2>1. \A l \in WorkLists : list[l] = <<>> BY <1>1 DEF Control, LastInv
  <2> QED BY <1>6, <2>1 DEF QuietInv
<1>18. CompleteInv'
  <2>1. \A u \in Threads : env'[u].round = env[u].round BY <1>3, <1>5 DEF SameWork
  <2> QED BY <1>6, <2>1 DEF CompleteInv
<1>19. MarkingComplete'
  <2>1. \A q \in 1..Len(Roots) : Past(t, q)' => Past(t, q) BY <1>1, <1>3, <1>5 DEF Past, SameWork
  <2> QED BY <1>4, <1>6, <2>1, MarkingFrame DEF Control
<1>20. inputListDoneIndex' \in Nat /\ inputListWaitCount' \in 0..Cardinality(Threads)
  <2>1. Cardinality(Threads) \in Nat BY ThreadsAssumption, FS_CardinalityType
  <2> QED BY <1>6, <1>7, <2>1
<1> QED
  BY <1>3, <1>4, <1>11, <1>12, <1>13, <1>14, <1>15, <1>16, <1>17, <1>18, <1>19, <1>20
     DEF Control, KeepsWork, SameWork

LEMMA LeaveControl ==
    ASSUME TypeOK, Control, NEW t \in Threads, Leave(t)
    PROVE  /\ Control' /\ Monitor!TypeOK' /\ inputListWaitCount' \in 0..Cardinality(Threads)
           /\ \E r : Turns(t, r) /\ KeepsWork(env[t], r)
<1> DEFINE e == env[t]  C == {u \in Threads : Counted(u)}
<1>1. e \in Locals /\ Shape(e) /\ e.pc = "leave" BY LocalsOf DEF At, Leave
<1>2. inputListDoneIndex' = inputListDoneIndex /\ list' = list /\ scanned' = scanned /\ overflow' = overflow
      /\ walk' = walk
  BY DEF Leave, listVars, markVars
<1>3. ASSUME NEW r \in Locals, SameWork(e, r), Becomes(t, r),
             \/ /\ e.doneIndex # inputListDoneIndex /\ inputListWaitCount' = inputListWaitCount
                /\ r.pc = "scanDone" /\ r.call = "none"
             \/ /\ e.doneIndex = inputListDoneIndex /\ inputListWaitCount' = inputListWaitCount - 1
                /\ r.pc = "check" /\ r.call = "get" /\ r.look = InputLists
      PROVE  /\ Control' /\ Monitor!TypeOK' /\ inputListWaitCount' \in 0..Cardinality(Threads)
             /\ \E q : Turns(t, q) /\ KeepsWork(env[t], q)
  <2>1. Turns(t, r) BY <1>3 DEF Turns, Becomes
  <2>2. env'[t] = r /\ \A u \in Threads : u # t => env'[u] = env[u] BY <2>1, TurnsIs DEF TypeOK
  <2>3. MonitorInv' /\ Monitor!TypeOK' BY <1>1, <1>3, <2>1, MonitorExit DEF Control, Owns, Leave
  <2>4. ShapeInv'
    <3>1. Shape(r) BY <1>1, <1>3, ShapeShifts
    <3> QED BY <2>1, <3>1, ShapeFrame DEF Control
  <2>5. IndexInv'
    <3>1. r.doneIndex <= inputListDoneIndex BY <1>3 DEF Control, IndexInv, SameWork
    <3>2. r.call \in {"get", "getNoWait"} => r.doneIndex = inputListDoneIndex BY <1>3 DEF SameWork
    <3> QED BY <1>2, <2>1, <3>1, <3>2, IndexFrame DEF Control
  <2>6. WaitCountExact' /\ inputListWaitCount' \in 0..Cardinality(Threads)
    <3>1. CASE e.doneIndex # inputListDoneIndex
      <4>1. inputListWaitCount' = inputListWaitCount /\ UNCHANGED countVars BY <1>2, <1>3, <3>1 DEF countVars
      <4>2. ~Counted(t) /\ ~Counted(t)' BY <1>2, <1>3, <2>2, <3>1 DEF Counted, SameWork
      <4> QED BY <2>1, <4>1, <4>2, CountFrame DEF Control, TypeOK
    <3>2. CASE e.doneIndex = inputListDoneIndex
      <4>1. Counted(t) /\ ~Counted(t)' BY <1>1, <1>3, <2>2, <3>2 DEF Counted, At
      <4>2. \A u \in Threads : u # t => (Counted(u)' <=> Counted(u)) BY <1>2, <2>2 DEF Counted, At
      <4>3. {u \in Threads : Counted(u)'} = C \ {t} BY <4>1, <4>2
      <4>4. IsFiniteSet(C) /\ t \in C BY <4>1, ThreadsAssumption, FS_Subset
      <4>5. Cardinality(C \ {t}) = Cardinality(C) - 1 /\ IsFiniteSet(C \ {t}) BY <4>4, FS_RemoveElement
      <4>6. inputListWaitCount = Cardinality(C) BY DEF Control, WaitCountExact
      <4>7. inputListWaitCount' = Cardinality(C \ {t}) BY <1>3, <3>2, <4>5, <4>6
      <4>8. Cardinality(C \ {t}) \in Nat /\ Cardinality(Threads) \in Nat
        BY <4>5, ThreadsAssumption, FS_CardinalityType
      <4>9. inputListWaitCount \in 0..Cardinality(Threads) BY DEF TypeOK
      <4>10. WaitCountExact' BY <4>3, <4>7 DEF WaitCountExact
      <4> HIDE DEF C
      <4>11. inputListWaitCount' \in 0..Cardinality(Threads) BY <1>3, <3>2, <4>7, <4>8, <4>9
      <4> QED BY <4>10, <4>11
    <3> QED BY <3>1, <3>2
  <2>7. LastInv' BY <1>1, <1>3, <2>1, LastFrame DEF Control, IsLast
  <2>8. WalkInv'
    <3>1. ~Walking(e) /\ ~Walking(r) BY <1>1, <1>3 DEF Walking, Pushing, OutputCalls, Shape, CallOK
    <3> QED BY <1>1, <1>2, <1>3, <2>1, <3>1, WalkFrame DEF Control
  <2>9. Late(t)' => Late(t) BY <1>1, <1>3, <2>2 DEF Late
  <2>10. QuietInv'
    <3>1. ~Finished(r) BY <1>3 DEF Finished
    <3>2. (Late(t) \/ Finished(env[t]))' => Late(t) \/ Finished(env[t]) BY <2>2, <2>9, <3>1
    <3> QED BY <1>2, <2>1, <3>2, QuietFrame DEF Control
  <2>11. CompleteInv' BY <1>1, <1>2, <1>3, <2>1, <2>9, CompleteFrame DEF Control, SameWork
  <2>12. MarkingComplete'
    <3>1. \A q \in 1..Len(Roots) : Past(t, q)' => Past(t, q) BY <1>3, <2>2 DEF Past, SameWork
    <3> QED BY <1>2, <2>1, <3>1, MarkingFrame DEF Control
  <2> QED
    BY <1>3, <2>1, <2>3, <2>4, <2>5, <2>6, <2>7, <2>8, <2>10, <2>11, <2>12 DEF Control, KeepsWork, SameWork
<1>4. "scanDone" \in Pcs /\ "none" \in CallNames /\ "get" \in CallNames BY DEF Pcs, CallNames
<1>5. CASE e.doneIndex # inputListDoneIndex /\ Becomes(t, Calls(e, "scanDone", "none")) /\ UNCHANGED inputListWaitCount
  BY <1>1, <1>3, <1>4, <1>5, CallsIs
<1>6. CASE e.doneIndex = inputListDoneIndex /\ OneLessWaits /\ Becomes(t, Checks(e, "get"))
  BY <1>1, <1>3, <1>4, <1>6, ChecksIs DEF OneLessWaits
<1> QED BY <1>5, <1>6 DEF Leave

LEMMA ScanDoneControl ==
    ASSUME TypeOK, Control, NEW t \in Threads, NEW r, Turns(t, r), Shape(r), env[t].pc = "scanDone",
           UNCHANGED <<listVars, countVars, monitorVars, markVars>>, r.doneIndex = env[t].doneIndex, r.call = "none",
           \/ overflow /\ r.pc = "sync" /\ r.round = env[t].round
           \/ ~overflow /\ r.pc = "mark" /\ r.from = "roots" /\ r.round = env[t].round + 1
           \/ ~overflow /\ r.pc = "flush" /\ r.round = env[t].round
    PROVE  Control' /\ Monitor!TypeOK'
<1> DEFINE e == env[t]
<1>1. e \in Locals /\ Shape(e) BY LocalsOf
<1>2. env'[t] = r /\ \A u \in Threads : u # t => env'[u] = env[u] BY TurnsIs DEF TypeOK
<1>3. UNCHANGED countVars /\ inputListDoneIndex' = inputListDoneIndex /\ list' = list /\ scanned' = scanned
      /\ overflow' = overflow /\ walk' = walk
  BY DEF countVars, listVars, markVars
<1>4. MonitorInv' /\ Monitor!TypeOK'
  <2>1. UNCHANGED <<owner, count, saved>> /\ waitState' = waitState BY DEF monitorVars
  <2>2. waitState \in [Threads -> {"none", "waiting", "woken"}] BY DEF TypeOK, Monitor!TypeOK
  <2> QED BY <2>1, <2>2, MonitorFrame DEF Control, Owns
<1>5. ShapeInv' BY ShapeFrame DEF Control
<1>6. IndexInv' BY <1>3, IndexFrame DEF Control, IndexInv
<1>7. WaitCountExact'
  <2>1. ~Counted(t) /\ ~Counted(t)' BY <1>2 DEF Counted, At
  <2> QED BY <1>3, <2>1, CountFrame DEF Control
<1>8. LastInv' BY LastFrame DEF Control, IsLast
<1>9. WalkInv'
  <2>1. ~Walking(e) /\ ~Walking(r) BY <1>1 DEF Walking, Pushing, OutputCalls, Shape, CallOK
  <2> QED BY <1>3, <2>1, WalkFrame DEF Control
<1>10. Late(t) BY DEF Late
<1>11. QuietInv' BY <1>3, <1>10, QuietFrame DEF Control
<1>12. CompleteInv'
  <2>1. ~(Late(t)' /\ r.pc # "sync") BY <1>2 DEF Late
  <2> QED BY <1>3, <2>1, CompleteFrame DEF Control
<1>13. MarkingComplete'
  <2>1. e.round \in Nat BY <1>1, LocalsFields
  <2>2. ~overflow => Reachable[e.round] \subseteq scanned BY <1>10 DEF Control, CompleteInv
  <2>3. ASSUME NEW q \in 1..Len(Roots), Past(t, q)' PROVE Past(t, q) \/ Reachable[q] \subseteq scanned
    <3>1. e.round > q \/ (e.round = q /\ ~overflow) BY <1>2, <2>1, <2>3 DEF Past
    <3> QED BY <2>2, <3>1 DEF Past
  <2> QED BY <1>3, <2>3, MarkingFrame DEF Control
<1> QED BY <1>4, <1>5, <1>6, <1>7, <1>8, <1>9, <1>11, <1>12, <1>13 DEF Control

LEMMA ReleaseMasterControl ==
    ASSUME TypeOK, Control, NEW t \in Threads, ReleaseMaster(t)
    PROVE  Control' /\ Monitor!TypeOK' /\ walk = 0 /\ \E r : Turns(t, r) /\ KeepsWork(env[t], r)
<1> DEFINE e == env[t]  r == Goto(e, "walk")
<1>1. e \in Locals /\ Shape(e) /\ e.pc = "sync" /\ t = Master BY LocalsOf DEF At, ReleaseMaster
<1>2. "walk" \in Pcs BY DEF Pcs
<1>3. r \in Locals /\ SameWork(e, r) /\ r.pc = "walk" /\ r.call = e.call BY <1>1, <1>2, GotoIs
<1>4. Turns(t, r) BY <1>3 DEF Turns, Becomes, ReleaseMaster
<1> HIDE DEF r
<1>5. env'[t] = r /\ \A u \in Threads : u # t => env'[u] = env[u] BY <1>4, TurnsIs DEF TypeOK
<1>6. UNCHANGED countVars /\ inputListDoneIndex' = inputListDoneIndex /\ scanned' = scanned /\ walk' = 1
  BY DEF countVars, ReleaseMaster
<1>7. \A u \in Threads : env[u].pc = "sync" /\ env[u].call = "none"
  BY LocalsOf DEF ReleaseMaster, At, Shape, CallOK
<1>8. \A u \in Threads : ~Walking(env[u]) BY <1>7 DEF Walking, Pushing, OutputCalls
<1>9. walk = 0 BY <1>1, <1>8 DEF Control, WalkInv
<1>10. MonitorInv' /\ Monitor!TypeOK'
  <2>1. UNCHANGED <<owner, count, saved>> /\ waitState' = waitState BY DEF monitorVars, ReleaseMaster
  <2>2. waitState \in [Threads -> {"none", "waiting", "woken"}] BY DEF TypeOK, Monitor!TypeOK
  <2> QED BY <1>1, <1>3, <1>4, <2>1, <2>2, MonitorFrame DEF Control, Owns
<1>11. ShapeInv'
  <2>1. Shape(r) BY <1>1, <1>3, ShapeShifts
  <2> QED BY <1>4, <2>1, ShapeFrame DEF Control
<1>12. IndexInv' BY <1>3, <1>4, <1>6, IndexFrame DEF Control, IndexInv, SameWork
<1>13. WaitCountExact'
  <2>1. ~Counted(t) /\ ~Counted(t)' BY <1>1, <1>3, <1>5 DEF Counted, At
  <2> QED BY <1>4, <1>6, <2>1, CountFrame DEF Control
<1>14. LastInv' BY <1>1, <1>3, <1>4, LastFrame DEF Control, IsLast
<1>15. WalkInv'
  <2>1. Walking(r) BY <1>3 DEF Walking
  <2> HIDE DEF Walking
  <2> QED BY <1>1, <1>5, <1>6, <1>7, <1>8, <2>1 DEF WalkInv
<1>16. QuietInv' BY <1>6 DEF QuietInv
<1>17. CompleteInv'
  <2>1. \A u \in Threads : Late(u)' => env'[u].pc = "sync" BY <1>3, <1>5, <1>7 DEF Late
  <2> QED BY <2>1 DEF CompleteInv
<1>18. MarkingComplete'
  <2>1. \A q \in 1..Len(Roots) : Past(t, q)' => Past(t, q) BY <1>1, <1>3, <1>5, <1>7 DEF Past, SameWork
  <2> QED BY <1>4, <1>6, <2>1, MarkingFrame DEF Control
<1> QED
  BY <1>3, <1>4, <1>9, <1>10, <1>11, <1>12, <1>13, <1>14, <1>15, <1>16, <1>17, <1>18
     DEF Control, KeepsWork, SameWork

LEMMA ReleaseThreadsControl ==
    ASSUME TypeOK, Control, NEW t \in Threads, ReleaseThreads(t)
    PROVE  /\ Control' /\ Monitor!TypeOK' /\ env' \in [Threads -> Locals]
           /\ \A u \in Threads : KeepsWork(env[u], env'[u])
<1>1. "pop" \in Pcs BY DEF Pcs
<1>2. env \in [Threads -> Locals] /\ env' = [u \in Threads |-> Goto(env[u], "pop")]
  BY DEF TypeOK, ReleaseThreads
<1>3. \A u \in Threads : /\ env'[u] \in Locals /\ SameWork(env[u], env'[u])
                         /\ env'[u].pc = "pop" /\ env'[u].call = env[u].call
  BY <1>1, <1>2, GotoIs
<1>4. env' \in [Threads -> Locals] BY <1>2, <1>3
<1>5. walk # 0 /\ walk' = 0
  <2>1. walk' = 0 /\ walk > HeapTop BY DEF ReleaseThreads
  <2> QED BY <2>1, HeapAssumption DEF TypeOK
<1>6. \A u \in Threads : Shape(env[u]) BY LocalsOf
<1>7. \A u \in Threads : env[u].pc \in {"sync", "walk"} /\ env[u].call = "none"
  <2>1. env[t].pc = "walk" BY DEF ReleaseThreads, At
  <2>2. t = Master BY <2>1 DEF Control, WalkInv, Walking
  <2>3. \A u \in Threads : u = t \/ env[u].pc = "sync" BY <1>5, <2>2 DEF Control, WalkInv
  <2>4. \A u \in Threads : env[u].pc \in {"sync", "walk"} BY <2>1, <2>3
  <2> QED BY <1>6, <2>4 DEF Shape, CallOK
<1>8. UNCHANGED countVars /\ inputListDoneIndex' = inputListDoneIndex /\ inputListWaitCount' = inputListWaitCount
      /\ scanned' = scanned /\ UNCHANGED monitorVars
  BY DEF countVars, ReleaseThreads
<1>9. Monitor!TypeOK' BY <1>8 DEF TypeOK, Monitor!TypeOK, monitorVars
<1>10. MonitorInv'
  <2>1. \A u \in Threads : ~Owns(env[u]) /\ ~Owns(env'[u]) /\ env[u].pc # "waiting" /\ env'[u].pc # "waiting"
    BY <1>3, <1>7 DEF Owns
  <2>2. owner' = owner /\ count' = count /\ waitState' = waitState /\ saved' = saved BY <1>8 DEF monitorVars
  <2> HIDE DEF Owns
  <2> QED BY <2>1, <2>2 DEF Control, MonitorInv
<1>11. ShapeInv' BY <1>3, <1>4, <1>6, <1>7, ShapeShifts, LocalsOf DEF ShapeInv
<1>12. IndexInv' BY <1>3, <1>7, <1>8 DEF Control, IndexInv, SameWork
<1>13. WaitCountExact'
  <2>1. \A u \in Threads : ~Counted(u) /\ ~Counted(u)' BY <1>3, <1>7 DEF Counted, At
  <2>2. {u \in Threads : Counted(u)} = {} /\ {u \in Threads : Counted(u)'} = {} BY <2>1
  <2> QED BY <1>8, <2>2 DEF Control, WaitCountExact
<1>14. LastInv' BY <1>3 DEF LastInv
<1>15. WalkInv'
  <2>1. \A u \in Threads : ~Walking(env'[u]) BY <1>3, <1>7 DEF Walking, Pushing, OutputCalls
  <2> QED BY <1>5, <2>1 DEF WalkInv
<1>16. QuietInv'
  <2>1. \A u \in Threads : ~Late(u)' /\ ~Finished(env[u])' BY <1>3, <1>7 DEF Late, Finished
  <2> QED BY <2>1, ThreadsAssumption DEF QuietInv
<1>17. CompleteInv'
  <2>1. \A u \in Threads : ~Late(u)' BY <1>3 DEF Late
  <2> QED BY <2>1 DEF CompleteInv
<1>18. MarkingComplete'
  <2>1. \A u \in Threads, q \in 1..Len(Roots) : Past(u, q)' => Past(u, q)
    BY <1>3, <1>7 DEF Past, SameWork
  <2> QED BY <1>8, <2>1 DEF Control, MarkingComplete
<1> QED
  BY <1>3, <1>4, <1>9, <1>10, <1>11, <1>12, <1>13, <1>14, <1>15, <1>16, <1>17, <1>18
     DEF Control, KeepsWork, SameWork

-----------------------------------------------------------------------------
(* Packets in places: P[x] is the packet in place x. *)

\* Packets change their places.
LEMMA Relabelled ==
    ASSUME NEW X, NEW Y, NEW P \in [X -> Packets], NEW Q \in [Y -> Packets], NEW f \in [Y -> X],
           \A y, z \in Y : f[y] = f[z] => y = z,
           \A x \in X : \E y \in Y : f[y] = x,
           \A y \in Y : Q[y] = P[f[y]]
    PROVE  (OnceEach(P) => OnceEach(Q)) /\ ObjectsIn(Q) = ObjectsIn(P)
<1>1. DOMAIN P = X /\ DOMAIN Q = Y OBVIOUS
<1>2. ObjectsIn(Q) \subseteq ObjectsIn(P) BY <1>1 DEF ObjectsIn
<1>3. ASSUME NEW o \in ObjectsIn(P) PROVE o \in ObjectsIn(Q)
  <2>1. PICK x \in X : \E k \in 1..Len(P[x]) : P[x][k] = o BY <1>1, <1>3 DEF ObjectsIn
  <2>2. PICK y \in Y : f[y] = x OBVIOUS
  <2>3. Q[y] = P[x] BY <2>2
  <2> QED BY <1>1, <1>3, <2>1, <2>3 DEF ObjectsIn
<1>4. ASSUME OnceEach(P) PROVE OnceEach(Q)
  <2> SUFFICES ASSUME NEW y \in Y, NEW z \in Y, NEW k \in 1..Len(Q[y]), NEW m \in 1..Len(Q[z]), Q[y][k] = Q[z][m]
               PROVE  y = z /\ k = m
    BY <1>1 DEF OnceEach
  <2>1. f[y] \in X /\ f[z] \in X /\ Q[y] = P[f[y]] /\ Q[z] = P[f[z]] OBVIOUS
  <2>2. f[y] = f[z] /\ k = m BY <1>1, <1>4, <2>1 DEF OnceEach
  <2> QED BY <2>2
<1> QED BY <1>2, <1>3, <1>4

\* An object is added to one packet ...
LEMMA Appended ==
    ASSUME NEW X, NEW P \in [X -> Packets], NEW x \in X, NEW o \in Objects, o \notin ObjectsIn(P), OnceEach(P),
           NEW Q \in [X -> Packets], Q[x] = Append(P[x], o), \A y \in X : y # x => Q[y] = P[y]
    PROVE  OnceEach(Q) /\ ObjectsIn(Q) = ObjectsIn(P) \cup {o}
<1>1. DOMAIN P = X /\ DOMAIN Q = X OBVIOUS
<1>2. P[x] \in Seq(Objects) /\ Len(P[x]) \in Nat BY DEF Packets
<1>3. Len(Q[x]) = Len(P[x]) + 1 /\ Q[x][Len(P[x]) + 1] = o /\ \A k \in 1..Len(P[x]) : Q[x][k] = P[x][k] BY <1>2
<1>4. ASSUME NEW y \in X, NEW k \in 1..Len(Q[y])
      PROVE  \/ y = x /\ k = Len(P[x]) + 1 /\ Q[y][k] = o
             \/ k \in 1..Len(P[y]) /\ Q[y][k] = P[y][k]
  BY <1>2, <1>3
<1>5. \A y \in X : \A k \in 1..Len(P[y]) : P[y][k] # o
  BY <1>1 DEF ObjectsIn
<1>6. \A y \in X : \A k \in 1..Len(P[y]) : k \in 1..Len(Q[y]) /\ Q[y][k] = P[y][k] BY <1>2, <1>3
<1>7. OnceEach(Q)
  <2> SUFFICES ASSUME NEW y \in X, NEW z \in X, NEW k \in 1..Len(Q[y]), NEW m \in 1..Len(Q[z]), Q[y][k] = Q[z][m]
               PROVE  y = z /\ k = m
    BY <1>1 DEF OnceEach
  <2>1. CASE k \in 1..Len(P[y]) /\ Q[y][k] = P[y][k]
    <3>1. m \in 1..Len(P[z]) /\ Q[z][m] = P[z][m] BY <1>4, <1>5, <2>1
    <3>2. P[y][k] = P[z][m] BY <2>1, <3>1
    <3>3. k \in 1..Len(P[y]) /\ m \in 1..Len(P[z]) BY <2>1, <3>1
    <3> QED BY <1>1, <3>2, <3>3 DEF OnceEach
  <2>2. CASE y = x /\ k = Len(P[x]) + 1 /\ Q[y][k] = o
    <3>1. z = x /\ m = Len(P[x]) + 1 BY <1>4, <1>5, <2>2
    <3> QED BY <2>2, <3>1
  <2> QED BY <1>4, <2>1, <2>2
<1>8. \A p \in ObjectsIn(Q) : p \in ObjectsIn(P) \/ p = o BY <1>1, <1>4 DEF ObjectsIn
<1>9. \A p \in ObjectsIn(P) : p \in ObjectsIn(Q) BY <1>1, <1>6 DEF ObjectsIn
<1>10. o \in ObjectsIn(Q)
  <2>1. Len(P[x]) + 1 \in 1..Len(Q[x]) BY <1>2, <1>3
  <2> QED BY <1>1, <1>3, <2>1 DEF ObjectsIn
<1> QED BY <1>7, <1>8, <1>9, <1>10

\* ... the last one is taken ...
LEMMA Shortened ==
    ASSUME NEW X, NEW P \in [X -> Packets], NEW x \in X, P[x] # <<>>, OnceEach(P),
           NEW Q \in [X -> Packets], Q[x] = Front(P[x]), \A y \in X : y # x => Q[y] = P[y]
    PROVE  OnceEach(Q) /\ Last(P[x]) \in ObjectsIn(P) /\ ObjectsIn(Q) = ObjectsIn(P) \ {Last(P[x])}
<1> DEFINE o == Last(P[x])  n == Len(P[x])
<1>1. DOMAIN P = X /\ DOMAIN Q = X OBVIOUS
<1>2. /\ n \in Nat \ {0} /\ o \in Objects /\ o = P[x][n] /\ Len(Q[x]) = n - 1
      /\ \A i \in 1..(n - 1) : Q[x][i] = P[x][i]
  <2>1. P[x] \in Seq(Objects) BY DEF Packets
  <2> QED BY <2>1, FrontIs
<1>3. n \in 1..n BY <1>2
<1>4. \A y \in X : \A k \in 1..Len(Q[y]) : k \in 1..Len(P[y]) /\ Q[y][k] = P[y][k] /\ ~(y = x /\ k = n)
  BY <1>2
<1>5. \A y \in X : \A k \in 1..Len(P[y]) : (y = x /\ k = n) \/ (k \in 1..Len(Q[y]) /\ Q[y][k] = P[y][k])
  BY <1>2
<1> HIDE DEF o, n
<1>6. OnceEach(Q) BY <1>1, <1>4 DEF OnceEach
<1>7. o \in ObjectsIn(P) BY <1>1, <1>2, <1>3 DEF ObjectsIn, n
<1>8. ASSUME NEW p \in ObjectsIn(Q) PROVE p \in ObjectsIn(P) /\ p # o
  <2>1. PICK y \in X : \E k \in 1..Len(Q[y]) : Q[y][k] = p BY <1>1, <1>8 DEF ObjectsIn
  <2>2. PICK k \in 1..Len(Q[y]) : Q[y][k] = p BY <2>1
  <2>3. k \in 1..Len(P[y]) /\ P[y][k] = p /\ ~(y = x /\ k = n) BY <1>4, <2>2
  <2>4. p # P[x][n] BY <1>1, <1>3, <2>3 DEF OnceEach, n
  <2> QED BY <1>1, <1>2, <1>8, <2>3, <2>4 DEF ObjectsIn
<1>9. ASSUME NEW p \in ObjectsIn(P), p # o PROVE p \in ObjectsIn(Q)
  <2>1. PICK y \in X : \E k \in 1..Len(P[y]) : P[y][k] = p BY <1>1, <1>9 DEF ObjectsIn
  <2>2. PICK k \in 1..Len(P[y]) : P[y][k] = p BY <2>1
  <2>3. k \in 1..Len(Q[y]) /\ Q[y][k] = p BY <1>2, <1>5, <1>9, <2>2
  <2> QED BY <1>1, <1>9, <2>3 DEF ObjectsIn
<1> QED BY <1>6, <1>7, <1>8, <1>9 DEF o

\* ... or all are.
LEMMA Emptied ==
    ASSUME NEW X, NEW P \in [X -> Packets], NEW x \in X, OnceEach(P),
           NEW Q \in [X -> Packets], Q[x] = <<>>, \A y \in X : y # x => Q[y] = P[y]
    PROVE  OnceEach(Q) /\ ToSet(P[x]) \subseteq ObjectsIn(P) /\ ObjectsIn(Q) = ObjectsIn(P) \ ToSet(P[x])
<1>1. DOMAIN P = X /\ DOMAIN Q = X OBVIOUS
<1>2. P[x] \in Seq(Objects) /\ ToSet(P[x]) = {P[x][k] : k \in 1..Len(P[x])} BY DEF Packets, ToSet
<1>3. \A y \in X : \A k \in 1..Len(Q[y]) : y # x /\ k \in 1..Len(P[y]) /\ Q[y][k] = P[y][k] BY EmptyLength
<1>4. OnceEach(Q) BY <1>1, <1>3 DEF OnceEach
<1>5. ToSet(P[x]) \subseteq ObjectsIn(P) BY <1>1, <1>2 DEF ObjectsIn
<1>6. ASSUME NEW p \in ObjectsIn(Q) PROVE p \in ObjectsIn(P) /\ p \notin ToSet(P[x])
  <2>1. PICK y \in X : \E k \in 1..Len(Q[y]) : Q[y][k] = p BY <1>1, <1>6 DEF ObjectsIn
  <2>2. PICK k \in 1..Len(Q[y]) : Q[y][k] = p BY <2>1
  <2>3. y # x /\ k \in 1..Len(P[y]) /\ P[y][k] = p BY <1>3, <2>2
  <2>4. \A m \in 1..Len(P[x]) : P[x][m] # p BY <1>1, <2>3 DEF OnceEach
  <2> QED BY <1>1, <1>2, <1>6, <2>3, <2>4 DEF ObjectsIn
<1>7. ASSUME NEW p \in ObjectsIn(P), p \notin ToSet(P[x]) PROVE p \in ObjectsIn(Q)
  <2>1. PICK y \in X : \E k \in 1..Len(P[y]) : P[y][k] = p BY <1>1, <1>7 DEF ObjectsIn
  <2>2. y # x BY <1>2, <1>7, <2>1
  <2> QED BY <1>1, <1>7, <2>1, <2>2 DEF ObjectsIn
<1> QED BY <1>4, <1>5, <1>6, <1>7

\* Empty packets are added.
LEMMA EmptyAdded ==
    ASSUME NEW X, NEW Y, NEW P \in [X -> Packets], NEW Q \in [Y -> Packets], OnceEach(P), X \subseteq Y,
           \A y \in X : Q[y] = P[y], \A y \in Y : y \notin X => Q[y] = <<>>
    PROVE  OnceEach(Q) /\ ObjectsIn(Q) = ObjectsIn(P)
<1>1. DOMAIN P = X /\ DOMAIN Q = Y OBVIOUS
<1>2. \A y \in Y : \A k \in 1..Len(Q[y]) : y \in X /\ Q[y] = P[y] BY EmptyLength
<1>3. \A y \in X : Q[y] = P[y] OBVIOUS
<1>4. OnceEach(Q) BY <1>1, <1>2 DEF OnceEach
<1>5. ObjectsIn(Q) \subseteq ObjectsIn(P) BY <1>1, <1>2 DEF ObjectsIn
<1>6. ObjectsIn(P) \subseteq ObjectsIn(Q) BY <1>1, <1>3 DEF ObjectsIn
<1> QED BY <1>4, <1>5, <1>6

\* One packet moves from place x to place z.
LEMMA Relocated ==
    ASSUME NEW X, NEW x \in X, NEW z, z \notin X, NEW Y, Y = (X \ {x}) \cup {z},
           NEW P \in [X -> Packets], NEW Q \in [Y -> Packets], Q[z] = P[x], \A y \in X : y # x => Q[y] = P[y]
    PROVE  (OnceEach(P) => OnceEach(Q)) /\ ObjectsIn(Q) = ObjectsIn(P)
<1> DEFINE f == [y \in Y |-> IF y = z THEN x ELSE y]
<1>1. f \in [Y -> X] OBVIOUS
<1>2. \A y \in Y : f[y] = IF y = z THEN x ELSE y OBVIOUS
<1> HIDE DEF f
<1>3. \A y, w \in Y : f[y] = f[w] => y = w BY <1>2
<1>4. \A w \in X : \E y \in Y : f[y] = w
  <2> SUFFICES ASSUME NEW w \in X PROVE \E y \in Y : f[y] = w OBVIOUS
  <2>1. CASE w = x
    <3>1. z \in Y /\ f[z] = w BY <1>2, <2>1
    <3> QED BY <3>1
  <2>2. CASE w # x
    <3>1. w \in Y /\ f[w] = w BY <1>2, <2>2
    <3> QED BY <3>1
  <2> QED BY <2>1, <2>2
<1>5. \A y \in Y : Q[y] = P[f[y]] BY <1>2
<1> QED BY <1>1, <1>3, <1>4, <1>5, Relabelled

LEMMA HoldersAre ==
    /\ \A l \in Lists : <<"list", l>> \in Holders
    /\ \A u \in Threads : <<"hand", u>> \in Holders /\ <<"input", u>> \in Holders /\ <<"output", u>> \in Holders
    /\ \A h \in Holders : \/ \E l \in Lists : h = <<"list", l>>
                          \/ \E u \in Threads : h \in {<<"hand", u>>, <<"input", u>>, <<"output", u>>}
  BY DEF Holders

LEMMA StackIs ==
    /\ \A l : Stack(<<"list", l>>) = list[l] /\ Stack(<<"list", l>>)' = list'[l]
    /\ \A u : Stack(<<"hand", u>>) = env[u].hand /\ Stack(<<"hand", u>>)' = env'[u].hand
    /\ \A u : Stack(<<"input", u>>) = Just(env[u].input) /\ Stack(<<"input", u>>)' = Just(env'[u].input)
    /\ \A u : Stack(<<"output", u>>) = Just(env[u].output) /\ Stack(<<"output", u>>)' = Just(env'[u].output)
  BY DEF Stack, Just

LEMMA JustIs ==
    /\ Just(NoPacket) = <<>>
    /\ \A p \in Packets : /\ p # NoPacket /\ Just(p) = <<p>> /\ Just(p) # <<>> /\ Len(Just(p)) = 1 /\ Just(p)[1] = p
                          /\ Front(Just(p)) = <<>> /\ Last(Just(p)) = p /\ Append(<<>>, p) = Just(p)
                          /\ Just(p) \in Seq(Packets)
<1>1. Just(NoPacket) = <<>> BY DEF Just
<1>2. ASSUME NEW p \in Packets
      PROVE  /\ p # NoPacket /\ Just(p) = <<p>> /\ Just(p) # <<>> /\ Len(Just(p)) = 1 /\ Just(p)[1] = p
             /\ Front(Just(p)) = <<>> /\ Last(Just(p)) = p /\ Append(<<>>, p) = Just(p)
             /\ Just(p) \in Seq(Packets)
  <2>1. p # NoPacket BY PacketsAssumption
  <2>2. Just(p) = <<p>> BY <2>1 DEF Just
  <2>3. <<p>> \in Seq(Packets) /\ <<p>> # <<>> /\ Len(<<p>>) = 1 /\ <<p>>[1] = p /\ Append(<<>>, p) = <<p>> OBVIOUS
  <2> DEFINE s == <<p>>
  <2>6. s \in Seq(Packets) /\ s # <<>> /\ Len(s) = 1 /\ s[1] = p BY <2>3
  <2> HIDE DEF s
  <2>7. Front(s) \in Seq(Packets) /\ Len(Front(s)) = 0 /\ Last(s) = p
    BY <2>6, FrontIs
  <2>4. Last(<<p>>) = p BY <2>7 DEF s
  <2>5. Front(<<p>>) = <<>>
    <3>1. Front(s) = <<>> BY <2>7
    <3> QED BY <3>1 DEF s
  <2> QED BY <2>1, <2>2, <2>3, <2>4, <2>5
<1> QED BY <1>1, <1>2

LEMMA StackType ==
    ASSUME list \in [Lists -> Seq(Packets)], env \in [Threads -> Locals], NEW h \in Holders
    PROVE  Stack(h) \in Seq(Packets)
<1>1. CASE \E l \in Lists : h = <<"list", l>> BY <1>1, StackIs
<1>2. CASE \E u \in Threads : h \in {<<"hand", u>>, <<"input", u>>, <<"output", u>>}
  <2>1. PICK u \in Threads : h \in {<<"hand", u>>, <<"input", u>>, <<"output", u>>} BY <1>2
  <2>2. env[u] \in Locals OBVIOUS
  <2>3. /\ env[u].hand \in Seq(Packets) /\ env[u].input \in Packets \cup {NoPacket}
        /\ env[u].output \in Packets \cup {NoPacket}
    BY <2>2, LocalsFields
  <2>4. <<>> \in Seq(Packets) OBVIOUS
  <2>5. Just(env[u].input) \in Seq(Packets) BY <2>3, <2>4, JustIs
  <2>6. Just(env[u].output) \in Seq(Packets) BY <2>3, <2>4, JustIs
  <2> QED BY <2>1, <2>3, <2>5, <2>6, StackIs
<1> QED BY <1>1, <1>2, HoldersAre

LEMMA StackTypeNext ==
    ASSUME list' \in [Lists -> Seq(Packets)], env' \in [Threads -> Locals], NEW h \in Holders
    PROVE  Stack(h)' \in Seq(Packets)
<1>1. CASE \E l \in Lists : h = <<"list", l>> BY <1>1, StackIs
<1>2. CASE \E u \in Threads : h \in {<<"hand", u>>, <<"input", u>>, <<"output", u>>}
  <2>1. PICK u \in Threads : h \in {<<"hand", u>>, <<"input", u>>, <<"output", u>>} BY <1>2
  <2>2. env'[u] \in Locals OBVIOUS
  <2>3. /\ env'[u].hand \in Seq(Packets) /\ env'[u].input \in Packets \cup {NoPacket}
        /\ env'[u].output \in Packets \cup {NoPacket}
    BY <2>2, LocalsFields
  <2>4. <<>> \in Seq(Packets) OBVIOUS
  <2>5. Just(env'[u].input) \in Seq(Packets) BY <2>3, <2>4, JustIs
  <2>6. Just(env'[u].output) \in Seq(Packets) BY <2>3, <2>4, JustIs
  <2> QED BY <2>1, <2>3, <2>5, <2>6, StackIs
<1> QED BY <1>1, <1>2, HoldersAre

LEMMA PlacesAre ==
    /\ \A x : x \in Places <=> \E h \in Holders : \E i \in DOMAIN Stack(h) : x = <<h, i>>
    /\ \A x : x \in Places' <=> \E h \in Holders : \E i \in DOMAIN Stack(h)' : x = <<h, i>>
<1>1. Places = UNION {{h} \X DOMAIN Stack(h) : h \in Holders} BY DEF Places
<1>2. Places' = UNION {{h} \X DOMAIN Stack(h)' : h \in Holders} BY DEF Places, Holders
<1> QED BY <1>1, <1>2

LEMMA HoldingIs ==
    /\ DOMAIN Holding = Places /\ DOMAIN Holding' = Places'
    /\ \A h, i : <<h, i>> \in Places => Holding[<<h, i>>] = Stack(h)[i]
    /\ \A h, i : <<h, i>> \in Places' => Holding'[<<h, i>>] = Stack(h)'[i]
  BY DEF Holding, PacketAt

LEMMA HoldingType ==
    ASSUME list \in [Lists -> Seq(Packets)], env \in [Threads -> Locals]
    PROVE  Holding \in [Places -> Packets]
<1>1. ASSUME NEW x \in Places PROVE PacketAt(x) \in Packets
  <2>1. PICK h \in Holders : \E i \in DOMAIN Stack(h) : x = <<h, i>> BY <1>1, PlacesAre
  <2>2. PICK i \in DOMAIN Stack(h) : x = <<h, i>> BY <2>1
  <2>3. Stack(h) \in Seq(Packets) BY StackType
  <2> QED BY <2>2, <2>3 DEF PacketAt
<1> QED BY <1>1 DEF Holding

LEMMA HoldingTypeNext ==
    ASSUME list' \in [Lists -> Seq(Packets)], env' \in [Threads -> Locals]
    PROVE  Holding' \in [Places' -> Packets]
<1>1. ASSUME NEW x \in Places' PROVE PacketAt(x)' \in Packets
  <2>1. PICK h \in Holders : \E i \in DOMAIN Stack(h)' : x = <<h, i>> BY <1>1, PlacesAre
  <2>2. PICK i \in DOMAIN Stack(h)' : x = <<h, i>> BY <2>1
  <2>3. Stack(h)' \in Seq(Packets) BY StackTypeNext
  <2> QED BY <2>2, <2>3 DEF PacketAt
<1> QED BY <1>1 DEF Holding

-----------------------------------------------------------------------------
(* Packets change hands. *)

LEMMA OtherStacks ==
    ASSUME TypeOK, NEW t \in Threads, NEW r, Turns(t, r), NEW A,
           \A l \in Lists : <<"list", l>> \in A \/ list'[l] = list[l],
           <<"hand", t>> \in A \/ r.hand = env[t].hand,
           <<"input", t>> \in A \/ r.input = env[t].input,
           <<"output", t>> \in A \/ r.output = env[t].output,
           NEW h \in Holders, h \notin A
    PROVE  Stack(h)' = Stack(h)
<1>1. env'[t] = r /\ \A u \in Threads : u # t => env'[u] = env[u] BY TurnsIs DEF TypeOK
<1>2. CASE \E l \in Lists : h = <<"list", l>> BY <1>2, StackIs
<1>3. CASE \E u \in Threads : h \in {<<"hand", u>>, <<"input", u>>, <<"output", u>>}
  <2>1. PICK u \in Threads : h \in {<<"hand", u>>, <<"input", u>>, <<"output", u>>} BY <1>3
  <2>2. CASE h = <<"hand", u>>
    <3>1. env'[u].hand = env[u].hand BY <1>1, <2>2
    <3> QED BY <2>2, <3>1, StackIs
  <2>3. CASE h = <<"input", u>>
    <3>1. env'[u].input = env[u].input BY <1>1, <2>3
    <3> QED BY <2>3, <3>1, StackIs
  <2>4. CASE h = <<"output", u>>
    <3>1. env'[u].output = env[u].output BY <1>1, <2>4
    <3> QED BY <2>4, <3>1, StackIs
  <2> QED BY <2>1, <2>2, <2>3, <2>4
<1> QED BY <1>2, <1>3, HoldersAre

\* The types of what a step changes.
StepType == list' \in [Lists -> Seq(Packets)] /\ env' \in [Threads -> Locals]

\* No packet is lost, nor anything in one.
Kept ==
    /\ OnceEach(Holding) => OnceEach(Holding')
    /\ ObjectsIn(Holding') = ObjectsIn(Holding)
    /\ CountInv => CountInv'

LEMMA PacketsStay ==
    ASSUME TypeOK, StepType, \A h \in Holders : Stack(h)' = Stack(h), activePackets' = activePackets
    PROVE  Kept
<1>1. Places' = Places BY PlacesAre
<1>2. Holding \in [Places -> Packets] /\ Holding' \in [Places -> Packets]
  BY <1>1, HoldingType, HoldingTypeNext DEF TypeOK, StepType
<1>3. \A x \in Places : Holding'[x] = Holding[x]
  <2> SUFFICES ASSUME NEW x \in Places PROVE Holding'[x] = Holding[x] OBVIOUS
  <2>1. PICK h \in Holders : \E i \in DOMAIN Stack(h) : x = <<h, i>> BY PlacesAre
  <2>2. PICK i \in DOMAIN Stack(h) : x = <<h, i>> BY <2>1
  <2> QED BY <1>1, <2>2, HoldingIs
<1>4. Holding' = Holding BY <1>2, <1>3
<1> QED BY <1>1, <1>4 DEF Kept, CountInv

LEMMA PlacesMoved ==
    ASSUME TypeOK, StepType, NEW a \in Holders, NEW b \in Holders, a # b,
           Stack(a) # <<>>, Len(Stack(a)') = Len(Stack(a)) - 1, Len(Stack(b)') = Len(Stack(b)) + 1,
           \A h \in Holders : h \notin {a, b} => Stack(h)' = Stack(h),
           NEW x, x = <<a, Len(Stack(a))>>, NEW z, z = <<b, Len(Stack(b)) + 1>>
    PROVE  x \in Places /\ z \notin Places /\ Places' = (Places \ {x}) \cup {z}
<1>1. \A h \in Holders : Stack(h) \in Seq(Packets) BY StackType DEF TypeOK
<1>2. \A h \in Holders : Stack(h)' \in Seq(Packets) BY StackTypeNext DEF StepType
<1>3. \A h \in Holders : Len(Stack(h)) \in Nat /\ DOMAIN Stack(h) = 1..Len(Stack(h)) BY <1>1
<1>4. \A h \in Holders : DOMAIN Stack(h)' = 1..Len(Stack(h)') BY <1>2
<1>5. Len(Stack(a)) # 0 BY <1>1
<1>6. \A h \in Holders : \A i : <<h, i>> \in Places <=> i \in 1..Len(Stack(h)) BY <1>3, PlacesAre
<1>7. \A h \in Holders : \A i : <<h, i>> \in Places' <=> i \in 1..Len(Stack(h)') BY <1>4, PlacesAre
<1>8. x \in Places /\ z \notin Places BY <1>3, <1>5, <1>6
<1>9. ASSUME NEW h \in Holders, NEW i
      PROVE  <<h, i>> \in Places' <=> (<<h, i>> \in Places /\ <<h, i>> # x) \/ <<h, i>> = z
  <2>1. CASE h = a
    <3>1. i \in 1..(Len(Stack(a)) - 1) <=> i \in 1..Len(Stack(a)) /\ i # Len(Stack(a)) BY <1>3, <1>5
    <3> QED BY <1>6, <1>7, <2>1, <3>1
  <2>2. CASE h = b
    <3>1. i \in 1..(Len(Stack(b)) + 1) <=> i \in 1..Len(Stack(b)) \/ i = Len(Stack(b)) + 1 BY <1>3
    <3> QED BY <1>6, <1>7, <2>2, <3>1
  <2>3. CASE h \notin {a, b} BY <1>6, <1>7, <2>3
  <2> QED BY <2>1, <2>2, <2>3
<1>10. \A y \in Places : \E h \in Holders : \E i : y = <<h, i>> BY PlacesAre
<1>11. \A y \in Places' : \E h \in Holders : \E i : y = <<h, i>> BY PlacesAre
<1>12. Places' \subseteq (Places \ {x}) \cup {z} BY <1>9, <1>11
<1>13. (Places \ {x}) \cup {z} \subseteq Places' BY <1>9, <1>10
<1> QED BY <1>8, <1>12, <1>13

LEMMA CountMoved ==
    ASSUME CountInv, NEW x \in Places, NEW z, z \notin Places, Places' = (Places \ {x}) \cup {z},
           activePackets' = activePackets
    PROVE  CountInv'
<1>1. IsFiniteSet(Places) /\ Cardinality(Places) = activePackets BY DEF CountInv
<1>2. IsFiniteSet(Places \ {x}) /\ Cardinality(Places \ {x}) = Cardinality(Places) - 1
  BY <1>1, FS_RemoveElement
<1>3. z \notin Places \ {x} OBVIOUS
<1>4. /\ IsFiniteSet((Places \ {x}) \cup {z})
      /\ Cardinality((Places \ {x}) \cup {z}) = Cardinality(Places \ {x}) + 1
  BY <1>2, <1>3, FS_AddElement
<1>5. Cardinality(Places) \in Nat BY <1>1, FS_CardinalityType
<1> QED BY <1>1, <1>2, <1>4, <1>5 DEF CountInv

\* The top packet of a becomes the top packet of b.
LEMMA PacketMoves ==
    ASSUME TypeOK, StepType, NEW a \in Holders, NEW b \in Holders, a # b, Stack(a) # <<>>,
           Stack(a)' = Front(Stack(a)), Stack(b)' = Append(Stack(b), Last(Stack(a))),
           \A h \in Holders : h \notin {a, b} => Stack(h)' = Stack(h), activePackets' = activePackets
    PROVE  Kept
<1> DEFINE x == <<a, Len(Stack(a))>>  z == <<b, Len(Stack(b)) + 1>>
<1>1. Stack(a) \in Seq(Packets) /\ Stack(b) \in Seq(Packets) BY StackType DEF TypeOK
<1>2. /\ Len(Stack(a)') = Len(Stack(a)) - 1 /\ Last(Stack(a)) = Stack(a)[Len(Stack(a))]
      /\ Last(Stack(a)) \in Packets
      /\ \A i \in 1..(Len(Stack(a)) - 1) : Stack(a)'[i] = Stack(a)[i]
  BY <1>1, FrontIs
<1>3. /\ Len(Stack(b)') = Len(Stack(b)) + 1 /\ Stack(b)'[Len(Stack(b)) + 1] = Last(Stack(a))
      /\ \A i \in 1..Len(Stack(b)) : Stack(b)'[i] = Stack(b)[i]
  BY <1>1, <1>2
<1>4. x \in Places /\ z \notin Places /\ Places' = (Places \ {x}) \cup {z} BY <1>2, <1>3, PlacesMoved
<1>5. Holding \in [Places -> Packets] /\ Holding' \in [Places' -> Packets]
  BY HoldingType, HoldingTypeNext DEF TypeOK, StepType
<1>6. Holding'[z] = Holding[x] BY <1>2, <1>3, <1>4, HoldingIs
<1>7. ASSUME NEW y \in Places, y # x PROVE Holding'[y] = Holding[y]
  <2>1. PICK h \in Holders : \E i \in DOMAIN Stack(h) : y = <<h, i>> BY PlacesAre
  <2>2. PICK i \in DOMAIN Stack(h) : y = <<h, i>> BY <2>1
  <2>3. Holding[y] = Stack(h)[i] /\ Holding'[y] = Stack(h)'[i] BY <1>4, <1>7, <2>2, HoldingIs
  <2>4. CASE h = a
    <3>1. i \in 1..Len(Stack(a)) /\ i # Len(Stack(a)) /\ Len(Stack(a)) \in Nat BY <1>1, <1>7, <2>2, <2>4
    <3>2. i \in 1..(Len(Stack(a)) - 1) BY <3>1
    <3> QED BY <1>2, <2>3, <2>4, <3>2
  <2>5. CASE h = b
    <3>1. i \in 1..Len(Stack(b)) BY <1>1, <2>2, <2>5
    <3> QED BY <1>3, <2>3, <2>5, <3>1
  <2>6. CASE h \notin {a, b} BY <2>3, <2>6
  <2> QED BY <2>4, <2>5, <2>6
<1> HIDE DEF x, z
<1>8. (OnceEach(Holding) => OnceEach(Holding')) /\ ObjectsIn(Holding') = ObjectsIn(Holding)
  BY <1>4, <1>5, <1>6, <1>7, Relocated
<1>9. CountInv => CountInv' BY <1>4, CountMoved
<1> QED BY <1>8, <1>9 DEF Kept

\* One packet is changed where it is.
LEMMA PacketChanges ==
    ASSUME TypeOK, StepType, NEW b \in Holders, NEW p \in Packets, Stack(b) = Just(p), NEW q \in Packets,
           Stack(b)' = Just(q), \A h \in Holders : h # b => Stack(h)' = Stack(h), activePackets' = activePackets
    PROVE  /\ Holding \in [Places -> Packets] /\ Holding' \in [Places -> Packets] /\ <<b, 1>> \in Places
           /\ Holding[<<b, 1>>] = p /\ Holding'[<<b, 1>>] = q
           /\ \A y \in Places : y # <<b, 1>> => Holding'[y] = Holding[y]
           /\ CountInv => CountInv'
<1>1. DOMAIN Stack(b) = {1} /\ DOMAIN Stack(b)' = {1} /\ Stack(b)[1] = p /\ Stack(b)'[1] = q
  <2>1. \A w \in Packets : DOMAIN Just(w) = {1} /\ Just(w)[1] = w
    <3> SUFFICES ASSUME NEW w \in Packets PROVE DOMAIN Just(w) = {1} /\ Just(w)[1] = w OBVIOUS
    <3>1. Just(w) = <<w>> BY JustIs
    <3> QED BY <3>1
  <2> QED BY <2>1
<1>2. \A h \in Holders : DOMAIN Stack(h)' = DOMAIN Stack(h) BY <1>1
<1>3. Places' = Places BY <1>2, PlacesAre
<1>4. Holding \in [Places -> Packets] /\ Holding' \in [Places -> Packets]
  BY <1>3, HoldingType, HoldingTypeNext DEF TypeOK, StepType
<1>5. <<b, 1>> \in Places BY <1>1, PlacesAre
<1>6. Holding[<<b, 1>>] = p /\ Holding'[<<b, 1>>] = q BY <1>1, <1>3, <1>5, HoldingIs
<1>7. ASSUME NEW y \in Places, y # <<b, 1>> PROVE Holding'[y] = Holding[y]
  <2>1. PICK h \in Holders : \E i \in DOMAIN Stack(h) : y = <<h, i>> BY PlacesAre
  <2>2. PICK i \in DOMAIN Stack(h) : y = <<h, i>> BY <2>1
  <2>3. h # b BY <1>1, <1>7, <2>2
  <2> QED BY <1>3, <2>2, <2>3, HoldingIs
<1>8. CountInv => CountInv' BY <1>3 DEF CountInv
<1> QED BY <1>4, <1>5, <1>6, <1>7, <1>8

\* The top packet of a is emptied and becomes the only one of b.
LEMMA PacketOverflows ==
    ASSUME TypeOK, StepType, NEW a \in Holders, NEW b \in Holders, a # b, Stack(a) # <<>>,
           Stack(a)' = Front(Stack(a)), Stack(b) = <<>>, Stack(b)' = Just(<<>>),
           \A h \in Holders : h \notin {a, b} => Stack(h)' = Stack(h), activePackets' = activePackets,
           OnceEach(Holding), CountInv
    PROVE  /\ OnceEach(Holding') /\ CountInv' /\ ToSet(Last(Stack(a))) \subseteq ObjectsIn(Holding)
           /\ ObjectsIn(Holding') = ObjectsIn(Holding) \ ToSet(Last(Stack(a)))
<1> DEFINE p == Last(Stack(a))  x == <<a, Len(Stack(a))>>  z == <<b, Len(Stack(b)) + 1>>
           M == [y \in Places' |-> IF y = z THEN p ELSE Holding[y]]
<1>1. Stack(a) \in Seq(Packets) BY StackType DEF TypeOK
<1>2. /\ Len(Stack(a)') = Len(Stack(a)) - 1 /\ p = Stack(a)[Len(Stack(a))] /\ p \in Packets
      /\ \A i \in 1..(Len(Stack(a)) - 1) : Stack(a)'[i] = Stack(a)[i]
  BY <1>1, FrontIs
<1>3. Len(Stack(b)) = 0 /\ Len(Stack(b)') = 1 /\ Stack(b)'[1] = <<>> /\ z = <<b, 1>> /\ DOMAIN Stack(b) = {}
  <2>1. <<>> \in Packets BY DEF Packets
  <2> QED BY <2>1, JustIs, EmptyLength
<1>14. Len(Stack(b)') = Len(Stack(b)) + 1 BY <1>3
<1>4. x \in Places /\ z \notin Places /\ Places' = (Places \ {x}) \cup {z}
  <2> HIDE DEF p
  <2> QED BY <1>2, <1>14, PlacesMoved
<1>5. Holding \in [Places -> Packets] /\ Holding' \in [Places' -> Packets]
  BY HoldingType, HoldingTypeNext DEF TypeOK, StepType
<1>6. Holding[x] = p /\ Holding'[z] = <<>> BY <1>2, <1>3, <1>4, HoldingIs
<1>7. ASSUME NEW y \in Places, y # x PROVE Holding'[y] = Holding[y]
  <2>1. PICK h \in Holders : \E i \in DOMAIN Stack(h) : y = <<h, i>> BY PlacesAre
  <2>2. PICK i \in DOMAIN Stack(h) : y = <<h, i>> BY <2>1
  <2>3. Holding[y] = Stack(h)[i] /\ Holding'[y] = Stack(h)'[i] BY <1>4, <1>7, <2>2, HoldingIs
  <2>4. CASE h = a
    <3>1. i \in 1..Len(Stack(a)) /\ i # Len(Stack(a)) /\ Len(Stack(a)) \in Nat BY <1>1, <1>7, <2>2, <2>4
    <3>2. i \in 1..(Len(Stack(a)) - 1) BY <3>1
    <3> QED BY <1>2, <2>3, <2>4, <3>2
  <2>5. CASE h = b BY <1>3, <2>2, <2>5
  <2>6. CASE h \notin {a, b} BY <2>3, <2>6
  <2> QED BY <2>4, <2>5, <2>6
<1> HIDE DEF p, x, z
<1>8. M \in [Places' -> Packets] /\ M[z] = p /\ \A y \in Places : y # x => M[y] = Holding[y]
  BY <1>2, <1>4, <1>5
<1> HIDE DEF M
<1>9. OnceEach(M) /\ ObjectsIn(M) = ObjectsIn(Holding) BY <1>4, <1>5, <1>6, <1>8, Relocated
<1>10. \A y \in Places' : y # z => Holding'[y] = M[y] BY <1>4, <1>7, <1>8
<1>11. z \in Places' BY <1>4
<1>12. OnceEach(Holding') /\ ToSet(M[z]) \subseteq ObjectsIn(M) /\ ObjectsIn(Holding') = ObjectsIn(M) \ ToSet(M[z])
  BY <1>5, <1>6, <1>8, <1>9, <1>10, <1>11, Emptied
<1>13. CountInv' BY <1>4, CountMoved
<1> QED BY <1>8, <1>9, <1>12, <1>13 DEF p

\* A block of empty packets is added.
LEMMA PacketsAdded ==
    ASSUME TypeOK, StepType, NEW a \in Holders, NEW n \in Nat, Stack(a) = <<>>, Stack(a)' = [i \in 1..n |-> <<>>],
           \A h \in Holders : h # a => Stack(h)' = Stack(h), activePackets' = activePackets + n,
           OnceEach(Holding), CountInv
    PROVE  OnceEach(Holding') /\ CountInv' /\ ObjectsIn(Holding') = ObjectsIn(Holding)
<1> DEFINE B == {a} \X (1..n)
<1>1. DOMAIN Stack(a) = {} /\ DOMAIN Stack(a)' = 1..n /\ \A i \in 1..n : Stack(a)'[i] = <<>> OBVIOUS
<1>2. Places' = Places \cup B
  <2>1. \A h \in Holders : \A i : <<h, i>> \in Places' <=> <<h, i>> \in Places \/ (h = a /\ i \in 1..n)
    BY <1>1, PlacesAre
  <2>2. \A y \in Places : \E h \in Holders : \E i : y = <<h, i>> BY PlacesAre
  <2>3. \A y \in Places' : \E h \in Holders : \E i : y = <<h, i>> BY PlacesAre
  <2>4. Places' \subseteq Places \cup B BY <2>1, <2>3
  <2>5. Places \cup B \subseteq Places' BY <2>1, <2>2
  <2> QED BY <2>4, <2>5
<1>3. Places \cap B = {} BY <1>1, PlacesAre
<1>4. Holding \in [Places -> Packets] /\ Holding' \in [Places' -> Packets]
  BY HoldingType, HoldingTypeNext DEF TypeOK, StepType
<1>5. ASSUME NEW y \in Places' PROVE Holding'[y] = IF y \in Places THEN Holding[y] ELSE <<>>
  <2>1. CASE y \in Places
    <3>1. PICK h \in Holders : \E i \in DOMAIN Stack(h) : y = <<h, i>> BY <2>1, PlacesAre
    <3>2. PICK i \in DOMAIN Stack(h) : y = <<h, i>> BY <3>1
    <3>3. h # a BY <1>1, <3>2
    <3> QED BY <1>2, <2>1, <3>2, <3>3, HoldingIs
  <2>2. CASE y \notin Places
    <3>1. y \in B BY <1>2, <2>2
    <3>2. PICK i \in 1..n : y = <<a, i>> BY <3>1
    <3> QED BY <1>1, <1>2, <2>2, <3>2, HoldingIs
  <2> QED BY <2>1, <2>2
<1>12. Places \subseteq Places' BY <1>2
<1>13. /\ \A y \in Places : Holding'[y] = Holding[y]
       /\ \A y \in Places' : y \notin Places => Holding'[y] = <<>>
  BY <1>5, <1>12
<1>6. OnceEach(Holding') /\ ObjectsIn(Holding') = ObjectsIn(Holding) BY <1>4, <1>12, <1>13, EmptyAdded
<1>7. IsFiniteSet(B) /\ Cardinality(B) = n
  <2>1. IsFiniteSet(1..n) /\ Cardinality(1..n) = n BY FS_Interval
  <2>2. IsFiniteSet({a}) /\ Cardinality({a}) = 1 BY FS_Singleton
  <2>3. IsFiniteSet(B) /\ Cardinality(B) = Cardinality({a}) * Cardinality(1..n)
    <3> HIDE DEF B
    <3>1. ASSUME NEW T, IsFiniteSet(T)
          PROVE  IsFiniteSet({a} \X T) /\ Cardinality({a} \X T) = Cardinality({a}) * Cardinality(T)
      BY <2>2, <3>1, FS_Product
    <3> QED BY <2>1, <3>1 DEF B
  <2> QED BY <2>1, <2>2, <2>3
<1>8. IsFiniteSet(Places) /\ Cardinality(Places) = activePackets /\ activePackets \in Nat
  BY DEF CountInv, TypeOK
<1>9. Cardinality(Places \cap B) = 0 BY <1>3, FS_EmptySet
<1> HIDE DEF B
<1>10. IsFiniteSet(Places \cup B) /\ Cardinality(Places \cup B) = activePackets + n - Cardinality(Places \cap B)
  BY <1>7, <1>8, FS_Union
<1>11. Cardinality(Places') = activePackets' BY <1>2, <1>8, <1>9, <1>10
<1> QED BY <1>2, <1>6, <1>10, <1>11 DEF CountInv

-----------------------------------------------------------------------------
(* Objects between being marked and being scanned. *)

Data == ListInv /\ OverflowInv /\ WorkInv /\ CountInv /\ ScanInv

LEMMA IInvIs == IInv <=> TypeOK /\ Control /\ Data
  BY DEF IInv, Control, Data

LEMMA ItemsSame ==
    ASSUME \A u \in Threads : env'[u].item = env[u].item
    PROVE  Items' = Items /\ (OneItemEach => OneItemEach')
  BY DEF Items, OneItemEach

LEMMA ItemAdded ==
    ASSUME TypeOK, NEW t \in Threads, NEW r, Turns(t, r), env[t].item = 0, NEW o \in Objects, r.item = o,
           OneItemEach, o \notin Items
    PROVE  Items' = Items \cup {o} /\ OneItemEach'
<1>1. env'[t] = r /\ \A u \in Threads : u # t => env'[u] = env[u] BY TurnsIs DEF TypeOK
<1>2. o # 0 BY DEF Objects
<1>3. \A u \in Threads : env[u].item # o BY <1>2 DEF Items
<1>4. Items' = Items \cup {o} BY <1>1, <1>2 DEF Items
<1>5. OneItemEach' BY <1>1, <1>3 DEF OneItemEach
<1> QED BY <1>4, <1>5

LEMMA ItemTaken ==
    ASSUME TypeOK, NEW t \in Threads, NEW r, Turns(t, r), NEW o \in Objects, env[t].item = o, r.item = 0, OneItemEach
    PROVE  o \in Items /\ Items' = Items \ {o} /\ OneItemEach'
<1>1. env'[t] = r /\ \A u \in Threads : u # t => env'[u] = env[u] BY TurnsIs DEF TypeOK
<1>2. o # 0 BY DEF Objects
<1>3. \A u \in Threads : u # t => env[u].item # o BY <1>2 DEF OneItemEach
<1>4. o \in Items BY <1>2 DEF Items
<1>5. Items' = Items \ {o} BY <1>1, <1>2, <1>3 DEF Items
<1>6. OneItemEach' BY <1>1 DEF OneItemEach
<1> QED BY <1>4, <1>5, <1>6

\* The slots of a thread are kept, or marked.
LEMMA ScanFrame ==
    ASSUME TypeOK, ScanInv, NEW t \in Threads, NEW r, Turns(t, r), scanned' = scanned, marked \subseteq marked',
           r.round = env[t].round, ToSet(env[t].todo) \subseteq marked' \cup ToSet(r.todo)
    PROVE  ScanInv'
<1>1. env'[t] = r /\ \A u \in Threads : u # t => env'[u] = env[u] BY TurnsIs DEF TypeOK
<1>2. \A u \in Threads : ToSet(env[u].todo) \subseteq marked' \cup ToSet(env'[u].todo) /\ env'[u].round = env[u].round
  BY <1>1
<1>3. ASSUME NEW o \in scanned', NEW p \in ToSet(Refs[o])
      PROVE  p \in marked' \/ \E u \in Threads : p \in ToSet(env'[u].todo)
  <2>1. p \in marked \/ \E u \in Threads : p \in ToSet(env[u].todo) BY <1>3 DEF ScanInv
  <2> QED BY <1>2, <2>1
<1>4. ASSUME NEW u \in Threads, NEW q \in 1..env'[u].round
      PROVE  ToSet(Roots[q]) \subseteq marked' \cup ToSet(env'[u].todo)
  <2>1. ToSet(Roots[q]) \subseteq marked \cup ToSet(env[u].todo) BY <1>2, <1>4 DEF ScanInv
  <2> QED BY <1>2, <2>1
<1> QED BY <1>3, <1>4 DEF ScanInv

\* An object is taken by a thread that has no slots to mark.
LEMMA ScanStarts ==
    ASSUME TypeOK, ScanInv, NEW t \in Threads, NEW r, Turns(t, r), NEW o \in Objects, scanned' = scanned \cup {o},
           marked' = marked, r.round = env[t].round, env[t].todo = <<>>, r.todo = Refs[o]
    PROVE  ScanInv'
<1>1. env'[t] = r /\ \A u \in Threads : u # t => env'[u] = env[u] BY TurnsIs DEF TypeOK
<1>2. ToSet(<<>>) = {} BY DEF ToSet
<1>3. \A u \in Threads : ToSet(env[u].todo) \subseteq ToSet(env'[u].todo) /\ env'[u].round = env[u].round
  BY <1>1, <1>2
<1>4. ASSUME NEW w \in scanned', NEW p \in ToSet(Refs[w])
      PROVE  p \in marked' \/ \E u \in Threads : p \in ToSet(env'[u].todo)
  <2>1. CASE w = o BY <1>1, <1>4, <2>1
  <2>2. CASE w \in scanned
    <3>1. p \in marked \/ \E u \in Threads : p \in ToSet(env[u].todo) BY <1>4, <2>2 DEF ScanInv
    <3> QED BY <1>3, <3>1
  <2> QED BY <2>1, <2>2
<1>5. ASSUME NEW u \in Threads, NEW q \in 1..env'[u].round
      PROVE  ToSet(Roots[q]) \subseteq marked' \cup ToSet(env'[u].todo)
  <2>1. ToSet(Roots[q]) \subseteq marked \cup ToSet(env[u].todo) BY <1>3, <1>5 DEF ScanInv
  <2> QED BY <1>3, <2>1
<1> QED BY <1>4, <1>5 DEF ScanInv

LEMMA WorkKept ==
    ASSUME WorkInv, Kept, \A u \in Threads : env'[u].item = env[u].item,
           UNCHANGED <<marked, overflowed, scanned>>
    PROVE  WorkInv'
  BY ItemsSame DEF WorkInv, Kept

\* Packets move; what is in them, and all else, stays.
LEMMA DataKept ==
    ASSUME TypeOK, Data, NEW t \in Threads, NEW r, Turns(t, r), Kept, ListInv',
           r.item = env[t].item, r.todo = env[t].todo, r.round = env[t].round,
           UNCHANGED <<marked, overflowed, overflow, walk, scanned>>
    PROVE  Data'
<1>1. env'[t] = r /\ \A u \in Threads : u # t => env'[u] = env[u] BY TurnsIs DEF TypeOK
<1>2. WorkInv' BY <1>1, WorkKept DEF Data
<1>3. CountInv' BY DEF Data, Kept
<1>4. ScanInv' BY ScanFrame DEF Data
<1>5. OverflowInv' BY DEF Data, OverflowInv
<1> QED BY <1>2, <1>3, <1>4, <1>5 DEF Data

\* No packet moves.
LEMMA StacksStay ==
    ASSUME TypeOK, NEW t \in Threads, NEW r, Turns(t, r), UNCHANGED listVars, r.hand = env[t].hand,
           r.input = env[t].input, r.output = env[t].output
    PROVE  StepType /\ Kept
<1>1. list' = list /\ activePackets' = activePackets BY DEF listVars
<1>2. StepType BY <1>1, TurnsIs DEF TypeOK, StepType
<1>3. \A h \in Holders : Stack(h)' = Stack(h)
  <2> SUFFICES ASSUME NEW h \in Holders PROVE Stack(h)' = Stack(h) OBVIOUS
  <2> DEFINE A == {}
  <2>1. h \notin A OBVIOUS
  <2> HIDE DEF A
  <2> QED BY <1>1, <2>1, OtherStacks
<1> QED BY <1>1, <1>2, <1>3, PacketsStay

LEMMA DataStays ==
    ASSUME TypeOK, Data, NEW t \in Threads, NEW r, Turns(t, r), KeepsWork(env[t], r), UNCHANGED listVars,
           UNCHANGED <<marked, overflowed, overflow, walk, scanned>>
    PROVE  StepType /\ Data'
<1>1. StepType /\ Kept BY StacksStay DEF KeepsWork
<1>2. ListInv' BY DEF Data, ListInv, listVars
<1> QED BY <1>1, <1>2, DataKept DEF KeepsWork

LEMMA MarksType ==
    ASSUME TypeOK, UNCHANGED markVars
    PROVE  /\ marked' \in SUBSET Objects /\ overflowed' \in SUBSET marked' /\ scanned' \in SUBSET marked'
           /\ overflow' \in BOOLEAN /\ walk' \in 0..(HeapTop + 1)
  BY DEF TypeOK, markVars

LEMMA TypeNext ==
    ASSUME StepType, activePackets' \in Nat, inputListWaitCount' \in 0..Cardinality(Threads),
           inputListDoneIndex' \in Nat, Monitor!TypeOK',
           /\ marked' \in SUBSET Objects /\ overflowed' \in SUBSET marked' /\ scanned' \in SUBSET marked'
           /\ overflow' \in BOOLEAN /\ walk' \in 0..(HeapTop + 1)
    PROVE  TypeOK'
  BY DEF StepType, TypeOK

\* A step of a thread that leaves packets, slots and marks as they are.
LEMMA PlainStep ==
    ASSUME IInv, NEW t \in Threads, NEW r, Turns(t, r), KeepsWork(env[t], r), Control', Monitor!TypeOK',
           inputListWaitCount' \in 0..Cardinality(Threads), inputListDoneIndex' \in Nat,
           UNCHANGED <<listVars, markVars>>
    PROVE  IInv'
<1>1. TypeOK /\ Control /\ Data BY IInvIs
<1>2. UNCHANGED listVars /\ activePackets' = activePackets /\ UNCHANGED <<marked, overflowed, overflow, walk, scanned>>
  BY DEF listVars, markVars
<1>3. StepType /\ Data' BY <1>1, <1>2, DataStays
<1>4. TypeOK' BY <1>1, <1>2, <1>3, TypeNext, MarksType DEF TypeOK
<1> QED BY <1>3, <1>4 DEF IInv, Control, Data

\* A mild one.
LEMMA MildStay ==
    ASSUME IInv, NEW t \in Threads, NEW r, Becomes(t, r), Mild(env[t], r), SameWork(env[t], r),
           UNCHANGED <<listVars, countVars, monitorVars, markVars>>
    PROVE  IInv'
<1>1. TypeOK /\ Control BY IInvIs
<1>2. Turns(t, r) BY DEF Turns, Becomes, Mild
<1>3. UNCHANGED <<countVars, owner, count, saved>> /\ waitState' = waitState BY DEF monitorVars
<1>4. waitState' \in [Threads -> {"none", "waiting", "woken"}] BY <1>1, <1>3 DEF TypeOK, Monitor!TypeOK
<1>5. scanned' = scanned /\ overflow' = overflow /\ walk' = walk /\ list' = list BY DEF listVars, markVars
<1>6. Control' /\ Monitor!TypeOK' BY <1>1, <1>2, <1>3, <1>4, <1>5, MildFrame
<1>7. inputListWaitCount' \in 0..Cardinality(Threads) /\ inputListDoneIndex' \in Nat
  BY <1>1 DEF countVars, TypeOK
<1>8. KeepsWork(env[t], r) BY DEF KeepsWork, SameWork
<1> QED BY <1>2, <1>6, <1>7, <1>8, PlainStep

\* Or one in which packets move.
LEMMA MildMove ==
    ASSUME IInv, NEW t \in Threads, NEW r, Turns(t, r), Mild(env[t], r), StepType, Kept, ListInv',
           r.item = env[t].item, r.todo = env[t].todo,
           UNCHANGED <<activePackets, countVars, monitorVars, markVars>>,
           \/ \A l \in WorkLists : list[l] = <<>> => list'[l] = <<>>
           \/ env[t].pc \in Putting /\ env[t].call # "flush"
    PROVE  IInv'
<1>1. TypeOK /\ Control /\ Data BY IInvIs
<1>2. UNCHANGED <<countVars, owner, count, saved>> /\ waitState' = waitState BY DEF monitorVars
<1>3. waitState' \in [Threads -> {"none", "waiting", "woken"}] BY <1>1, <1>2 DEF TypeOK, Monitor!TypeOK
<1>4. UNCHANGED <<marked, overflowed, overflow, walk, scanned>> BY DEF markVars
<1>5. Control' /\ Monitor!TypeOK' BY <1>1, <1>2, <1>3, <1>4, MildFrame
<1>6. inputListWaitCount' \in 0..Cardinality(Threads) /\ inputListDoneIndex' \in Nat
  BY <1>1 DEF countVars, TypeOK
<1>7. Data' BY <1>1, <1>4, DataKept DEF Mild
<1>8. TypeOK' BY <1>1, <1>5, <1>6, TypeNext, MarksType DEF TypeOK
<1> QED BY <1>5, <1>7, <1>8 DEF IInv, Control, Data

-----------------------------------------------------------------------------
(* Packets go from a list to a thread, from a thread to a list, and between the *)
(* hands of a thread.                                                           *)

LEMMA PoppedIs ==
    ASSUME TypeOK, ListInv, NEW l \in Lists, list[l] # <<>>, list' = Popped(l)
    PROVE  /\ list' \in [Lists -> Seq(Packets)] /\ list'[l] = Front(list[l]) /\ ListInv'
           /\ \A m \in Lists : m # l => list'[m] = list[m]
           /\ \A m \in Lists : list[m] = <<>> => list'[m] = <<>>
           /\ HeadOf(l) \in Packets /\ Len(HeadOf(l)) <= Slots /\ (HeadOf(l) = <<>> <=> l = "empty")
<1>1. list \in [Lists -> Seq(Packets)] /\ list[l] \in Seq(Packets) BY DEF TypeOK
<1>2. /\ Len(list[l]) \in Nat \ {0} /\ Last(list[l]) \in Packets /\ Last(list[l]) = list[l][Len(list[l])]
      /\ Front(list[l]) \in Seq(Packets) /\ Len(Front(list[l])) = Len(list[l]) - 1
      /\ \A i \in 1..(Len(list[l]) - 1) : Front(list[l])[i] = list[l][i]
  BY <1>1, FrontIs
<1>3. /\ list' \in [Lists -> Seq(Packets)] /\ list'[l] = Front(list[l])
      /\ \A m \in Lists : m # l => list'[m] = list[m]
  BY <1>1, <1>2 DEF Popped
<1>4. HeadOf(l) \in Packets /\ HeadOf(l) = list[l][Len(list[l])] BY <1>2 DEF HeadOf
<1>5. Len(HeadOf(l)) <= Slots /\ (HeadOf(l) = <<>> <=> l = "empty")
  <2>1. Len(list[l]) \in 1..Len(list[l]) BY <1>2
  <2> QED BY <1>4, <2>1 DEF ListInv
<1>6. \A i \in 1..Len(list'[l]) : Len(list'[l][i]) <= Slots /\ (list'[l][i] = <<>> <=> l = "empty")
  <2>1. \A i \in 1..Len(list'[l]) : i \in 1..Len(list[l]) /\ list'[l][i] = list[l][i] BY <1>2, <1>3
  <2> QED BY <2>1 DEF ListInv
<1>7. ListInv' BY <1>3, <1>6 DEF ListInv
<1> QED BY <1>3, <1>4, <1>5, <1>7

LEMMA PushedIs ==
    ASSUME TypeOK, ListInv, NEW l \in Lists, NEW p \in Packets, Len(p) <= Slots, p = <<>> <=> l = "empty",
           list' = Pushed(l, p)
    PROVE  /\ list' \in [Lists -> Seq(Packets)] /\ list'[l] = Append(list[l], p) /\ ListInv'
           /\ \A m \in Lists : m # l => list'[m] = list[m]
<1>1. list \in [Lists -> Seq(Packets)] /\ list[l] \in Seq(Packets) BY DEF TypeOK
<1>2. /\ list' \in [Lists -> Seq(Packets)] /\ list'[l] = Append(list[l], p)
      /\ \A m \in Lists : m # l => list'[m] = list[m]
  BY <1>1 DEF Pushed
<1>3. ASSUME NEW i \in 1..Len(list'[l])
      PROVE  Len(list'[l][i]) <= Slots /\ (list'[l][i] = <<>> <=> l = "empty")
  <2>1. CASE i \in 1..Len(list[l])
    <3>1. list'[l][i] = list[l][i] BY <1>1, <1>2, <2>1
    <3> QED BY <2>1, <3>1 DEF ListInv
  <2>2. CASE i = Len(list[l]) + 1
    <3>1. list'[l][i] = p BY <1>1, <1>2, <2>2
    <3> QED BY <3>1
  <2> QED BY <1>1, <1>2, <2>1, <2>2
<1>4. ListInv' BY <1>2, <1>3 DEF ListInv
<1> QED BY <1>2, <1>4

HandsOf(t) == {<<"hand", t>>, <<"input", t>>, <<"output", t>>}

\* The hands of t, but for those in A, hold what they did.
Steady(t, r, A) ==
    /\ <<"hand", t>> \in A \/ r.hand = env[t].hand
    /\ <<"input", t>> \in A \/ r.input = env[t].input
    /\ <<"output", t>> \in A \/ r.output = env[t].output

LEMMA PopMoves ==
    ASSUME TypeOK, ListInv, NEW t \in Threads, NEW r, Turns(t, r), NEW l \in Lists, list[l] # <<>>,
           list' = Popped(l), activePackets' = activePackets, NEW b \in HandsOf(t), Steady(t, r, {b}),
           Stack(b)' = Append(Stack(b), HeadOf(l))
    PROVE  StepType /\ Kept /\ ListInv'
<1> DEFINE a == <<"list", l>>
<1>1. /\ list' \in [Lists -> Seq(Packets)] /\ list'[l] = Front(list[l]) /\ ListInv'
      /\ \A m \in Lists : m # l => list'[m] = list[m]
  BY PoppedIs
<1>2. StepType BY <1>1, TurnsIs DEF StepType, TypeOK
<1>3. a \in Holders /\ b \in Holders /\ a # b
  <2>1. a[1] = "list" /\ b[1] \in {"hand", "input", "output"} BY DEF HandsOf
  <2>2. a \in Holders /\ b \in Holders BY HoldersAre DEF HandsOf
  <2> HIDE DEF a
  <2> QED BY <2>1, <2>2
<1>4. Stack(a) = list[l] /\ Stack(a)' = Front(Stack(a)) /\ Last(Stack(a)) = HeadOf(l)
  BY <1>1, StackIs DEF HeadOf
<1>5. ASSUME NEW h \in Holders, h \notin {a, b} PROVE Stack(h)' = Stack(h)
  <2>1. \A m \in Lists : <<"list", m>> \in {a, b} \/ list'[m] = list[m] BY <1>1
  <2>2. Steady(t, r, {a, b}) BY DEF Steady
  <2> HIDE DEF a
  <2> QED BY <1>5, <2>1, <2>2, OtherStacks DEF Steady
<1> HIDE DEF a
<1>6. Kept BY <1>2, <1>3, <1>4, <1>5, PacketMoves
<1> QED BY <1>1, <1>2, <1>6

LEMMA PushMoves ==
    ASSUME TypeOK, ListInv, NEW t \in Threads, NEW r, Turns(t, r), NEW l \in Lists, NEW a \in HandsOf(t),
           Stack(a) # <<>>, Stack(a)' = Front(Stack(a)), list' = Pushed(l, Last(Stack(a))),
           Len(Last(Stack(a))) <= Slots, Last(Stack(a)) = <<>> <=> l = "empty",
           activePackets' = activePackets, Steady(t, r, {a})
    PROVE  StepType /\ Kept /\ ListInv' /\ \A m \in Lists : m # l => list'[m] = list[m]
<1> DEFINE b == <<"list", l>>
<1>1. a \in Holders /\ b \in Holders /\ a # b
  <2>1. b[1] = "list" /\ a[1] \in {"hand", "input", "output"} BY DEF HandsOf
  <2>2. a \in Holders /\ b \in Holders BY HoldersAre DEF HandsOf
  <2> HIDE DEF b
  <2> QED BY <2>1, <2>2
<1>2. Stack(a) \in Seq(Packets) BY <1>1, StackType DEF TypeOK
<1>3. Last(Stack(a)) \in Packets BY <1>2, FrontIs
<1>4. /\ list' \in [Lists -> Seq(Packets)] /\ list'[l] = Append(list[l], Last(Stack(a))) /\ ListInv'
      /\ \A m \in Lists : m # l => list'[m] = list[m]
  BY <1>3, PushedIs
<1>5. StepType BY <1>4, TurnsIs DEF StepType, TypeOK
<1>6. Stack(b)' = Append(Stack(b), Last(Stack(a))) BY <1>4, StackIs
<1>7. ASSUME NEW h \in Holders, h \notin {a, b} PROVE Stack(h)' = Stack(h)
  <2>1. \A m \in Lists : <<"list", m>> \in {a, b} \/ list'[m] = list[m] BY <1>4
  <2>2. Steady(t, r, {a, b}) BY DEF Steady
  <2> HIDE DEF b
  <2> QED BY <1>7, <2>1, <2>2, OtherStacks DEF Steady
<1> HIDE DEF b
<1>8. Kept BY <1>1, <1>5, <1>6, <1>7, PacketMoves
<1> QED BY <1>4, <1>5, <1>8

LEMMA OwnMoves ==
    ASSUME TypeOK, ListInv, NEW t \in Threads, NEW r, Turns(t, r), NEW a \in HandsOf(t), NEW b \in HandsOf(t), a # b,
           Stack(a) # <<>>, Stack(a)' = Front(Stack(a)), Stack(b)' = Append(Stack(b), Last(Stack(a))),
           UNCHANGED listVars, Steady(t, r, {a, b})
    PROVE  StepType /\ Kept /\ ListInv'
<1>1. a \in Holders /\ b \in Holders BY HoldersAre DEF HandsOf
<1>2. list' = list /\ activePackets' = activePackets BY DEF listVars
<1>3. StepType BY <1>2, TurnsIs DEF StepType, TypeOK
<1>4. ASSUME NEW h \in Holders, h \notin {a, b} PROVE Stack(h)' = Stack(h)
  BY <1>2, <1>4, OtherStacks DEF Steady
<1>5. Kept BY <1>1, <1>2, <1>3, <1>4, PacketMoves
<1>6. ListInv' BY <1>2 DEF ListInv
<1> QED BY <1>3, <1>5, <1>6

\* The hands of t, before and after.
LEMMA HandsAre ==
    ASSUME TypeOK, NEW t \in Threads, NEW r, Turns(t, r)
    PROVE  /\ Stack(<<"hand", t>>) = env[t].hand /\ Stack(<<"hand", t>>)' = r.hand
           /\ Stack(<<"input", t>>) = Just(env[t].input) /\ Stack(<<"input", t>>)' = Just(r.input)
           /\ Stack(<<"output", t>>) = Just(env[t].output) /\ Stack(<<"output", t>>)' = Just(r.output)
           /\ <<"hand", t>> \in HandsOf(t) /\ <<"input", t>> \in HandsOf(t) /\ <<"output", t>> \in HandsOf(t)
           /\ <<"hand", t>> # <<"input", t>> /\ <<"hand", t>> # <<"output", t>> /\ <<"input", t>> # <<"output", t>>
<1>1. env'[t] = r BY TurnsIs DEF TypeOK
<1> QED BY <1>1, StackIs DEF HandsOf

-----------------------------------------------------------------------------
(* The steps.  First those that leave packets, slots and marks alone. *)

LEMMA IInvOf ==
    ASSUME IInv, NEW t \in Threads
    PROVE  /\ TypeOK /\ Control /\ Data /\ ListInv /\ env[t] \in Locals /\ Shape(env[t])
           /\ inputListWaitCount \in 0..Cardinality(Threads) /\ inputListDoneIndex \in Nat
<1>1. TypeOK /\ Control /\ Data BY IInvIs
<1> QED BY <1>1, LocalsOf DEF Data, TypeOK

LEMMA ScanEndsStep ==
    ASSUME IInv, NEW t \in Threads, ScanEnds(t)
    PROVE  IInv'
<1>1. env[t] \in Locals /\ Shape(env[t]) BY IInvOf
<1> DEFINE r == Goto(env[t], IF env[t].from = "walk" THEN "walk" ELSE "pop")
<1>2. env[t].pc = "mark" /\ env[t].todo = <<>> /\ Becomes(t, r) BY DEF ScanEnds, At
<1>3. Mild(env[t], r) /\ SameWork(env[t], r) BY <1>1, <1>2, MildScanEnds
<1> HIDE DEF r
<1> QED BY <1>2, <1>3, MildStay DEF ScanEnds

LEMMA PutNotifyStep ==
    ASSUME IInv, NEW t \in Threads, PutNotify(t)
    PROVE  IInv'
<1>1. env[t] \in Locals /\ Shape(env[t]) BY IInvOf
<1> DEFINE r == IF inputListWaitCount > 0 THEN Goto(env[t], "notify") ELSE Returns(env[t])
<1>2. env[t].pc = "pushed" /\ Becomes(t, r) BY DEF PutNotify, At
<1>3. Mild(env[t], r) /\ SameWork(env[t], r) BY <1>1, <1>2, MildPutNotify
<1> HIDE DEF r
<1> QED BY <1>2, <1>3, MildStay DEF PutNotify

LEMMA TryEnterStep ==
    ASSUME IInv, NEW t \in Threads, TryEnter(t)
    PROVE  IInv'
<1>1. /\ TypeOK /\ Control /\ env[t] \in Locals /\ Shape(env[t])
      /\ inputListWaitCount \in 0..Cardinality(Threads) /\ inputListDoneIndex \in Nat
  BY IInvOf
<1>2. CASE owner = NoThread /\ Monitor!Enter(t) /\ Becomes(t, Goto(env[t], "notifying"))
  <2>1. Control' /\ Monitor!TypeOK' /\ \E r : Turns(t, r) /\ KeepsWork(env[t], r)
    BY <1>1, <1>2, TryEnterControl DEF TryEnter
  <2> QED BY <1>1, <2>1, PlainStep DEF TryEnter, countVars
<1>3. CASE owner # NoThread /\ Becomes(t, Returns(env[t])) /\ UNCHANGED monitorVars
  <2>1. env[t].pc = "notify" BY DEF TryEnter, At
  <2>2. Mild(env[t], Returns(env[t])) /\ SameWork(env[t], Returns(env[t])) BY <1>1, <2>1, MildNotify
  <2> QED BY <1>3, <2>2, MildStay DEF TryEnter
<1> QED BY <1>2, <1>3 DEF TryEnter

LEMMA NotifyingStep ==
    ASSUME IInv, NEW t \in Threads, Notifying(t)
    PROVE  IInv'
<1> DEFINE r == Goto(env[t], "notified")
<1>1. /\ TypeOK /\ Control /\ env[t] \in Locals /\ Shape(env[t])
      /\ inputListWaitCount \in 0..Cardinality(Threads) /\ inputListDoneIndex \in Nat
  BY IInvOf
<1>2. env[t].pc = "notifying" /\ Becomes(t, r) BY DEF Notifying, At
<1>3. Mild(env[t], r) /\ SameWork(env[t], r) BY <1>1, <1>2, MildNotifying
<1>4. Turns(t, r) BY <1>2, <1>3 DEF Turns, Becomes, Mild
<1> HIDE DEF r
<1>5. UNCHANGED <<countVars, owner, count, saved>> BY DEF Notifying, Monitor!Notify, monitorVars
<1>6. /\ waitState' \in [Threads -> {"none", "waiting", "woken"}]
      /\ \A u \in Threads : waitState'[u] = "none" <=> waitState[u] = "none"
  <2>1. waitState \in [Threads -> {"none", "waiting", "woken"}] BY <1>1 DEF TypeOK, Monitor!TypeOK
  <2>2. CASE waitState' = waitState BY <2>1, <2>2
  <2>3. CASE \E u \in Monitor!Waiters : waitState' = [waitState EXCEPT ![u] = "woken"]
    BY <2>1, <2>3 DEF Monitor!Waiters
  <2> QED BY <2>2, <2>3 DEF Notifying, Monitor!Notify, monitorVars
<1>7. scanned' = scanned /\ overflow' = overflow /\ walk' = walk /\ list' = list
  BY DEF Notifying, listVars, markVars
<1>8. Control' /\ Monitor!TypeOK' BY <1>1, <1>3, <1>4, <1>5, <1>6, <1>7, MildFrame
<1>9. KeepsWork(env[t], r) BY <1>3 DEF KeepsWork, SameWork
<1> QED BY <1>1, <1>4, <1>5, <1>8, <1>9, PlainStep DEF Notifying, countVars

LEMMA NotifiedStep ==
    ASSUME IInv, NEW t \in Threads, Notified(t)
    PROVE  IInv'
<1>1. TypeOK /\ Control /\ inputListWaitCount \in 0..Cardinality(Threads) /\ inputListDoneIndex \in Nat
  BY IInvOf
<1>2. Control' /\ Monitor!TypeOK' /\ \E r : Turns(t, r) /\ KeepsWork(env[t], r) BY <1>1, NotifiedControl
<1> QED BY <1>1, <1>2, PlainStep DEF Notified, countVars

LEMMA InputPacketAvailableStep ==
    ASSUME IInv, NEW t \in Threads, InputPacketAvailable(t)
    PROVE  IInv'
<1> DEFINE e == env[t]
<1>1. /\ TypeOK /\ Control /\ e \in Locals /\ Shape(e)
      /\ inputListWaitCount \in 0..Cardinality(Threads) /\ inputListDoneIndex \in Nat
  BY IInvOf
<1>2. At(t, "check") /\ e.pc = "check" BY DEF InputPacketAvailable, At
<1>3. UNCHANGED <<listVars, countVars, monitorVars, markVars>> BY DEF InputPacketAvailable
<1>4. CASE Becomes(t, Available(e))
  <2>1. Mild(e, Available(e)) /\ SameWork(e, Available(e)) BY <1>1, <1>2, MildAvailable
  <2> QED BY <1>3, <1>4, <2>1, MildStay
<1>5. CASE list[Head(e.look)] = <<>> /\ Becomes(t, Misses(e, Unavailable(e)))
  <2>1. CASE e.call = "last"
    <3>1. Control' /\ Monitor!TypeOK' /\ \E r : Turns(t, r) /\ KeepsWork(env[t], r)
      BY <1>1, <1>2, <1>3, <1>5, <2>1, LastMissesControl
    <3> QED BY <1>1, <1>3, <3>1, PlainStep DEF countVars
  <2>2. CASE e.call # "last" /\ Len(e.look) > 1 /\ Misses(e, Unavailable(e)) = [e EXCEPT !.look = Tail(@)]
    <3> DEFINE r == [e EXCEPT !.look = Tail(@)]
    <3>1. Mild(e, r) /\ SameWork(e, r) BY <1>1, <1>2, <2>2, MildTail DEF IsLast
    <3>2. Becomes(t, r) BY <1>5, <2>2
    <3> HIDE DEF r
    <3> QED BY <1>3, <3>1, <3>2, MildStay
  <2>3. CASE e.call # "last" /\ Misses(e, Unavailable(e)) = Unavailable(e)
    <3>1. Mild(e, Unavailable(e)) /\ SameWork(e, Unavailable(e)) BY <1>1, <1>2, <2>3, MildUnavailable
    <3> QED BY <1>3, <1>5, <2>3, <3>1, MildStay
  <2> QED BY <1>1, <1>2, <2>1, <2>2, <2>3, MissesIs
<1> QED BY <1>4, <1>5 DEF InputPacketAvailable

LEMMA ChooseStep ==
    ASSUME IInv, NEW t \in Threads, Choose(t)
    PROVE  IInv'
<1> DEFINE look == IF list["nonEmpty"] # <<>> /\ Len(list["empty"]) < activePackets \div 4
                   THEN Reverse(InputLists) ELSE InputLists
           r == [env[t] EXCEPT !.pc = "take", !.look = look]
<1>1. env[t] \in Locals /\ Shape(env[t]) BY IInvOf
<1>2. env[t].pc = "choose" /\ Becomes(t, r) BY DEF Choose, At
<1>3. look \in {InputLists, Reverse(InputLists)} OBVIOUS
<1> HIDE DEF look
<1>4. Mild(env[t], r) /\ SameWork(env[t], r) BY <1>1, <1>2, <1>3, MildChoose
<1> HIDE DEF r
<1> QED BY <1>2, <1>4, MildStay DEF Choose

LEMMA TookStep ==
    ASSUME IInv, NEW t \in Threads, Took(t)
    PROVE  IInv'
<1> DEFINE r == IF inputListWaitCount > 0 THEN Checks(env[t], "more") ELSE Calls(env[t], "pop", "none")
<1>1. env[t] \in Locals /\ Shape(env[t]) BY IInvOf
<1>2. env[t].pc = "took" /\ Becomes(t, r) BY DEF Took, At
<1>3. Mild(env[t], r) /\ SameWork(env[t], r) BY <1>1, <1>2, MildTook
<1> HIDE DEF r
<1> QED BY <1>2, <1>3, MildStay DEF Took

LEMMA EnterStep ==
    ASSUME IInv, NEW t \in Threads, Enter(t)
    PROVE  IInv'
<1>1. TypeOK /\ Control /\ inputListWaitCount \in 0..Cardinality(Threads) /\ inputListDoneIndex \in Nat
  BY IInvOf
<1>2. Control' /\ Monitor!TypeOK' /\ \E r : Turns(t, r) /\ KeepsWork(env[t], r) BY <1>1, EnterControl
<1> QED BY <1>1, <1>2, PlainStep DEF Enter, countVars

LEMMA EnteredStep ==
    ASSUME IInv, NEW t \in Threads, Entered(t)
    PROVE  IInv'
<1>1. TypeOK /\ Control /\ inputListDoneIndex \in Nat BY IInvOf
<1>2. /\ Control' /\ Monitor!TypeOK' /\ inputListWaitCount' \in 0..Cardinality(Threads)
      /\ \E r : Turns(t, r) /\ KeepsWork(env[t], r)
  BY <1>1, EnteredControl
<1> QED BY <1>1, <1>2, PlainStep DEF Entered

LEMMA WaitStep ==
    ASSUME IInv, NEW t \in Threads, Wait(t)
    PROVE  IInv'
<1>1. /\ TypeOK /\ Control /\ env[t] \in Locals /\ Shape(env[t])
      /\ inputListWaitCount \in 0..Cardinality(Threads) /\ inputListDoneIndex \in Nat
  BY IInvOf
<1>2. CASE Monitor!Wait(t) /\ Becomes(t, Goto(env[t], "waiting"))
  <2>1. Control' /\ Monitor!TypeOK' /\ \E r : Turns(t, r) /\ KeepsWork(env[t], r)
    BY <1>1, <1>2, WaitControl DEF Wait
  <2> QED BY <1>1, <2>1, PlainStep DEF Wait, countVars
<1>3. CASE Becomes(t, Goto(env[t], "leave")) /\ UNCHANGED monitorVars
  <2>1. env[t].pc = "wait" BY DEF Wait, At
  <2>2. Mild(env[t], Goto(env[t], "leave")) /\ SameWork(env[t], Goto(env[t], "leave"))
    BY <1>1, <2>1, MildWaitEnds
  <2> QED BY <1>3, <2>2, MildStay DEF Wait
<1> QED BY <1>2, <1>3 DEF Wait

LEMMA ReacquireStep ==
    ASSUME IInv, NEW t \in Threads, Reacquire(t)
    PROVE  IInv'
<1>1. TypeOK /\ Control /\ inputListWaitCount \in 0..Cardinality(Threads) /\ inputListDoneIndex \in Nat
  BY IInvOf
<1>2. Control' /\ Monitor!TypeOK' /\ \E r : Turns(t, r) /\ KeepsWork(env[t], r) BY <1>1, ReacquireControl
<1> QED BY <1>1, <1>2, PlainStep DEF Reacquire, countVars

LEMMA LeaveStep ==
    ASSUME IInv, NEW t \in Threads, Leave(t)
    PROVE  IInv'
<1>1. TypeOK /\ Control /\ inputListDoneIndex \in Nat BY IInvOf
<1>2. /\ Control' /\ Monitor!TypeOK' /\ inputListWaitCount' \in 0..Cardinality(Threads)
      /\ \E r : Turns(t, r) /\ KeepsWork(env[t], r)
  BY <1>1, LeaveControl
<1> QED BY <1>1, <1>2, PlainStep DEF Leave

-----------------------------------------------------------------------------
(* Then those in which packets change hands. *)

\* The output packet is put in hand.
LEMMA OutputToHand ==
    ASSUME TypeOK, ListInv, NEW t \in Threads, NEW r, Turns(t, r), env[t].output \in Packets, r.output = NoPacket,
           r.hand = Append(env[t].hand, env[t].output), r.input = env[t].input, UNCHANGED listVars
    PROVE  StepType /\ Kept /\ ListInv'
<1> DEFINE a == <<"output", t>>  b == <<"hand", t>>
<1>1. /\ Stack(a) = Just(env[t].output) /\ Stack(a)' = Just(r.output) /\ Stack(b) = env[t].hand /\ Stack(b)' = r.hand
      /\ a \in HandsOf(t) /\ b \in HandsOf(t) /\ a # b
  BY HandsAre
<1>2. Steady(t, r, {a, b}) BY DEF Steady
<1> HIDE DEF a, b
<1>3. Stack(a) # <<>> /\ Stack(a)' = Front(Stack(a)) /\ Stack(b)' = Append(Stack(b), Last(Stack(a)))
  BY <1>1, JustIs
<1> QED BY <1>1, <1>2, <1>3, OwnMoves

\* The last packet in hand becomes the output packet.
LEMMA HandToOutput ==
    ASSUME TypeOK, ListInv, NEW t \in Threads, NEW r, Turns(t, r), env[t].hand # <<>>, env[t].output = NoPacket,
           r.hand = Front(env[t].hand), r.output = Last(env[t].hand), r.input = env[t].input, UNCHANGED listVars
    PROVE  StepType /\ Kept /\ ListInv'
<1> DEFINE a == <<"hand", t>>  b == <<"output", t>>
<1>1. /\ Stack(a) = env[t].hand /\ Stack(a)' = r.hand /\ Stack(b) = Just(env[t].output) /\ Stack(b)' = Just(r.output)
      /\ a \in HandsOf(t) /\ b \in HandsOf(t) /\ a # b
  BY HandsAre
<1>2. Steady(t, r, {a, b}) BY DEF Steady
<1> HIDE DEF a, b
<1>3. env[t] \in Locals BY DEF TypeOK
<1>4. env[t].hand \in Seq(Packets) BY <1>3, LocalsFields
<1>5. Last(env[t].hand) \in Packets BY <1>4, FrontIs
<1>6. Stack(a) # <<>> /\ Stack(a)' = Front(Stack(a)) /\ Stack(b)' = Append(Stack(b), Last(Stack(a)))
  BY <1>1, <1>5, JustIs
<1> QED BY <1>1, <1>2, <1>6, OwnMoves

\* The output packet becomes the input packet.
LEMMA OutputToInput ==
    ASSUME TypeOK, ListInv, NEW t \in Threads, NEW r, Turns(t, r), env[t].output \in Packets, r.output = NoPacket,
           env[t].input = NoPacket, r.input = env[t].output, r.hand = env[t].hand, UNCHANGED listVars
    PROVE  StepType /\ Kept /\ ListInv'
<1> DEFINE a == <<"output", t>>  b == <<"input", t>>
<1>1. /\ Stack(a) = Just(env[t].output) /\ Stack(a)' = Just(r.output) /\ Stack(b) = Just(env[t].input)
      /\ Stack(b)' = Just(r.input) /\ a \in HandsOf(t) /\ b \in HandsOf(t) /\ a # b
  BY HandsAre
<1>2. Steady(t, r, {a, b}) BY DEF Steady
<1> HIDE DEF a, b
<1>3. Stack(a) # <<>> /\ Stack(a)' = Front(Stack(a)) /\ Stack(b)' = Append(Stack(b), Last(Stack(a)))
  BY <1>1, JustIs
<1> QED BY <1>1, <1>2, <1>3, OwnMoves

LEMMA FlushOutputPacketStep ==
    ASSUME IInv, NEW t \in Threads, FlushOutputPacket(t)
    PROVE  IInv'
<1> DEFINE e == env[t]  r == Puts([e EXCEPT !.output = NoPacket], e.output, "roots")
<1>1. TypeOK /\ ListInv /\ e \in Locals /\ Shape(e) BY IInvOf
<1>2. e.pc = "mark" /\ e.todo = <<>> /\ e.from = "roots" /\ e.output # NoPacket /\ Becomes(t, r)
  BY DEF FlushOutputPacket, At
<1>3. /\ r \in Locals /\ r.pc = "put" /\ r.call = "roots" /\ r.hand = Append(e.hand, e.output)
      /\ r.round = e.round /\ r.from = e.from /\ r.todo = e.todo /\ r.item = e.item /\ r.input = e.input
      /\ r.output = NoPacket /\ r.selected = e.selected /\ r.look = e.look /\ r.doneIndex = e.doneIndex
  BY <1>1, <1>2, FlushOutputIs
<1>4. Turns(t, r) BY <1>2, <1>3 DEF Turns, Becomes
<1> HIDE DEF r
<1>5. Mild(e, r) BY <1>1, <1>2, <1>3, MildFlushOutputPacket
<1>6. e.output \in Packets BY <1>1, <1>2, LocalsFields
<1>7. /\ UNCHANGED <<activePackets, countVars, monitorVars, markVars>> /\ UNCHANGED listVars
      /\ \A l \in WorkLists : list[l] = <<>> => list'[l] = <<>>
  BY DEF FlushOutputPacket, listVars
<1>8. StepType /\ Kept /\ ListInv' BY <1>1, <1>3, <1>4, <1>6, <1>7, OutputToHand
<1> QED BY <1>3, <1>4, <1>5, <1>7, <1>8, MildMove

LEMMA SwapStep ==
    ASSUME IInv, NEW t \in Threads, Swap(t)
    PROVE  IInv'
<1> DEFINE e == env[t]
<1>1. /\ TypeOK /\ Control /\ ListInv /\ e \in Locals /\ Shape(e)
      /\ inputListWaitCount \in 0..Cardinality(Threads) /\ inputListDoneIndex \in Nat
  BY IInvOf
<1>2. e.pc = "swap" /\ At(t, "swap") BY DEF Swap, At
<1>3. UNCHANGED <<listVars, countVars, monitorVars, markVars>> BY DEF Swap
<1>4. CASE HasWork(e.output)
  <2> DEFINE r == Calls(Swapped(e), "pop", "none")
  <2>1. Becomes(t, r) BY <1>4 DEF Swap
  <2>2. /\ Mild(e, r) /\ e.input = NoPacket /\ r.input = e.output /\ r.output = NoPacket
        /\ r.hand = e.hand /\ r.item = e.item /\ r.todo = e.todo
    BY <1>1, <1>2, <1>4, MildSwap
  <2> HIDE DEF r
  <2>3. Turns(t, r) BY <2>1, <2>2 DEF Turns, Becomes, Mild
  <2>4. e.output \in Packets BY <1>1, <1>4, LocalsFields DEF HasWork
  <2>5. StepType /\ Kept /\ ListInv' BY <1>1, <1>3, <2>2, <2>3, <2>4, OutputToInput
  <2>6. UNCHANGED activePackets /\ \A l \in WorkLists : list[l] = <<>> => list'[l] = <<>> BY <1>3 DEF listVars
  <2> QED BY <1>3, <2>2, <2>3, <2>5, <2>6, MildMove
<1>5. CASE ~HasWork(e.output)
  <2>1. Becomes(t, Checks([e EXCEPT !.doneIndex = inputListDoneIndex], "get")) BY <1>5 DEF Swap
  <2>2. Control' /\ Monitor!TypeOK' /\ \E r : Turns(t, r) /\ KeepsWork(env[t], r)
    BY <1>1, <1>2, <1>3, <1>5, <2>1, GetControl
  <2> QED BY <1>1, <1>3, <2>2, PlainStep DEF countVars
<1> QED BY <1>4, <1>5

LEMMA TakeStep ==
    ASSUME IInv, NEW t \in Threads, Take(t)
    PROVE  IInv'
<1> DEFINE e == env[t]  l == Head(e.look)
<1>1. TypeOK /\ ListInv /\ e \in Locals /\ Shape(e) BY IInvOf
<1>2. e.pc = "take" BY DEF Take, At
<1>3. UNCHANGED <<activePackets, countVars, monitorVars, markVars>> BY DEF Take
<1>4. l \in Lists /\ l \in WorkLists BY <1>1, <1>2, LookHead DEF WorkLists, Lists
<1>5. CASE list[l] # <<>> /\ list' = Popped(l) /\ Becomes(t, [e EXCEPT !.pc = "took", !.input = HeadOf(l)])
  <2> DEFINE r == Taken(e, HeadOf(l))  b == <<"input", t>>
  <2>1. HeadOf(l) \in Packets /\ Len(HeadOf(l)) <= Slots /\ \A m \in Lists : list[m] = <<>> => list'[m] = <<>>
    BY <1>1, <1>4, <1>5, PoppedIs
  <2>2. /\ Mild(e, r) /\ r.input = HeadOf(l) /\ e.input = NoPacket /\ r.output = e.output /\ r.hand = e.hand
        /\ r.item = e.item /\ r.todo = e.todo
    BY <1>1, <1>2, <2>1, MildTake
  <2>3. Turns(t, r) BY <1>5, <2>2 DEF Turns, Becomes, Mild, Taken
  <2> HIDE DEF r, l
  <2>4. Steady(t, r, {b}) BY <2>2 DEF Steady
  <2>5. b \in HandsOf(t) /\ Stack(b) = Just(e.input) /\ Stack(b)' = Just(r.input) BY <1>1, <2>3, HandsAre
  <2> HIDE DEF b
  <2>6. Stack(b)' = Append(Stack(b), HeadOf(l)) BY <2>1, <2>2, <2>5, JustIs
  <2>7. StepType /\ Kept /\ ListInv' BY <1>1, <1>3, <1>4, <1>5, <2>3, <2>4, <2>5, <2>6, PopMoves
  <2>8. \A m \in WorkLists : list[m] = <<>> => list'[m] = <<>> BY <2>1 DEF WorkLists, Lists
  <2> QED BY <1>3, <2>2, <2>3, <2>7, <2>8, MildMove
<1>6. CASE Becomes(t, Misses(e, Unavailable(e))) /\ UNCHANGED list
  <2>1. UNCHANGED <<listVars, countVars, monitorVars, markVars>> BY <1>3, <1>6 DEF listVars
  <2>2. CASE Len(e.look) > 1 /\ Misses(e, Unavailable(e)) = [e EXCEPT !.look = Tail(@)]
    <3> DEFINE r == [e EXCEPT !.look = Tail(@)]
    <3>1. Mild(e, r) /\ SameWork(e, r) BY <1>1, <1>2, <2>2, MildTail DEF IsLast
    <3>2. Becomes(t, r) BY <1>6, <2>2
    <3> HIDE DEF r
    <3> QED BY <2>1, <3>1, <3>2, MildStay
  <2>3. CASE Misses(e, Unavailable(e)) = Unavailable(e)
    <3>1. e.call # "last" BY <1>1, <1>2 DEF Shape, CallOK
    <3>2. Mild(e, Unavailable(e)) /\ SameWork(e, Unavailable(e)) BY <1>1, <1>2, <3>1, MildUnavailable
    <3> QED BY <1>6, <2>1, <2>3, <3>2, MildStay
  <2> QED BY <1>1, <1>2, <2>2, <2>3, MissesIs
<1> QED BY <1>5, <1>6 DEF Take

LEMMA SearchStep ==
    ASSUME IInv, NEW t \in Threads, Search(t)
    PROVE  IInv'
<1> DEFINE e == env[t]  l == Head(e.look)
<1>1. TypeOK /\ ListInv /\ e \in Locals /\ Shape(e) BY IInvOf
<1>2. e.pc = "search" BY DEF Search, At
<1>3. UNCHANGED <<activePackets, countVars, monitorVars, markVars>> BY DEF Search
<1>4. l \in Lists /\ l \in WorkLists BY <1>1, <1>2, LookHead DEF WorkLists, Lists
<1>5. CASE list[l] # <<>> /\ list' = Popped(l) /\ Becomes(t, LookAt(e, HeadOf(l)))
  <2> DEFINE r == LookAt(e, HeadOf(l))  b == <<"hand", t>>
  <2>1. HeadOf(l) \in Packets /\ Len(HeadOf(l)) <= Slots /\ \A m \in Lists : list[m] = <<>> => list'[m] = <<>>
    BY <1>1, <1>4, <1>5, PoppedIs
  <2>2. /\ Mild(e, r) /\ r.hand = Append(e.hand, HeadOf(l)) /\ r.output = e.output /\ r.input = e.input
        /\ r.item = e.item /\ r.todo = e.todo
    BY <1>1, <1>2, <2>1, MildLookAt
  <2>3. Turns(t, r) BY <1>5, <2>2 DEF Turns, Becomes, Mild
  <2> HIDE DEF r, l
  <2>4. Steady(t, r, {b}) BY <2>2 DEF Steady
  <2>5. b \in HandsOf(t) /\ Stack(b) = e.hand /\ Stack(b)' = r.hand BY <1>1, <2>3, HandsAre
  <2> HIDE DEF b
  <2>6. Stack(b)' = Append(Stack(b), HeadOf(l)) BY <2>2, <2>5
  <2>7. StepType /\ Kept /\ ListInv' BY <1>1, <1>3, <1>4, <1>5, <2>3, <2>4, <2>5, <2>6, PopMoves
  <2>8. \A m \in WorkLists : list[m] = <<>> => list'[m] = <<>> BY <2>1 DEF WorkLists, Lists
  <2> QED BY <1>3, <2>2, <2>3, <2>7, <2>8, MildMove
<1>6. CASE Becomes(t, Misses(e, GiveUp(e))) /\ UNCHANGED list
  <2>1. UNCHANGED <<listVars, countVars, monitorVars, markVars>> BY <1>3, <1>6 DEF listVars
  <2>2. CASE Len(e.look) > 1 /\ Misses(e, GiveUp(e)) = [e EXCEPT !.look = Tail(@)]
    <3> DEFINE r == [e EXCEPT !.look = Tail(@)]
    <3>1. Mild(e, r) /\ SameWork(e, r) BY <1>1, <1>2, <2>2, MildTail DEF IsLast
    <3>2. Becomes(t, r) BY <1>6, <2>2
    <3> HIDE DEF r
    <3> QED BY <2>1, <3>1, <3>2, MildStay
  <2>3. CASE Misses(e, GiveUp(e)) = GiveUp(e)
    <3>1. Mild(e, GiveUp(e)) /\ SameWork(e, GiveUp(e)) BY <1>1, <1>2, MildGiveUp
    <3> QED BY <1>6, <2>1, <2>3, <3>1, MildStay
  <2> QED BY <1>1, <1>2, <2>2, <2>3, MissesIs
<1> QED BY <1>5, <1>6 DEF Search

LEMMA PutBackStep ==
    ASSUME IInv, NEW t \in Threads, PutBack(t)
    PROVE  IInv'
<1> DEFINE e == env[t]
<1>1. TypeOK /\ ListInv /\ e \in Locals /\ Shape(e) BY IInvOf
<1>2. e.pc = "putBack" BY DEF PutBack, At
<1>3. UNCHANGED <<listVars, countVars, monitorVars, markVars>> BY DEF PutBack
<1>4. CASE e.hand # <<>> /\ Len(e.hand) = e.selected
  <2> DEFINE r == [e EXCEPT !.output = Last(e.hand), !.hand = Front(@), !.selected = 0]
  <2>1. Becomes(t, r) BY <1>4 DEF PutBack
  <2>2. /\ Mild(e, r) /\ e.output = NoPacket /\ r.output = Last(e.hand) /\ r.hand = Front(e.hand)
        /\ r.input = e.input /\ r.item = e.item /\ r.todo = e.todo
    BY <1>1, <1>2, <1>4, MildSelected
  <2> HIDE DEF r
  <2>3. Turns(t, r) BY <2>1, <2>2 DEF Turns, Becomes, Mild
  <2>4. StepType /\ Kept /\ ListInv' BY <1>1, <1>3, <1>4, <2>2, <2>3, HandToOutput
  <2>5. UNCHANGED activePackets /\ \A l \in WorkLists : list[l] = <<>> => list'[l] = <<>> BY <1>3 DEF listVars
  <2> QED BY <1>3, <2>2, <2>3, <2>4, <2>5, MildMove
<1>5. CASE ~(e.hand # <<>> /\ Len(e.hand) = e.selected)
  <2>1. e.call \in OutputCalls BY <1>1, <1>2 DEF Shape, CallOK
  <2>2. PICK r : /\ Becomes(t, r)
                 /\ \/ e.hand # <<>> /\ Len(e.hand) # e.selected /\ r = Goto(e, "put")
                    \/ e.hand = <<>> /\ r = Calls(e, "pushItem", "none")
                    \/ e.hand = <<>> /\ e.output = NoPacket /\ e.call = "first" /\ r = Goto(e, "allocate")
                    \/ e.hand = <<>> /\ e.output = NoPacket /\ e.call = "second" /\ r = Goto(e, "takeFull")
    BY <1>5, <2>1 DEF PutBack, OutputCalls
  <2>3. Mild(e, r) /\ SameWork(e, r) BY <1>1, <1>2, <2>2, MildPutBack
  <2> QED BY <1>3, <2>2, <2>3, MildStay
<1> QED BY <1>4, <1>5

LEMMA FlushStep ==
    ASSUME IInv, NEW t \in Threads, Flush(t)
    PROVE  IInv'
<1> DEFINE e == env[t]  packets == Own(e) \o e.hand
           r == IF packets = <<>> THEN Goto(e, "done") ELSE Flushing(e, packets)
<1>1. TypeOK /\ ListInv /\ e \in Locals /\ Shape(e) BY IInvOf
<1>2. e.pc = "flush" /\ Becomes(t, r) BY DEF Flush, Flushing, At
<1>3. UNCHANGED <<listVars, countVars, monitorVars, markVars>> BY DEF Flush
<1>4. /\ Mild(e, r) /\ r.input = NoPacket /\ r.output = NoPacket /\ r.item = e.item /\ r.todo = e.todo
      /\ packets = <<>> => r.hand = <<>>
      /\ packets # <<>> => r.hand = packets
  <2> HIDE DEF packets
  <2>1. packets = Left(e) BY DEF packets, Left
  <2>2. \/ packets = <<>> /\ r = Goto(e, "done")
        \/ packets # <<>> /\ r = Flushing(e, packets)
    OBVIOUS
  <2> HIDE DEF r
  <2> QED BY <1>1, <1>2, <2>1, <2>2, MildFlush
<1>5. /\ e.input = NoPacket /\ packets = IF e.output = NoPacket THEN e.hand ELSE <<e.output>>
      /\ e.output # NoPacket => e.hand = <<>> /\ e.output = <<>>
  BY <1>1, <1>2, FlushIs
<1> HIDE DEF r, packets
<1>6. Turns(t, r) BY <1>2, <1>4 DEF Turns, Becomes, Mild
<1>7. UNCHANGED activePackets /\ \A l \in WorkLists : list[l] = <<>> => list'[l] = <<>> BY <1>3 DEF listVars
<1>8. StepType /\ Kept /\ ListInv'
  <2>1. CASE e.output = NoPacket
    <3>1. r.hand = e.hand BY <1>4, <1>5, <2>1
    <3>2. StepType /\ Kept BY <1>1, <1>3, <1>4, <1>5, <1>6, <2>1, <3>1, StacksStay
    <3>3. ListInv' BY <1>1, <1>3 DEF ListInv, listVars
    <3> QED BY <3>2, <3>3
  <2>2. CASE e.output # NoPacket
    <3>1. e.output \in Packets BY <1>1, <2>2, LocalsFields
    <3>2. <<e.output>> # <<>> /\ Append(<<>>, e.output) = <<e.output>> BY <3>1, JustIs
    <3>3. r.hand = Append(e.hand, e.output) BY <1>4, <1>5, <2>2, <3>2
    <3> QED BY <1>1, <1>3, <1>4, <1>5, <1>6, <3>1, <3>3, OutputToHand
  <2> QED BY <2>1, <2>2
<1> QED BY <1>3, <1>4, <1>6, <1>7, <1>8, MildMove

\* A mild step that may change marks, slots or packets.
LEMMA MildStep ==
    ASSUME IInv, NEW t \in Threads, NEW r, Turns(t, r), Mild(env[t], r), StepType,
           ListInv', OverflowInv', WorkInv', CountInv', ScanInv',
           activePackets' \in Nat, marked' \in SUBSET Objects, overflow' \in BOOLEAN, walk' \in 0..(HeapTop + 1),
           UNCHANGED <<countVars, monitorVars>>,
           scanned \subseteq scanned', overflow => overflow', walk' = 0 <=> walk = 0,
           \/ \A l \in WorkLists : list[l] = <<>> => list'[l] = <<>>
           \/ env[t].pc \in Putting /\ env[t].call # "flush"
    PROVE  IInv'
<1>1. TypeOK /\ Control BY IInvIs
<1>2. UNCHANGED <<countVars, owner, count, saved>> /\ waitState' = waitState BY DEF monitorVars
<1>3. waitState' \in [Threads -> {"none", "waiting", "woken"}] BY <1>1, <1>2 DEF TypeOK, Monitor!TypeOK
<1>4. Control' /\ Monitor!TypeOK' BY <1>1, <1>2, <1>3, MildFrame
<1>5. inputListWaitCount' \in 0..Cardinality(Threads) /\ inputListDoneIndex' \in Nat
  BY <1>1 DEF countVars, TypeOK
<1>6. overflowed' \in SUBSET marked' /\ scanned' \in SUBSET marked' BY DEF WorkInv
<1>7. TypeOK' BY <1>4, <1>5, <1>6, TypeNext
<1> QED BY <1>4, <1>7 DEF IInv, Control

\* What is left in hand when the last packet is put.
LessOne(e) == [e EXCEPT !.hand = Front(@)]

LEMMA MildPutAway ==
    ASSUME NEW e \in Locals, Shape(e), e.pc \in Putting, NEW r,
           r = Returns(LessOne(e)) \/ r = Goto(LessOne(e), "pushed")
    PROVE  /\ Mild(e, r) /\ r.hand = Front(e.hand) /\ r.input = e.input /\ r.output = e.output
           /\ r.item = e.item /\ r.todo = e.todo
<1> DEFINE f == LessOne(e)
<1>1. e.hand # <<>> BY DEF Shape, HandOK
<1>2. /\ f \in Locals /\ f.pc = e.pc /\ f.call = e.call /\ f.round = e.round /\ f.from = e.from
      /\ f.todo = e.todo /\ f.item = e.item /\ f.input = e.input /\ f.output = e.output
      /\ f.hand = Front(e.hand) /\ f.selected = e.selected /\ f.look = e.look /\ f.doneIndex = e.doneIndex
  BY <1>1, FrontHandIs DEF LessOne
<1>3. e.call \in {"roots", "pushFailed", "flush"} \cup OutputCalls BY DEF Shape, CallOK
<1> HIDE DEF f
<1>4. f.call \in ReturnCalls BY <1>2, <1>3 DEF ReturnCalls
<1>5. CASE r = Returns(f)
  <2>1. r \in Locals /\ SameWork(f, r) /\ ReturnPlace(f.call, r) BY <1>2, <1>4, <1>5, ReturnsIs
  <2>2. PutAway(e, r) BY <1>2, <2>1 DEF PutAway, SameWork
  <2>3. ReturnPlace(e.call, r) BY <1>2, <2>1
  <2> QED BY <2>2, <2>3, MildPut DEF PutAway
<1>6. CASE r = Goto(f, "pushed")
  <2>1. "pushed" \in Pcs BY DEF Pcs
  <2>2. r \in Locals /\ SameWork(f, r) /\ r.pc = "pushed" /\ r.call = f.call BY <1>2, <1>6, <2>1, GotoIs
  <2>3. PutAway(e, r) BY <1>2, <2>2 DEF PutAway, SameWork
  <2> QED BY <1>2, <2>2, <2>3, MildPut DEF PutAway
<1> QED BY <1>5, <1>6 DEF f

\* The last packet in hand is pushed on list l.
LEMMA PutMoves ==
    ASSUME IInv, NEW t \in Threads, env[t].pc \in Putting, NEW l \in Lists, NEW p, p = Last(env[t].hand),
           p = <<>> <=> l = "empty", list' = Pushed(l, p), NEW r, Becomes(t, r),
           r = Returns(LessOne(env[t])) \/ r = Goto(LessOne(env[t]), "pushed"),
           UNCHANGED <<activePackets, countVars, monitorVars, markVars>>
    PROVE  IInv'
<1> DEFINE e == env[t]  a == <<"hand", t>>
<1>1. TypeOK /\ ListInv /\ e \in Locals /\ Shape(e) BY IInvOf
<1>2. /\ Mild(e, r) /\ r.hand = Front(e.hand) /\ r.input = e.input /\ r.output = e.output
      /\ r.item = e.item /\ r.todo = e.todo
  BY <1>1, MildPutAway
<1>3. Turns(t, r) BY <1>2 DEF Turns, Becomes, Mild
<1>4. Stack(a) = e.hand /\ Stack(a)' = r.hand /\ a \in HandsOf(t) BY <1>1, <1>3, HandsAre
<1>5. Steady(t, r, {a}) BY <1>2 DEF Steady
<1> HIDE DEF a
<1>6. e.hand # <<>> /\ e.hand \in Seq(Packets) BY <1>1, LocalsFields DEF Shape, HandOK
<1>7. p \in Packets /\ p = e.hand[Len(e.hand)] /\ Len(e.hand) \in 1..Len(e.hand)
  <2>1. Last(e.hand) \in Packets /\ Last(e.hand) = e.hand[Len(e.hand)] /\ Len(e.hand) \in Nat \ {0}
    BY <1>6, FrontIs
  <2> QED BY <2>1
<1>8. Len(p) <= Slots BY <1>1, <1>7 DEF Shape, HandOK
<1>9. Last(Stack(a)) = p /\ Stack(a) # <<>> /\ Stack(a)' = Front(Stack(a)) BY <1>2, <1>4, <1>6
<1>10. StepType /\ Kept /\ ListInv' /\ \A m \in Lists : m # l => list'[m] = list[m]
  BY <1>1, <1>3, <1>4, <1>5, <1>8, <1>9, PushMoves
<1>11. \/ \A m \in WorkLists : list[m] = <<>> => list'[m] = <<>>
       \/ e.pc \in Putting /\ e.call # "flush"
  <2>1. CASE l = "empty" BY <1>10, <2>1 DEF WorkLists, Lists
  <2>2. CASE l # "empty" BY <1>1, <1>7, <2>2 DEF Shape, HandOK, Finished
  <2> QED BY <2>1, <2>2
<1> QED BY <1>2, <1>3, <1>10, <1>11, MildMove

LEMMA ListForIs ==
    ASSUME NEW p \in Packets, Len(p) <= Slots, p # <<>>
    PROVE  ListFor(p) \in WorkLists /\ ListFor(p) \in Lists /\ ListFor(p) # "empty"
<1>1. Len(p) \in Nat /\ Len(p) # 0 BY DEF Packets
<1>2. freeSlots(p) # Slots BY <1>1, PacketsAssumption DEF freeSlots
<1>3. ListFor(p) \in {"full", "relativelyFull", "nonEmpty"} BY <1>2 DEF ListFor
<1> QED BY <1>3 DEF WorkLists, Lists

LEMMA PutPacketStep ==
    ASSUME IInv, NEW t \in Threads, PutPacket(t)
    PROVE  IInv'
<1> DEFINE e == env[t]  p == Last(e.hand)
<1>1. e \in Locals /\ Shape(e) BY IInvOf
<1>2. e.pc = "put" BY DEF PutPacket, At
<1>3. UNCHANGED <<activePackets, countVars, monitorVars, markVars>> BY DEF PutPacket
<1>4. CASE p = <<>>
  <2> DEFINE r == Returns(LessOne(e))
  <2>1. list' = Pushed("empty", p) /\ Becomes(t, r) BY <1>4 DEF PutPacket, LessOne
  <2>2. "empty" \in Lists BY DEF Lists
  <2> HIDE DEF r
  <2>3. r = Returns(LessOne(e)) BY DEF r
  <2>4. e.pc \in Putting BY <1>2 DEF Putting
  <2> QED BY <1>3, <1>4, <2>1, <2>2, <2>3, <2>4, PutMoves
<1>5. CASE p # <<>>
  <2>1. PICK place \in {"push", "pushNotify"} : Becomes(t, Goto(e, place)) BY <1>5 DEF PutPacket
  <2>2. e.hand # <<>> /\ e.hand \in Seq(Packets) BY <1>1, <1>2, LocalsFields DEF Shape, HandOK, Putting
  <2>3. e.hand[Len(e.hand)] # <<>> BY <1>5, <2>2, FrontIs
  <2>4. Mild(e, Goto(e, place)) /\ SameWork(e, Goto(e, place)) BY <1>1, <1>2, <2>3, MildPutPacket
  <2>5. UNCHANGED <<listVars, countVars, monitorVars, markVars>> BY <1>3, <1>5 DEF PutPacket, listVars
  <2> QED BY <2>1, <2>4, <2>5, MildStay
<1> QED BY <1>4, <1>5

LEMMA PutPushStep ==
    ASSUME IInv, NEW t \in Threads, PutPush(t)
    PROVE  IInv'
<1> DEFINE e == env[t]  p == Last(e.hand)
           r == IF At(t, "push") THEN Returns(LessOne(e)) ELSE Goto(LessOne(e), "pushed")
<1>1. e \in Locals /\ Shape(e) BY IInvOf
<1>2. e.pc \in {"push", "pushNotify"} /\ list' = Pushed(ListFor(p), p) /\ Becomes(t, r) BY DEF PutPush, LessOne
<1>3. UNCHANGED <<activePackets, countVars, monitorVars, markVars>> BY DEF PutPush
<1>4. e.pc \in Putting BY <1>2 DEF Putting
<1>5. r = Returns(LessOne(e)) \/ r = Goto(LessOne(e), "pushed") OBVIOUS
<1> HIDE DEF r
<1>6. e.hand # <<>> /\ e.hand \in Seq(Packets) BY <1>1, <1>4, LocalsFields DEF Shape, HandOK
<1>7. p \in Packets /\ p = e.hand[Len(e.hand)] /\ Len(e.hand) \in 1..Len(e.hand) BY <1>6, FrontIs
<1>8. Len(p) <= Slots /\ p # <<>> BY <1>1, <1>2, <1>7 DEF Shape, HandOK
<1>9. ListFor(p) \in Lists /\ ListFor(p) # "empty" BY <1>7, <1>8, ListForIs
<1> DEFINE l == ListFor(p)
<1>10. l \in Lists /\ (p = <<>> <=> l = "empty") /\ list' = Pushed(l, p) BY <1>2, <1>8, <1>9
<1> HIDE DEF l
<1> QED BY <1>2, <1>3, <1>4, <1>5, <1>10, PutMoves

\* An empty packet is taken, or getLeastFullPacket is called.
LEMMA TakeEmptyOrStep ==
    ASSUME IInv, NEW t \in Threads, env[t].pc \in {"takeEmpty", "allocate"}, NEW call \in OutputCalls,
           TakeEmptyOr(t, call), UNCHANGED <<activePackets, countVars, monitorVars, markVars>>
    PROVE  IInv'
<1> DEFINE e == env[t]
<1>1. TypeOK /\ ListInv /\ e \in Locals /\ Shape(e) BY IInvOf
<1>2. CASE list["empty"] # <<>> /\ list' = Popped("empty")
           /\ Becomes(t, Calls([e EXCEPT !.output = HeadOf("empty")], "pushItem", "none"))
  <2> DEFINE r == Calls([e EXCEPT !.output = <<>>], "pushItem", "none")  b == <<"output", t>>
  <2>1. "empty" \in Lists BY DEF Lists
  <2>2. HeadOf("empty") = <<>> /\ \A m \in Lists : list[m] = <<>> => list'[m] = <<>>
    BY <1>1, <1>2, <2>1, PoppedIs
  <2>3. Becomes(t, r) BY <1>2, <2>2
  <2>4. /\ r \in Locals /\ r.pc = "pushItem" /\ r.call = "none" /\ r.round = e.round /\ r.from = e.from
        /\ r.todo = e.todo /\ r.item = e.item /\ r.input = e.input /\ r.output = <<>> /\ r.hand = e.hand
        /\ r.selected = e.selected /\ r.doneIndex = e.doneIndex
    BY <1>1, TakeEmptyIs
  <2> HIDE DEF r
  <2>5. Mild(e, r) /\ e.output = NoPacket BY <1>1, <2>4, MildTakeEmpty
  <2>6. Turns(t, r) BY <2>3, <2>4 DEF Turns, Becomes
  <2>7. b \in HandsOf(t) /\ Stack(b) = Just(e.output) /\ Stack(b)' = Just(r.output) BY <1>1, <2>6, HandsAre
  <2>8. Steady(t, r, {b}) BY <2>4 DEF Steady
  <2> HIDE DEF b
  <2>9. <<>> \in Packets BY DEF Packets
  <2>10. Stack(b)' = Append(Stack(b), HeadOf("empty")) BY <2>2, <2>4, <2>5, <2>7, <2>9, JustIs
  <2>11. StepType /\ Kept /\ ListInv' BY <1>1, <1>2, <2>1, <2>6, <2>7, <2>8, <2>10, PopMoves
  <2>12. \A m \in WorkLists : list[m] = <<>> => list'[m] = <<>> BY <2>2 DEF WorkLists, Lists
  <2> QED BY <2>4, <2>5, <2>6, <2>11, <2>12, MildMove
<1>3. CASE Becomes(t, Searches(e, call)) /\ UNCHANGED list
  <2>1. Mild(e, Searches(e, call)) /\ SameWork(e, Searches(e, call)) BY <1>1, MildSearches
  <2>2. UNCHANGED <<listVars, countVars, monitorVars, markVars>> BY <1>3 DEF listVars
  <2> QED BY <1>3, <2>1, <2>2, MildStay
<1> QED BY <1>2, <1>3 DEF TakeEmptyOr

LEMMA TakeEmptyStep ==
    ASSUME IInv, NEW t \in Threads, TakeEmpty(t)
    PROVE  IInv'
<1>1. env[t].pc = "takeEmpty" /\ Shape(env[t]) BY IInvOf DEF TakeEmpty, At
<1>2. env[t].call \in OutputCalls BY <1>1 DEF Shape, CallOK
<1> QED BY <1>1, <1>2, TakeEmptyOrStep DEF TakeEmpty

-----------------------------------------------------------------------------
(* And those that mark, push, pop or overflow an object. *)

LEMMA SlotsLeft ==
    ASSUME NEW s \in Seq(Objects), s # <<>>
    PROVE  Head(s) \in Objects /\ ToSet(s) \subseteq {Head(s)} \cup ToSet(Tail(s))
<1>1. Head(s) \in Objects /\ Tail(s) \in Seq(Objects) /\ Len(s) \in Nat /\ Len(Tail(s)) = Len(s) - 1 /\ Head(s) = s[1]
  OBVIOUS
<1>2. ASSUME NEW i \in 1..Len(s) PROVE s[i] = Head(s) \/ s[i] \in ToSet(Tail(s))
  <2>1. CASE i = 1 BY <1>1, <2>1
  <2>2. CASE i # 1
    <3>1. i - 1 \in 1..Len(Tail(s)) /\ Tail(s)[i - 1] = s[i] BY <1>1, <2>2
    <3>2. DOMAIN Tail(s) = 1..Len(Tail(s)) BY <1>1
    <3> QED BY <3>1, <3>2 DEF ToSet
  <2> QED BY <2>1, <2>2
<1>3. DOMAIN s = 1..Len(s) OBVIOUS
<1> QED BY <1>1, <1>2, <1>3 DEF ToSet

\* An object that was not marked is in a packet or with a thread.
LEMMA WorkAdded ==
    ASSUME WorkInv, NEW o \in Objects, o \notin marked, marked' = marked \cup {o},
           overflowed' = overflowed, scanned' = scanned, OnceEach(Holding'), OneItemEach',
           \/ ObjectsIn(Holding') = ObjectsIn(Holding) \cup {o} /\ Items' = Items
           \/ ObjectsIn(Holding') = ObjectsIn(Holding) /\ Items' = Items \cup {o}
    PROVE  WorkInv'
<1>1. /\ marked = ObjectsIn(Holding) \cup Items \cup overflowed \cup scanned
      /\ ObjectsIn(Holding) \cap (Items \cup overflowed \cup scanned) = {}
      /\ Items \cap (overflowed \cup scanned) = {} /\ overflowed \cap scanned = {}
  BY DEF WorkInv
<1>2. o \notin ObjectsIn(Holding) /\ o \notin Items /\ o \notin overflowed /\ o \notin scanned BY <1>1
<1>3. marked' = ObjectsIn(Holding') \cup Items' \cup overflowed' \cup scanned' BY <1>1
<1>4. ObjectsIn(Holding') \cap (Items' \cup overflowed' \cup scanned') = {} BY <1>1, <1>2
<1>5. Items' \cap (overflowed' \cup scanned') = {} BY <1>1, <1>2
<1> QED BY <1>1, <1>3, <1>4, <1>5 DEF WorkInv

\* Objects that are marked go from one to another.
LEMMA WorkMoved ==
    ASSUME WorkInv, NEW S, marked' = marked, OnceEach(Holding'), OneItemEach',
           \/ /\ S \subseteq Items /\ Items' = Items \ S /\ scanned' = scanned
              /\ \/ ObjectsIn(Holding') = ObjectsIn(Holding) \cup S /\ overflowed' = overflowed
                 \/ ObjectsIn(Holding') = ObjectsIn(Holding) /\ overflowed' = overflowed \cup S
           \/ /\ S \subseteq ObjectsIn(Holding) /\ ObjectsIn(Holding') = ObjectsIn(Holding) \ S /\ Items' = Items
              /\ \/ overflowed' = overflowed \cup S /\ scanned' = scanned
                 \/ overflowed' = overflowed /\ scanned' = scanned \cup S
           \/ /\ S \subseteq overflowed /\ overflowed' = overflowed \ S /\ scanned' = scanned \cup S
              /\ ObjectsIn(Holding') = ObjectsIn(Holding) /\ Items' = Items
    PROVE  WorkInv'
<1> DEFINE P == ObjectsIn(Holding)  Q == ObjectsIn(Holding')
<1>1. /\ marked = P \cup Items \cup overflowed \cup scanned
      /\ P \cap (Items \cup overflowed \cup scanned) = {}
      /\ Items \cap (overflowed \cup scanned) = {} /\ overflowed \cap scanned = {}
  BY DEF WorkInv
<1> HIDE DEF P, Q
<1>2. marked' = Q \cup Items' \cup overflowed' \cup scanned' BY <1>1 DEF P, Q
<1>3. Q \cap (Items' \cup overflowed' \cup scanned') = {} BY <1>1 DEF P, Q
<1>4. Items' \cap (overflowed' \cup scanned') = {} BY <1>1 DEF P, Q
<1>5. overflowed' \cap scanned' = {} BY <1>1 DEF P, Q
<1> QED BY <1>2, <1>3, <1>4, <1>5 DEF WorkInv, Q

\* An object is pushed on the output packet of t ...
LEMMA OutputPushed ==
    ASSUME TypeOK, OnceEach(Holding), CountInv, NEW t \in Threads, NEW r, Turns(t, r), env[t].output \in Packets,
           NEW o \in Objects, o \notin ObjectsIn(Holding), r.output = Append(env[t].output, o),
           r.hand = env[t].hand, r.input = env[t].input, UNCHANGED listVars
    PROVE  StepType /\ CountInv' /\ OnceEach(Holding') /\ ObjectsIn(Holding') = ObjectsIn(Holding) \cup {o}
<1> DEFINE b == <<"output", t>>  x == <<b, 1>>
<1>1. list' = list /\ activePackets' = activePackets BY DEF listVars
<1>2. StepType BY <1>1, TurnsIs DEF TypeOK, StepType
<1>3. Stack(b) = Just(env[t].output) /\ Stack(b)' = Just(r.output) /\ b \in Holders BY HandsAre, HoldersAre
<1>4. r.output \in Packets BY DEF Packets
<1>5. ASSUME NEW h \in Holders, h # b PROVE Stack(h)' = Stack(h)
  <2> DEFINE A == {b}
  <2>1. h \notin A /\ <<"output", t>> \in A BY <1>5
  <2> HIDE DEF A
  <2> QED BY <1>1, <2>1, OtherStacks
<1> HIDE DEF b
<1>6. /\ Holding \in [Places -> Packets] /\ Holding' \in [Places -> Packets] /\ x \in Places
      /\ Holding[x] = env[t].output /\ Holding'[x] = r.output
      /\ \A y \in Places : y # x => Holding'[y] = Holding[y]
      /\ CountInv'
  BY <1>1, <1>2, <1>3, <1>4, <1>5, PacketChanges
<1> HIDE DEF x
<1>7. OnceEach(Holding') /\ ObjectsIn(Holding') = ObjectsIn(Holding) \cup {o} BY <1>6, Appended
<1> QED BY <1>2, <1>6, <1>7

\* ... or popped from its input packet.
LEMMA InputPopped ==
    ASSUME TypeOK, OnceEach(Holding), CountInv, NEW t \in Threads, NEW r, Turns(t, r), env[t].input \in Packets,
           env[t].input # <<>>, r.input = Front(env[t].input), r.hand = env[t].hand, r.output = env[t].output,
           UNCHANGED listVars
    PROVE  /\ StepType /\ CountInv' /\ OnceEach(Holding') /\ Last(env[t].input) \in ObjectsIn(Holding)
           /\ ObjectsIn(Holding') = ObjectsIn(Holding) \ {Last(env[t].input)}
<1> DEFINE b == <<"input", t>>  x == <<b, 1>>
<1>1. list' = list /\ activePackets' = activePackets BY DEF listVars
<1>2. StepType BY <1>1, TurnsIs DEF TypeOK, StepType
<1>3. Stack(b) = Just(env[t].input) /\ Stack(b)' = Just(r.input) /\ b \in Holders BY HandsAre, HoldersAre
<1>4. r.input \in Packets BY FrontIs DEF Packets
<1>5. ASSUME NEW h \in Holders, h # b PROVE Stack(h)' = Stack(h)
  <2> DEFINE A == {b}
  <2>1. h \notin A /\ <<"input", t>> \in A BY <1>5
  <2> HIDE DEF A
  <2> QED BY <1>1, <2>1, OtherStacks
<1> HIDE DEF b
<1>6. /\ Holding \in [Places -> Packets] /\ Holding' \in [Places -> Packets] /\ x \in Places
      /\ Holding[x] = env[t].input /\ Holding'[x] = r.input
      /\ \A y \in Places : y # x => Holding'[y] = Holding[y]
      /\ CountInv'
  BY <1>1, <1>2, <1>3, <1>4, <1>5, PacketChanges
<1> HIDE DEF x
<1>7. /\ OnceEach(Holding') /\ Last(env[t].input) \in ObjectsIn(Holding)
      /\ ObjectsIn(Holding') = ObjectsIn(Holding) \ {Last(env[t].input)}
  BY <1>6, Shortened
<1> QED BY <1>2, <1>6, <1>7

LEMMA MarkSlotStep ==
    ASSUME IInv, NEW t \in Threads, MarkSlot(t)
    PROVE  IInv'
<1> DEFINE e == env[t]  o == Head(e.todo)  r == IF o \in marked THEN Advanced(e) ELSE Push(Advanced(e), o)
<1>1. TypeOK /\ Data /\ ListInv /\ e \in Locals /\ Shape(e) BY IInvOf
<1>2. e.pc = "mark" /\ e.todo # <<>> /\ marked' = marked \cup {o} /\ Becomes(t, r) BY DEF MarkSlot, At, Advanced
<1>3. UNCHANGED <<listVars, countVars, monitorVars, overflowed, overflow, walk, scanned>> BY DEF MarkSlot
<1>4. r = Advanced(e) \/ r = Push(Advanced(e), o) OBVIOUS
<1>5. (o \in marked => r = Advanced(e)) /\ (o \notin marked => r = Push(Advanced(e), o)) OBVIOUS
<1> HIDE DEF r
<1>6. /\ Mild(e, r) /\ r.todo = Tail(e.todo) /\ e.item = 0 /\ r.input = e.input
      /\ r = Advanced(e) => r.item = e.item /\ r.output = e.output /\ r.hand = e.hand
      /\ r = Push(Advanced(e), o) =>
           \/ /\ e.output \in Packets /\ r.output = Append(e.output, o)
              /\ r.item = e.item /\ r.hand = e.hand
           \/ /\ e.output \in Packets /\ r.output = NoPacket /\ r.hand = Append(e.hand, e.output)
              /\ r.item = o
           \/ r.output = e.output /\ r.hand = e.hand /\ r.item = o
  BY <1>1, <1>2, <1>4, MildMarkSlot
<1>7. Turns(t, r) BY <1>2, <1>6 DEF Turns, Becomes, Mild
<1>8. o \in Objects /\ ToSet(e.todo) \subseteq {o} \cup ToSet(r.todo)
  <2>1. e.todo \in Seq(Objects) BY <1>1, LocalsFields
  <2> QED BY <1>2, <1>6, <2>1, SlotsLeft
<1> HIDE DEF o
<1>9. env'[t] = r /\ \A u \in Threads : u # t => env'[u] = env[u] BY <1>1, <1>7, TurnsIs DEF TypeOK
<1>10. OnceEach(Holding) /\ OneItemEach /\ WorkInv /\ CountInv /\ ScanInv /\ OverflowInv
  BY <1>1 DEF Data, WorkInv
<1>11. WorkInv' /\ CountInv' /\ StepType
  <2>1. CASE o \in marked
    <3>1. r.item = e.item /\ r.output = e.output /\ r.hand = e.hand BY <1>5, <1>6, <2>1
    <3>2. StepType /\ Kept BY <1>1, <1>3, <1>6, <1>7, <3>1, StacksStay
    <3>3. UNCHANGED <<marked, overflowed, scanned>> BY <1>2, <1>3, <2>1
    <3>4. \A u \in Threads : env'[u].item = env[u].item BY <1>9, <3>1
    <3> QED BY <1>10, <3>2, <3>3, <3>4, WorkKept DEF Kept
  <2>2. CASE o \notin marked
    <3>1. o \notin ObjectsIn(Holding) /\ o \notin Items BY <1>10, <2>2 DEF WorkInv
    <3>2. CASE e.output \in Packets /\ r.output = Append(e.output, o) /\ r.item = e.item /\ r.hand = e.hand
      <4>1. StepType /\ CountInv' /\ OnceEach(Holding') /\ ObjectsIn(Holding') = ObjectsIn(Holding) \cup {o}
        BY <1>1, <1>3, <1>6, <1>7, <1>8, <1>10, <3>1, <3>2, OutputPushed
      <4>2. Items' = Items /\ OneItemEach' BY <1>9, <1>10, <3>2, ItemsSame
      <4> QED BY <1>2, <1>3, <1>8, <1>10, <2>2, <4>1, <4>2, WorkAdded
    <3>3. CASE r.item = o /\ StepType /\ Kept
      <4>1. Items' = Items \cup {o} /\ OneItemEach' BY <1>1, <1>6, <1>7, <1>8, <1>10, <3>1, <3>3, ItemAdded
      <4>2. CountInv' /\ OnceEach(Holding') /\ ObjectsIn(Holding') = ObjectsIn(Holding) BY <1>10, <3>3 DEF Kept
      <4> QED BY <1>2, <1>3, <1>8, <1>10, <2>2, <3>3, <4>1, <4>2, WorkAdded
    <3>4. CASE e.output \in Packets /\ r.output = NoPacket /\ r.hand = Append(e.hand, e.output) /\ r.item = o
      <4>1. StepType /\ Kept BY <1>1, <1>3, <1>6, <1>7, <3>4, OutputToHand
      <4> QED BY <3>3, <3>4, <4>1
    <3>5. CASE r.output = e.output /\ r.hand = e.hand /\ r.item = o
      <4>1. StepType /\ Kept BY <1>1, <1>3, <1>6, <1>7, <3>5, StacksStay
      <4> QED BY <3>3, <3>5, <4>1
    <3> QED BY <1>5, <1>6, <2>2, <3>2, <3>4, <3>5
  <2> QED BY <2>1, <2>2
<1>12. ListInv' BY <1>1, <1>3 DEF ListInv, listVars
<1>13. OverflowInv' BY <1>3, <1>10 DEF OverflowInv
<1>14. ScanInv' BY <1>1, <1>2, <1>3, <1>6, <1>7, <1>8, <1>10, ScanFrame DEF Mild
<1>15. /\ activePackets' \in Nat /\ marked' \in SUBSET Objects /\ overflow' \in BOOLEAN /\ walk' \in 0..(HeapTop + 1)
       /\ \A l \in WorkLists : list[l] = <<>> => list'[l] = <<>>
  BY <1>1, <1>2, <1>3, <1>8 DEF TypeOK, listVars
<1> QED BY <1>3, <1>6, <1>7, <1>11, <1>12, <1>13, <1>14, <1>15, MildStep

LEMMA PushItemStep ==
    ASSUME IInv, NEW t \in Threads, PushItem(t)
    PROVE  IInv'
<1> DEFINE e == env[t]  o == e.item
<1>1. TypeOK /\ Data /\ ListInv /\ e \in Locals /\ Shape(e) BY IInvOf
<1>2. e.pc = "pushItem" BY DEF PushItem, At
<1>3. PICK r : /\ Becomes(t, r)
               /\ \/ e.output # NoPacket /\ r = PushedItem(e) /\ UNCHANGED <<overflow, overflowed>>
                  \/ e.output = NoPacket /\ r = Resumed(e) /\ Overflow({o})
  <2>1. Resumed(e).output = e.output BY <1>1, LocalsAre DEF Resumed
  <2>2. \/ Resumed(e).output # NoPacket /\ Becomes(t, PushedItem(e)) /\ UNCHANGED <<overflow, overflowed>>
        \/ Resumed(e).output = NoPacket /\ Overflow({o}) /\ Becomes(t, Resumed(e))
    BY DEF PushItem, Resumed, PushedItem
  <2> QED BY <2>1, <2>2
<1>4. UNCHANGED <<listVars, countVars, monitorVars, marked, walk, scanned>> BY DEF PushItem
<1>5. r = Resumed(e) \/ (e.output # NoPacket /\ r = PushedItem(e)) BY <1>3
<1>6. /\ Mild(e, r) /\ r.input = e.input /\ r.hand = e.hand /\ r.item = 0 /\ r.todo = e.todo /\ o \in Objects
      /\ r = Resumed(e) => r.output = e.output
      /\ e.output # NoPacket /\ r = PushedItem(e) => r.output = Append(e.output, o) /\ e.output \in Packets
  BY <1>1, <1>2, <1>5, MildPushItem
<1>7. Turns(t, r) BY <1>3, <1>6 DEF Turns, Becomes, Mild
<1>8. OnceEach(Holding) /\ OneItemEach /\ WorkInv /\ CountInv /\ ScanInv /\ OverflowInv
  BY <1>1 DEF Data, WorkInv
<1>9. o \in Items /\ Items' = Items \ {o} /\ OneItemEach' BY <1>1, <1>6, <1>7, <1>8, ItemTaken
<1>10. o \notin ObjectsIn(Holding) BY <1>8, <1>9 DEF WorkInv
<1> HIDE DEF o
<1>11. WorkInv' /\ CountInv' /\ StepType /\ OverflowInv' /\ overflow' \in BOOLEAN /\ (overflow => overflow')
  <2>1. CASE e.output # NoPacket /\ r = PushedItem(e) /\ UNCHANGED <<overflow, overflowed>>
    <3>1. StepType /\ CountInv' /\ OnceEach(Holding') /\ ObjectsIn(Holding') = ObjectsIn(Holding) \cup {o}
      BY <1>1, <1>4, <1>6, <1>7, <1>8, <1>10, <2>1, OutputPushed
    <3>2. WorkInv' BY <1>4, <1>8, <1>9, <2>1, <3>1, WorkMoved
    <3>3. OverflowInv' /\ overflow' \in BOOLEAN BY <1>1, <1>4, <1>8, <2>1 DEF OverflowInv, TypeOK
    <3> QED BY <2>1, <3>1, <3>2, <3>3
  <2>2. CASE e.output = NoPacket /\ r = Resumed(e) /\ Overflow({o})
    <3>1. StepType /\ Kept BY <1>1, <1>4, <1>6, <1>7, <2>2, StacksStay
    <3>2. CountInv' /\ OnceEach(Holding') /\ ObjectsIn(Holding') = ObjectsIn(Holding) BY <1>8, <3>1 DEF Kept
    <3>3. overflow' = TRUE /\ overflowed' = overflowed \cup {o} BY <2>2 DEF Overflow
    <3>4. WorkInv' BY <1>4, <1>8, <1>9, <3>2, <3>3, WorkMoved
    <3> QED BY <3>1, <3>2, <3>3, <3>4 DEF OverflowInv
  <2> QED BY <1>3, <2>1, <2>2
<1>12. ListInv' BY <1>1, <1>4 DEF ListInv, listVars
<1>13. ScanInv' BY <1>1, <1>4, <1>6, <1>7, <1>8, ScanFrame DEF Mild
<1>14. /\ activePackets' \in Nat /\ marked' \in SUBSET Objects /\ walk' \in 0..(HeapTop + 1)
       /\ \A l \in WorkLists : list[l] = <<>> => list'[l] = <<>>
  BY <1>1, <1>4 DEF TypeOK, listVars
<1> QED BY <1>4, <1>6, <1>7, <1>11, <1>12, <1>13, <1>14, MildStep

LEMMA PopStep ==
    ASSUME IInv, NEW t \in Threads, Pop(t)
    PROVE  IInv'
<1> DEFINE e == env[t]  o == Last(e.input)
<1>1. TypeOK /\ Data /\ ListInv /\ e \in Locals /\ Shape(e) BY IInvOf
<1>2. e.pc = "pop" BY DEF Pop, At
<1>3. UNCHANGED <<activePackets, countVars, monitorVars, marked, overflowed, overflow, walk>> BY DEF Pop
<1>4. OnceEach(Holding) /\ OneItemEach /\ WorkInv /\ CountInv /\ ScanInv /\ OverflowInv
  BY <1>1 DEF Data, WorkInv
<1>5. CASE HasWork(e.input)
  <2> DEFINE r == Scans([e EXCEPT !.input = Front(@)], Last(e.input), "scan")
  <2>1. scanned' = scanned \cup {o} /\ Becomes(t, r) /\ UNCHANGED list BY <1>5 DEF Pop
  <2>2. /\ Mild(e, r) /\ r.item = e.item /\ r.output = e.output /\ r.hand = e.hand
        /\ e.input \in Packets /\ r.input = Front(e.input) /\ r.todo = Refs[o] /\ e.todo = <<>>
    BY <1>1, <1>2, <1>5, MildPop
  <2> HIDE DEF r
  <2>3. Turns(t, r) BY <2>1, <2>2 DEF Turns, Becomes, Mild
  <2>4. UNCHANGED listVars BY <1>3, <2>1 DEF listVars
  <2>5. /\ StepType /\ CountInv' /\ OnceEach(Holding') /\ o \in ObjectsIn(Holding)
        /\ ObjectsIn(Holding') = ObjectsIn(Holding) \ {o}
    BY <1>1, <1>4, <1>5, <2>2, <2>3, <2>4, InputPopped DEF HasWork
  <2> HIDE DEF o
  <2>6. env'[t] = r /\ \A u \in Threads : u # t => env'[u] = env[u] BY <1>1, <2>3, TurnsIs DEF TypeOK
  <2>7. Items' = Items /\ OneItemEach' BY <1>4, <2>2, <2>6, ItemsSame
  <2>8. WorkInv' BY <1>3, <1>4, <2>1, <2>5, <2>7, WorkMoved
  <2>9. o \in Objects BY <2>5 DEF ObjectsIn
  <2>10. ScanInv' BY <1>1, <1>3, <1>4, <2>1, <2>2, <2>3, <2>9, ScanStarts DEF Mild
  <2>11. OverflowInv' BY <1>3, <1>4 DEF OverflowInv
  <2>12. ListInv' BY <1>1, <2>1 DEF ListInv
  <2>13. /\ activePackets' \in Nat /\ marked' \in SUBSET Objects /\ overflow' \in BOOLEAN /\ walk' \in 0..(HeapTop + 1)
         /\ \A l \in WorkLists : list[l] = <<>> => list'[l] = <<>>
    BY <1>1, <1>3, <2>1 DEF TypeOK
  <2>14. scanned \subseteq scanned' BY <2>1
  <2> QED BY <1>3, <2>2, <2>3, <2>5, <2>8, <2>10, <2>11, <2>12, <2>13, <2>14, MildStep
<1>6. CASE ~HasWork(e.input)
  <2> DEFINE r == Checks([e EXCEPT !.input = NoPacket], "retrieve")  a == <<"input", t>>
  <2>1. ReturnEmptyInput(t) /\ Becomes(t, r) /\ UNCHANGED scanned BY <1>6 DEF Pop
  <2>2. Mild(e, r) /\ r.item = e.item /\ r.output = e.output /\ r.hand = e.hand /\ r.input = NoPacket /\ r.todo = e.todo
    BY <1>1, <1>2, <1>6, MildPop
  <2> HIDE DEF r
  <2>3. Turns(t, r) BY <2>1, <2>2 DEF Turns, Becomes, Mild
  <2>4. UNCHANGED <<activePackets, countVars, monitorVars, markVars>> BY <1>3, <2>1 DEF markVars
  <2>5. StepType /\ Kept /\ ListInv' /\ \A l \in WorkLists : list[l] = <<>> => list'[l] = <<>>
    <3>1. CASE e.input = NoPacket
      <4>1. list' = list /\ UNCHANGED listVars BY <1>3, <2>1, <3>1 DEF ReturnEmptyInput, listVars
      <4>2. StepType /\ Kept BY <1>1, <2>2, <2>3, <3>1, <4>1, StacksStay
      <4> QED BY <1>1, <4>1, <4>2 DEF ListInv
    <3>2. CASE e.input # NoPacket
      <4>1. e.input = <<>> /\ list' = Pushed("empty", e.input) BY <1>6, <2>1, <3>2 DEF ReturnEmptyInput, HasWork
      <4>2. Stack(a) = Just(e.input) /\ Stack(a)' = Just(r.input) /\ a \in HandsOf(t) BY <1>1, <2>3, HandsAre
      <4>3. Steady(t, r, {a}) BY <2>2 DEF Steady
      <4> HIDE DEF a
      <4>4. <<>> \in Packets /\ Len(<<>>) <= Slots BY EmptyLength DEF Packets
      <4>5. Stack(a) # <<>> /\ Stack(a)' = Front(Stack(a)) /\ Last(Stack(a)) = <<>>
        BY <2>2, <4>1, <4>2, <4>4, JustIs
      <4>6. "empty" \in Lists BY DEF Lists
      <4>7. StepType /\ Kept /\ ListInv' /\ \A m \in Lists : m # "empty" => list'[m] = list[m]
        BY <1>1, <1>3, <2>3, <4>1, <4>2, <4>3, <4>4, <4>5, <4>6, PushMoves
      <4> QED BY <4>7 DEF WorkLists, Lists
    <3> QED BY <3>1, <3>2
  <2> QED BY <2>2, <2>3, <2>4, <2>5, MildMove
<1> QED BY <1>5, <1>6

LEMMA TakeFullStep ==
    ASSUME IInv, NEW t \in Threads, TakeFull(t)
    PROVE  IInv'
<1> DEFINE e == env[t]  S == ToSet(HeadOf("full"))
<1>1. TypeOK /\ Data /\ ListInv /\ e \in Locals /\ Shape(e) BY IInvOf
<1>2. e.pc = "takeFull" BY DEF TakeFull, At
<1>3. UNCHANGED <<activePackets, countVars, monitorVars, marked, walk, scanned>> BY DEF TakeFull
<1>4. OnceEach(Holding) /\ OneItemEach /\ WorkInv /\ CountInv /\ ScanInv /\ OverflowInv
  BY <1>1 DEF Data, WorkInv
<1>5. CASE list["full"] # <<>> /\ list' = Popped("full") /\ Overflow(S) /\ Becomes(t, Emptying(e))
  <2> DEFINE r == Emptying(e)  a == <<"list", "full">>  b == <<"output", t>>
  <2>1. /\ Mild(e, r) /\ e.output = NoPacket /\ r.output = <<>> /\ r.input = e.input /\ r.hand = e.hand
        /\ r.item = e.item /\ r.todo = e.todo
    BY <1>1, <1>2, MildTakeFull
  <2>2. Turns(t, r) BY <1>5, <2>1 DEF Turns, Becomes, Mild
  <2> HIDE DEF r
  <2>3. "full" \in Lists BY DEF Lists
  <2>4. /\ list' \in [Lists -> Seq(Packets)] /\ list'["full"] = Front(list["full"]) /\ ListInv'
        /\ \A m \in Lists : m # "full" => list'[m] = list[m]
        /\ \A m \in Lists : list[m] = <<>> => list'[m] = <<>>
    BY <1>1, <1>5, <2>3, PoppedIs
  <2>5. StepType BY <1>1, <2>2, <2>4, TurnsIs DEF StepType, TypeOK
  <2>6. /\ Stack(a) = list["full"] /\ Stack(a)' = Front(Stack(a)) /\ ToSet(Last(Stack(a))) = S /\ a \in Holders
        /\ Stack(b) = Just(e.output) /\ Stack(b)' = Just(r.output) /\ b \in Holders
    BY <1>1, <2>2, <2>3, <2>4, StackIs, HandsAre, HoldersAre DEF HeadOf
  <2>7. a # b
    <3>1. a[1] = "list" /\ b[1] = "output" OBVIOUS
    <3> HIDE DEF a, b
    <3> QED BY <3>1
  <2>8. ASSUME NEW h \in Holders, h \notin {a, b} PROVE Stack(h)' = Stack(h)
    <3> DEFINE A == {a, b}
    <3>1. /\ h \notin A /\ <<"output", t>> \in A
          /\ \A m \in Lists : <<"list", m>> \in A \/ list'[m] = list[m]
      BY <2>4, <2>8
    <3> HIDE DEF A, a, b
    <3> QED BY <1>1, <2>1, <2>2, <3>1, OtherStacks
  <2> HIDE DEF a, b, S
  <2>9. Stack(b) = <<>> /\ Stack(b)' = Just(<<>>) /\ Stack(a) # <<>> BY <1>5, <2>1, <2>6, JustIs
  <2>10. /\ OnceEach(Holding') /\ CountInv' /\ S \subseteq ObjectsIn(Holding)
         /\ ObjectsIn(Holding') = ObjectsIn(Holding) \ S
    BY <1>1, <1>3, <1>4, <2>5, <2>6, <2>7, <2>8, <2>9, PacketOverflows
  <2>11. env'[t] = r /\ \A u \in Threads : u # t => env'[u] = env[u] BY <1>1, <2>2, TurnsIs DEF TypeOK
  <2>12. Items' = Items /\ OneItemEach' BY <1>4, <2>1, <2>11, ItemsSame
  <2>13. overflow' = TRUE /\ overflowed' = overflowed \cup S BY <1>5 DEF Overflow
  <2>14. WorkInv' BY <1>3, <1>4, <2>10, <2>12, <2>13, WorkMoved
  <2>15. ScanInv' BY <1>1, <1>3, <1>4, <2>1, <2>2, ScanFrame DEF Mild
  <2>16. OverflowInv' BY <2>13 DEF OverflowInv
  <2>17. /\ activePackets' \in Nat /\ marked' \in SUBSET Objects /\ walk' \in 0..(HeapTop + 1)
         /\ \A l \in WorkLists : list[l] = <<>> => list'[l] = <<>>
    BY <1>1, <1>3, <2>4 DEF TypeOK, WorkLists, Lists
  <2> QED BY <1>3, <2>1, <2>2, <2>4, <2>5, <2>10, <2>13, <2>14, <2>15, <2>16, <2>17, MildStep
<1>6. CASE Becomes(t, Calls(e, "takeEmpty", "third")) /\ UNCHANGED <<list, overflow, overflowed>>
  <2>1. "third" \in OutputCalls BY DEF OutputCalls
  <2>2. Mild(e, Calls(e, "takeEmpty", "third")) /\ SameWork(e, Calls(e, "takeEmpty", "third"))
    BY <1>1, <1>2, <2>1, MildRetry
  <2>3. UNCHANGED <<listVars, countVars, monitorVars, markVars>> BY <1>3, <1>6 DEF listVars, markVars
  <2> QED BY <1>6, <2>2, <2>3, MildStay
<1> QED BY <1>5, <1>6 DEF TakeFull, Emptying

LEMMA AllocateStep ==
    ASSUME IInv, NEW t \in Threads, Allocate(t)
    PROVE  IInv'
<1> DEFINE e == env[t]  block == [i \in 1..PacketsPerBlock |-> <<>>]
<1>1. TypeOK /\ Data /\ ListInv /\ e \in Locals /\ Shape(e) BY IInvOf
<1>2. e.pc = "allocate" BY DEF Allocate, At
<1>3. UNCHANGED <<countVars, monitorVars, markVars>> BY DEF Allocate
<1>4. "second" \in OutputCalls BY DEF OutputCalls
<1>5. CASE TakeEmptyOr(t, "second") /\ UNCHANGED activePackets
  <2>1. e.pc \in {"takeEmpty", "allocate"} BY <1>2
  <2> QED BY <1>3, <1>4, <1>5, <2>1, TakeEmptyOrStep
<1>6. CASE /\ list["empty"] = <<>> /\ list' = [list EXCEPT !["empty"] = block]
           /\ activePackets' = activePackets + PacketsPerBlock /\ Becomes(t, Calls(e, "takeEmpty", "second"))
  <2> DEFINE r == Calls(e, "takeEmpty", "second")  a == <<"list", "empty">>
  <2>1. Mild(e, r) /\ SameWork(e, r) BY <1>1, <1>2, <1>4, MildRetry
  <2>2. Turns(t, r) BY <1>6, <2>1 DEF Turns, Becomes, Mild
  <2> HIDE DEF r
  <2>3. PacketsPerBlock \in Nat /\ <<>> \in Packets BY PacketsAssumption DEF Packets
  <2>4. block \in Seq(Packets) /\ Len(block) = PacketsPerBlock BY <2>3
  <2>5. \A i \in 1..Len(block) : block[i] = <<>> BY <2>4
  <2> HIDE DEF block
  <2>6. /\ list' \in [Lists -> Seq(Packets)] /\ list'["empty"] = block
        /\ \A m \in Lists : m # "empty" => list'[m] = list[m]
    BY <1>1, <1>6, <2>4 DEF TypeOK, Lists
  <2>7. ListInv' BY <1>1, <2>5, <2>6, EmptyLength DEF ListInv
  <2>8. StepType BY <1>1, <2>2, <2>6, TurnsIs DEF StepType, TypeOK
  <2>9. a \in Holders /\ Stack(a) = <<>> /\ Stack(a)' = [i \in 1..PacketsPerBlock |-> <<>>]
    BY <1>6, <2>6, StackIs, HoldersAre DEF Lists, block
  <2>10. ASSUME NEW h \in Holders, h # a PROVE Stack(h)' = Stack(h)
    <3> DEFINE A == {a}
    <3>1. h \notin A /\ \A m \in Lists : <<"list", m>> \in A \/ list'[m] = list[m] BY <2>6, <2>10
    <3> HIDE DEF A
    <3> QED BY <1>1, <2>1, <2>2, <3>1, OtherStacks DEF SameWork
  <2> HIDE DEF a
  <2>11. OnceEach(Holding) /\ OneItemEach /\ WorkInv /\ CountInv /\ ScanInv /\ OverflowInv
    BY <1>1 DEF Data, WorkInv
  <2>12. OnceEach(Holding') /\ CountInv' /\ ObjectsIn(Holding') = ObjectsIn(Holding)
    BY <1>1, <1>6, <2>3, <2>8, <2>9, <2>10, <2>11, PacketsAdded
  <2>13. env'[t] = r /\ \A u \in Threads : u # t => env'[u] = env[u] BY <1>1, <2>2, TurnsIs DEF TypeOK
  <2>14. Items' = Items /\ OneItemEach' BY <2>1, <2>11, <2>13, ItemsSame DEF SameWork
  <2>15. WorkInv' BY <1>3, <2>11, <2>12, <2>14 DEF WorkInv, markVars
  <2>16. UNCHANGED <<marked, overflowed, overflow, walk, scanned>> BY <1>3 DEF markVars
  <2>17. ScanInv' BY <1>1, <2>1, <2>2, <2>11, <2>16, ScanFrame DEF SameWork
  <2>18. OverflowInv' BY <2>11, <2>16 DEF OverflowInv
  <2>19. /\ activePackets' \in Nat /\ marked' \in SUBSET Objects /\ overflow' \in BOOLEAN /\ walk' \in 0..(HeapTop + 1)
         /\ \A l \in WorkLists : list[l] = <<>> => list'[l] = <<>>
    BY <1>1, <1>6, <2>3, <2>6, <2>16 DEF TypeOK, WorkLists, Lists
  <2> QED BY <1>3, <2>1, <2>2, <2>7, <2>8, <2>12, <2>15, <2>16, <2>17, <2>18, <2>19, MildStep
<1> QED BY <1>5, <1>6 DEF Allocate

-----------------------------------------------------------------------------
(* The walk of the heap, and the end of a scan. *)

LEMMA WalkHeapStep ==
    ASSUME IInv, NEW t \in Threads, WalkHeap(t)
    PROVE  IInv'
<1> DEFINE e == env[t]
<1>1. TypeOK /\ Control /\ Data /\ ListInv /\ e \in Locals /\ Shape(e) BY IInvOf
<1>2. e.pc = "walk" /\ walk <= HeapTop /\ walk' = walk + 1 /\ overflowed' = overflowed \ {walk}
  BY DEF WalkHeap, At
<1>3. UNCHANGED <<listVars, countVars, monitorVars, marked, overflow>> BY DEF WalkHeap
<1>4. OnceEach(Holding) /\ OneItemEach /\ WorkInv /\ CountInv /\ ScanInv /\ OverflowInv
  BY <1>1 DEF Data, WorkInv
<1>5. walk # 0 BY <1>1, <1>2 DEF Control, WalkInv, Walking
<1>6. walk \in Nat /\ walk \in Objects /\ walk' \in 0..(HeapTop + 1) /\ walk' # 0
  BY <1>1, <1>2, <1>5, HeapAssumption DEF TypeOK, Objects
<1>7. OverflowInv'
  <2> SUFFICES ASSUME NEW o \in overflowed' PROVE overflow' \/ (walk' # 0 /\ walk' <= o) BY DEF OverflowInv
  <2>1. o \in overflowed /\ o # walk /\ o \in Nat BY <1>1, <1>2 DEF TypeOK, Objects
  <2>2. overflow \/ walk <= o BY <1>4, <2>1 DEF OverflowInv
  <2>3. walk <= o => walk + 1 <= o BY <1>6, <2>1
  <2> QED BY <1>2, <1>3, <1>6, <2>2, <2>3
<1>8. ListInv' BY <1>1, <1>3 DEF ListInv, listVars
<1>9. /\ activePackets' \in Nat /\ marked' \in SUBSET Objects /\ overflow' \in BOOLEAN
      /\ \A l \in WorkLists : list[l] = <<>> => list'[l] = <<>>
  BY <1>1, <1>3 DEF TypeOK, listVars
<1>10. CASE walk \in overflowed
  <2> DEFINE r == Scans(e, walk, "walk")
  <2>1. scanned' = scanned \cup {walk} /\ Becomes(t, r) BY <1>10 DEF WalkHeap
  <2>2. /\ Mild(e, r) /\ r.input = e.input /\ r.output = e.output /\ r.hand = e.hand /\ r.item = e.item
        /\ r.todo = Refs[walk]
    BY <1>1, <1>2, <1>6, MildWalkHeap
  <2> HIDE DEF r
  <2>3. Turns(t, r) BY <2>1, <2>2 DEF Turns, Becomes, Mild
  <2>4. StepType /\ Kept BY <1>1, <1>3, <2>2, <2>3, StacksStay
  <2>5. CountInv' /\ OnceEach(Holding') /\ ObjectsIn(Holding') = ObjectsIn(Holding) BY <1>4, <2>4 DEF Kept
  <2>6. env'[t] = r /\ \A u \in Threads : u # t => env'[u] = env[u] BY <1>1, <2>3, TurnsIs DEF TypeOK
  <2>7. Items' = Items /\ OneItemEach' BY <1>4, <2>2, <2>6, ItemsSame
  <2>8. WorkInv'
    <3> DEFINE S == {walk}
    <3>1. S \subseteq overflowed /\ overflowed' = overflowed \ S /\ scanned' = scanned \cup S
      BY <1>2, <1>10, <2>1
    <3> HIDE DEF S
    <3> QED BY <1>3, <1>4, <2>5, <2>7, <3>1, WorkMoved
  <2>9. e.todo = <<>> BY <1>1, <1>2 DEF Shape, CallOK, WorkOK, Pushing, OutputCalls
  <2>10. ScanInv' BY <1>1, <1>3, <1>4, <1>6, <2>1, <2>2, <2>3, <2>9, ScanStarts DEF Mild
  <2>11. scanned \subseteq scanned' BY <2>1
  <2> QED BY <1>3, <1>5, <1>6, <1>7, <1>8, <1>9, <2>2, <2>3, <2>4, <2>5, <2>8, <2>10, <2>11, MildStep
<1>11. CASE walk \notin overflowed
  <2> DEFINE r == e
  <2>1. scanned' = scanned /\ env' = env /\ overflowed' = overflowed BY <1>2, <1>11 DEF WalkHeap
  <2>2. Turns(t, r) BY <1>1, <2>1 DEF Turns, TypeOK
  <2>3. Mild(e, r) BY <1>1, <1>2 DEF Mild, IsLast
  <2>4. r.item = e.item /\ r.todo = e.todo /\ r.round = e.round /\ r.hand = e.hand /\ r.input = e.input
        /\ r.output = e.output
    OBVIOUS
  <2> HIDE DEF r
  <2>5. StepType /\ Kept BY <1>1, <1>3, <2>2, <2>4, StacksStay
  <2>6. WorkInv' BY <1>3, <1>4, <2>1, <2>5, WorkKept
  <2>7. ScanInv' BY <1>1, <1>3, <1>4, <2>1, <2>2, <2>4, ScanFrame
  <2>8. CountInv' BY <1>4, <2>5 DEF Kept
  <2> QED BY <1>3, <1>5, <1>6, <1>7, <1>8, <1>9, <2>1, <2>2, <2>3, <2>5, <2>6, <2>7, <2>8, MildStep
<1> QED BY <1>10, <1>11

\* More roots are to be marked.
LEMMA ScanMoreRoots ==
    ASSUME TypeOK, ScanInv, NEW t \in Threads, NEW r, Turns(t, r), scanned' = scanned, marked' = marked,
           env[t].todo = <<>>, r.round = env[t].round + 1, r.todo = Roots[r.round]
    PROVE  ScanInv'
<1>1. env'[t] = r /\ \A u \in Threads : u # t => env'[u] = env[u] BY TurnsIs DEF TypeOK
<1>2. ToSet(<<>>) = {} BY DEF ToSet
<1>3. \A u \in Threads : ToSet(env[u].todo) \subseteq ToSet(env'[u].todo) BY <1>1, <1>2
<1>4. env[t].round \in Nat
  <2>1. env[t] \in Locals BY DEF TypeOK
  <2>2. env[t].round \in 1..Len(Roots) BY <2>1, LocalsFields
  <2> QED BY <2>2, HeapAssumption
<1>5. ASSUME NEW o \in scanned', NEW p \in ToSet(Refs[o])
      PROVE  p \in marked' \/ \E u \in Threads : p \in ToSet(env'[u].todo)
  <2>1. p \in marked \/ \E u \in Threads : p \in ToSet(env[u].todo) BY <1>5 DEF ScanInv
  <2> QED BY <1>3, <2>1
<1>6. ASSUME NEW u \in Threads, NEW q \in 1..env'[u].round
      PROVE  ToSet(Roots[q]) \subseteq marked' \cup ToSet(env'[u].todo)
  <2>1. CASE q \in 1..env[u].round
    <3>1. ToSet(Roots[q]) \subseteq marked \cup ToSet(env[u].todo) BY <2>1 DEF ScanInv
    <3> QED BY <1>3, <3>1
  <2>2. CASE u = t /\ q = env[t].round + 1 BY <1>1, <2>2
  <2>3. q \in 1..env[u].round \/ (u = t /\ q = env[t].round + 1)
    <3>1. CASE u = t BY <1>1, <1>4, <1>6, <3>1
    <3>2. CASE u # t BY <1>1, <1>6, <3>2
    <3> QED BY <3>1, <3>2
  <2> QED BY <2>1, <2>2, <2>3
<1> QED BY <1>5, <1>6 DEF ScanInv

LEMMA ScanDoneStep ==
    ASSUME IInv, NEW t \in Threads, ScanDone(t)
    PROVE  IInv'
<1> DEFINE e == env[t]
<1>1. /\ TypeOK /\ Control /\ Data /\ ListInv /\ e \in Locals /\ Shape(e)
      /\ inputListWaitCount \in 0..Cardinality(Threads) /\ inputListDoneIndex \in Nat
  BY IInvOf
<1>2. e.pc = "scanDone" /\ e.call = "none" BY <1>1 DEF ScanDone, At, Shape, CallOK
<1>3. UNCHANGED <<listVars, countVars, monitorVars, markVars>> BY DEF ScanDone
<1>4. e.round \in 1..Len(Roots) BY <1>1, LocalsFields
<1>5. ASSUME NEW place \in {"sync", "flush"}, Becomes(t, Goto(e, place)),
             (overflow /\ place = "sync") \/ (~overflow /\ place = "flush")
      PROVE  IInv'
  <2> DEFINE r == Goto(e, place)
  <2>1. place \in Pcs BY DEF Pcs
  <2>2. r \in Locals /\ SameWork(e, r) /\ r.pc = place /\ r.call = "none" BY <1>1, <1>2, <2>1, GotoIs
  <2>3. Turns(t, r) BY <1>5, <2>2 DEF Turns, Becomes
  <2> HIDE DEF r
  <2>4. Shape(r) BY <1>1, <1>2, <2>2, ShapeShifts
  <2>5. r.doneIndex = e.doneIndex /\ r.round = e.round /\ KeepsWork(e, r) BY <2>2 DEF SameWork, KeepsWork
  <2>6. Control' /\ Monitor!TypeOK' BY <1>1, <1>2, <1>3, <1>5, <2>2, <2>3, <2>4, <2>5, ScanDoneControl
  <2> QED BY <1>1, <1>3, <2>3, <2>5, <2>6, PlainStep DEF countVars
<1>6. CASE overflow
  <2>1. Becomes(t, Goto(e, "sync")) BY <1>6 DEF ScanDone, OverflowLeft
  <2> QED BY <1>5, <1>6, <2>1
<1>7. CASE ~overflow /\ e.round = Len(Roots)
  <2>1. Becomes(t, Goto(e, "flush")) BY <1>7, HeapAssumption DEF ScanDone, OverflowLeft
  <2> QED BY <1>5, <1>7, <2>1
<1>8. CASE ~overflow /\ e.round < Len(Roots)
  <2> DEFINE r == MoreRoots(e)
  <2>1. Becomes(t, r) BY <1>8 DEF ScanDone, OverflowLeft, MoreRoots
  <2>2. /\ r \in Locals /\ Shape(r) /\ r.pc = "mark" /\ r.call = "none" /\ r.doneIndex = e.doneIndex
        /\ r.round = e.round + 1 /\ r.from = "roots" /\ r.todo = Roots[e.round + 1] /\ r.item = e.item
        /\ r.input = e.input /\ r.output = e.output /\ r.hand = e.hand
    BY <1>1, <1>2, <1>8, RootsIs
  <2> HIDE DEF r
  <2>3. Turns(t, r) BY <2>1, <2>2 DEF Turns, Becomes
  <2>4. Control' /\ Monitor!TypeOK' BY <1>1, <1>2, <1>3, <1>8, <2>2, <2>3, ScanDoneControl
  <2>5. StepType /\ Kept BY <1>1, <1>3, <2>2, <2>3, StacksStay
  <2>6. env'[t] = r /\ \A u \in Threads : u # t => env'[u] = env[u] BY <1>1, <2>3, TurnsIs DEF TypeOK
  <2>7. UNCHANGED <<marked, overflowed, overflow, walk, scanned>> /\ UNCHANGED markVars BY <1>3 DEF markVars
  <2>8. WorkInv' /\ CountInv' BY <1>1, <2>2, <2>5, <2>6, <2>7, WorkKept DEF Data, Kept
  <2>9. e.todo = <<>> BY <1>1, <1>2 DEF Shape, CallOK, WorkOK, Pushing, OutputCalls
  <2>10. ScanInv' BY <1>1, <2>2, <2>3, <2>7, <2>9, ScanMoreRoots DEF Data
  <2>11. OverflowInv' BY <1>1, <2>7 DEF Data, OverflowInv
  <2>12. ListInv' BY <1>1, <1>3 DEF ListInv, listVars
  <2>13. activePackets' \in Nat BY <1>1, <1>3 DEF TypeOK, listVars
  <2>14. inputListWaitCount' \in 0..Cardinality(Threads) /\ inputListDoneIndex' \in Nat
    BY <1>1, <1>3 DEF countVars
  <2>15. TypeOK' BY <1>1, <2>4, <2>5, <2>7, <2>13, <2>14, TypeNext, MarksType
  <2> QED BY <2>4, <2>8, <2>10, <2>11, <2>12, <2>15 DEF IInv, Control
<1>9. e.round < Len(Roots) \/ e.round = Len(Roots) BY <1>4, HeapAssumption
<1> QED BY <1>6, <1>7, <1>8, <1>9

LEMMA ReleaseMasterStep ==
    ASSUME IInv, NEW t \in Threads, ReleaseMaster(t)
    PROVE  IInv'
<1>1. /\ TypeOK /\ Control /\ Data /\ ListInv
      /\ inputListWaitCount \in 0..Cardinality(Threads) /\ inputListDoneIndex \in Nat
  BY IInvOf
<1>2. Control' /\ Monitor!TypeOK' /\ \E r : Turns(t, r) /\ KeepsWork(env[t], r) BY <1>1, ReleaseMasterControl
<1>3. PICK r : Turns(t, r) /\ KeepsWork(env[t], r) BY <1>2
<1>4. /\ overflow' = FALSE /\ walk' = 1
      /\ UNCHANGED <<listVars, countVars, monitorVars, marked, overflowed, scanned>>
  BY DEF ReleaseMaster
<1>5. StepType /\ Kept BY <1>1, <1>3, <1>4, StacksStay DEF KeepsWork
<1>6. env'[t] = r /\ \A u \in Threads : u # t => env'[u] = env[u] BY <1>1, <1>3, TurnsIs DEF TypeOK
<1>7. WorkInv' /\ CountInv' BY <1>1, <1>3, <1>4, <1>5, <1>6, WorkKept DEF Data, Kept, KeepsWork
<1>8. ScanInv' BY <1>1, <1>3, <1>4, ScanFrame DEF Data, KeepsWork
<1>9. ListInv' BY <1>1, <1>4 DEF ListInv, listVars
<1>10. OverflowInv'
  <2>1. \A o \in overflowed : o \in Nat /\ 1 <= o BY <1>1 DEF TypeOK, Objects
  <2> QED BY <1>4, <2>1 DEF OverflowInv
<1>11. activePackets' \in Nat BY <1>1, <1>4 DEF TypeOK, listVars
<1>12. inputListWaitCount' \in 0..Cardinality(Threads) /\ inputListDoneIndex' \in Nat
  BY <1>1, <1>4 DEF countVars
<1>13. /\ marked' \in SUBSET Objects /\ overflowed' \in SUBSET marked' /\ scanned' \in SUBSET marked'
       /\ overflow' \in BOOLEAN /\ walk' \in 0..(HeapTop + 1)
  <2>1. walk' \in 0..(HeapTop + 1) BY <1>4, HeapAssumption
  <2>2. overflow' \in BOOLEAN BY <1>4
  <2> QED BY <1>1, <1>4, <2>1, <2>2 DEF TypeOK
<1>14. TypeOK' BY <1>2, <1>5, <1>11, <1>12, <1>13, TypeNext
<1> QED BY <1>2, <1>7, <1>8, <1>9, <1>10, <1>14 DEF IInv, Control

LEMMA ReleaseThreadsStep ==
    ASSUME IInv, NEW t \in Threads, ReleaseThreads(t)
    PROVE  IInv'
<1>1. /\ TypeOK /\ Control /\ Data /\ ListInv
      /\ inputListWaitCount \in 0..Cardinality(Threads) /\ inputListDoneIndex \in Nat
  BY IInvOf
<1>2. /\ Control' /\ Monitor!TypeOK' /\ env' \in [Threads -> Locals]
      /\ \A u \in Threads : KeepsWork(env[u], env'[u])
  BY <1>1, ReleaseThreadsControl
<1>3. /\ walk' = 0 /\ walk > HeapTop
      /\ UNCHANGED <<listVars, countVars, monitorVars, marked, overflowed, overflow, scanned>>
  BY DEF ReleaseThreads
<1>4. list' = list /\ activePackets' = activePackets BY <1>3 DEF listVars
<1>5. StepType BY <1>1, <1>2, <1>4 DEF StepType, TypeOK
<1>6. \A h \in Holders : Stack(h)' = Stack(h)
  <2> SUFFICES ASSUME NEW h \in Holders PROVE Stack(h)' = Stack(h) OBVIOUS
  <2>1. CASE \E l \in Lists : h = <<"list", l>> BY <1>4, <2>1, StackIs
  <2>2. CASE \E u \in Threads : h \in {<<"hand", u>>, <<"input", u>>, <<"output", u>>}
    <3>1. PICK u \in Threads : h \in {<<"hand", u>>, <<"input", u>>, <<"output", u>>} BY <2>2
    <3>2. env'[u].hand = env[u].hand /\ env'[u].input = env[u].input /\ env'[u].output = env[u].output
      BY <1>2 DEF KeepsWork
    <3> QED BY <3>1, <3>2, StackIs
  <2> QED BY <2>1, <2>2, HoldersAre
<1>7. Kept BY <1>1, <1>4, <1>5, <1>6, PacketsStay
<1>8. WorkInv' /\ CountInv' BY <1>1, <1>2, <1>3, <1>7, WorkKept DEF Data, Kept, KeepsWork
<1>9. ScanInv'
  <2>1. \A u \in Threads : env'[u].todo = env[u].todo /\ env'[u].round = env[u].round BY <1>2 DEF KeepsWork
  <2>2. ScanInv BY <1>1 DEF Data
  <2> QED BY <1>3, <2>1, <2>2 DEF ScanInv
<1>10. ListInv' BY <1>1, <1>4 DEF ListInv
<1>11. OverflowInv'
  <2>1. \A o \in overflowed : o \in Nat /\ o <= HeapTop BY <1>1 DEF TypeOK, Objects
  <2>2. \A o \in overflowed : ~(walk <= o) BY <1>1, <1>3, <2>1, HeapAssumption DEF TypeOK
  <2> QED BY <1>1, <1>3, <2>2 DEF OverflowInv, Data
<1>12. activePackets' \in Nat BY <1>1, <1>4 DEF TypeOK
<1>13. inputListWaitCount' \in 0..Cardinality(Threads) /\ inputListDoneIndex' \in Nat
  BY <1>1, <1>3 DEF countVars
<1>14. /\ marked' \in SUBSET Objects /\ overflowed' \in SUBSET marked' /\ scanned' \in SUBSET marked'
       /\ overflow' \in BOOLEAN /\ walk' \in 0..(HeapTop + 1)
  BY <1>1, <1>3, HeapAssumption DEF TypeOK
<1>15. TypeOK' BY <1>2, <1>5, <1>12, <1>13, <1>14, TypeNext
<1> QED BY <1>2, <1>8, <1>9, <1>10, <1>11, <1>15 DEF IInv, Control

-----------------------------------------------------------------------------
(* The end of marking is detected: nothing is left. *)

\* A thread that has joined the waiting ones has no work.
LEMMA JoinedHasNone ==
    ASSUME NEW e \in Locals, Shape(e), Joined(e)
    PROVE  /\ e.input = NoPacket /\ e.output \in {NoPacket, <<>>} /\ e.hand = <<>> /\ e.item = 0
           /\ e.todo = <<>> /\ ~Walking(e)
<1>1. e.call \in {"last", "waiting"} BY DEF Shape, CallOK, Joined
<1>2. Idle(e) /\ ~Pushing(e) BY <1>1 DEF Idle, Looking, Pushing, OutputCalls, Joined
<1>3. e.hand = <<>> BY <1>1 DEF Shape, HandOK, Joined, Putting, OutputCalls
<1>4. e.input = NoPacket /\ e.output \in {NoPacket, <<>>} BY <1>2 DEF Shape, WorkOK, OutputOK
<1>5. e.item = 0 /\ e.todo = <<>> BY <1>2 DEF Shape, WorkOK, Joined
<1>6. ~Walking(e) BY <1>2 DEF Walking, Joined
<1> QED BY <1>3, <1>4, <1>5, <1>6

LEMMA AllJoined ==
    ASSUME IInv, NEW t \in Threads, At(t, "finish")
    PROVE  /\ \A u \in Threads : /\ env[u].input = NoPacket /\ env[u].output \in {NoPacket, <<>>}
                                 /\ env[u].hand = <<>> /\ env[u].item = 0 /\ env[u].todo = <<>>
           /\ \A l \in WorkLists : list[l] = <<>>
           /\ walk = 0
<1>1. TypeOK /\ Control BY IInvIs
<1>2. \A u \in Threads : env[u] \in Locals /\ Shape(env[u]) BY <1>1, LocalsOf
<1>3. env[t].pc = "finish" /\ env[t].call = "last" BY <1>2 DEF At, Shape, CallOK
<1>4. (\A u \in Threads : Counted(u)) /\ \A l \in WorkLists : list[l] = <<>> BY <1>1, <1>3 DEF Control, LastInv
<1>5. \A u \in Threads : Joined(env[u]) BY <1>4 DEF Counted, Joined, At
<1>6. \A u \in Threads : /\ env[u].input = NoPacket /\ env[u].output \in {NoPacket, <<>>} /\ env[u].hand = <<>>
                         /\ env[u].item = 0 /\ env[u].todo = <<>> /\ ~Walking(env[u])
  BY <1>2, <1>5, JoinedHasNone
<1>7. walk = 0 BY <1>1, <1>6, ThreadsAssumption DEF Control, WalkInv
<1> QED BY <1>4, <1>6, <1>7

LEMMA NothingLeft ==
    ASSUME IInv, NEW t \in Threads, At(t, "finish")
    PROVE  NoWork /\ ObjectsIn(Holding) = {}
<1>1. TypeOK /\ ListInv BY IInvOf
<1>2. /\ \A u \in Threads : /\ env[u].input = NoPacket /\ env[u].output \in {NoPacket, <<>>}
                            /\ env[u].hand = <<>> /\ env[u].item = 0
      /\ \A l \in WorkLists : list[l] = <<>>
  BY AllJoined
<1>3. ASSUME NEW h \in Holders, NEW i \in DOMAIN Stack(h) PROVE Stack(h)[i] = <<>>
  <2>1. Stack(h) \in Seq(Packets) BY <1>1, StackType DEF TypeOK
  <2>2. i \in 1..Len(Stack(h)) /\ Stack(h) # <<>> BY <1>3, <2>1
  <2>3. CASE \E l \in Lists : h = <<"list", l>>
    <3>1. PICK l \in Lists : h = <<"list", l>> BY <2>3
    <3>2. Stack(h) = list[l] BY <3>1, StackIs
    <3>3. l \notin WorkLists BY <1>2, <2>2, <3>2
    <3>4. l = "empty" BY <3>3 DEF Lists, WorkLists
    <3> QED BY <1>1, <2>2, <3>2, <3>4 DEF ListInv
  <2>4. CASE \E u \in Threads : h \in {<<"hand", u>>, <<"input", u>>, <<"output", u>>}
    <3>1. PICK u \in Threads : h \in {<<"hand", u>>, <<"input", u>>, <<"output", u>>} BY <2>4
    <3>2. CASE h = <<"hand", u>>
      <4>1. Stack(h) = <<>> BY <1>2, <3>2, StackIs
      <4> QED BY <2>2, <4>1
    <3>3. CASE h = <<"input", u>>
      <4>1. Stack(h) = <<>> BY <1>2, <3>3, StackIs, JustIs
      <4> QED BY <2>2, <4>1
    <3>4. CASE h = <<"output", u>>
      <4>1. Stack(h) = Just(env[u].output) BY <3>4, StackIs
      <4>2. env[u].output # NoPacket BY <2>2, <4>1, JustIs
      <4>3. <<>> \in Packets BY DEF Packets
      <4>4. Stack(h) = Just(<<>>) /\ Len(Just(<<>>)) = 1 /\ Just(<<>>)[1] = <<>>
        BY <1>2, <4>1, <4>2, <4>3, JustIs
      <4>5. i = 1 BY <2>2, <4>4
      <4> QED BY <4>4, <4>5
    <3> QED BY <3>1, <3>2, <3>3, <3>4
  <2> QED BY <2>3, <2>4, HoldersAre
<1>4. ASSUME NEW x \in Places PROVE PacketAt(x) = <<>>
  <2>1. PICK h \in Holders : \E i \in DOMAIN Stack(h) : x = <<h, i>> BY PlacesAre
  <2>2. PICK i \in DOMAIN Stack(h) : x = <<h, i>> BY <2>1
  <2> QED BY <1>3, <2>2 DEF PacketAt
<1>5. \A x \in DOMAIN Holding : Holding[x] = <<>> BY <1>4 DEF Holding
<1>6. ObjectsIn(Holding) = {} BY <1>5, EmptyLength DEF ObjectsIn
<1> QED BY <1>2, <1>4, <1>6 DEF NoWork

\* What is scanned has the roots and is closed under references.
LEMMA ReachableScanned ==
    ASSUME IInv, NEW t \in Threads, At(t, "finish"), ~overflow, NEW u \in Threads
    PROVE  Reachable[env[u].round] \subseteq scanned
<1>1. TypeOK /\ Data /\ env[u] \in Locals BY IInvOf
<1>2. walk = 0 /\ \A w \in Threads : env[w].item = 0 /\ env[w].todo = <<>> BY AllJoined
<1>3. overflowed = {} BY <1>1, <1>2 DEF Data, OverflowInv
<1>4. Items = {} BY <1>2 DEF Items
<1>5. marked = scanned BY <1>1, <1>3, <1>4, NothingLeft DEF Data, WorkInv
<1>6. ToSet(<<>>) = {} BY DEF ToSet
<1>7. \A w \in Threads : ToSet(env[w].todo) = {} BY <1>2, <1>6
<1>8. \A p \in scanned : ToSet(Refs[p]) \subseteq scanned BY <1>1, <1>5, <1>7 DEF Data, ScanInv
<1>9. \A q \in 1..env[u].round : ToSet(Roots[q]) \subseteq scanned BY <1>1, <1>5, <1>7 DEF Data, ScanInv
<1>10. scanned \in SUBSET Objects /\ env[u].round \in 1..Len(Roots) BY <1>1, LocalsFields DEF TypeOK
<1> QED BY <1>8, <1>9, <1>10 DEF Reachable

LEMMA FinishStep ==
    ASSUME IInv, NEW t \in Threads, Finish(t)
    PROVE  IInv' /\ NoWork
<1>1. TypeOK /\ Control BY IInvIs
<1>2. At(t, "finish") BY DEF Finish
<1>3. ~overflow => \A u \in Threads : Reachable[env[u].round] \subseteq scanned BY <1>2, ReachableScanned
<1>4. /\ Control' /\ Monitor!TypeOK' /\ inputListDoneIndex' \in Nat /\ inputListWaitCount' \in 0..Cardinality(Threads)
      /\ \E r : Turns(t, r) /\ KeepsWork(env[t], r)
  BY <1>1, <1>3, FinishControl
<1>5. IInv' BY <1>4, PlainStep DEF Finish
<1> QED BY <1>2, <1>5, NothingLeft

-----------------------------------------------------------------------------
(* IInv holds, and what follows from it. *)

\* All packets are in the list of empty ones.
LEMMA EmptyPlaces ==
    ASSUME NEW n \in Nat, DOMAIN Stack(<<"list", "empty">>) = 1..n,
           \A h \in Holders : h # <<"list", "empty">> => DOMAIN Stack(h) = {}
    PROVE  IsFiniteSet(Places) /\ Cardinality(Places) = n
<1> DEFINE a == <<"list", "empty">>
<1>1. a \in Holders BY HoldersAre DEF Lists
<1>2. DOMAIN Stack(a) = 1..n /\ \A h \in Holders : h # a => DOMAIN Stack(h) = {} OBVIOUS
<1> HIDE DEF a
<1> DEFINE B == {a} \X (1..n)
<1>3. Places = B
  <2>1. Places \subseteq B
    <3> SUFFICES ASSUME NEW x \in Places PROVE x \in B OBVIOUS
    <3>1. PICK h \in Holders : \E i \in DOMAIN Stack(h) : x = <<h, i>> BY PlacesAre
    <3>2. h = a BY <1>2, <3>1
    <3> QED BY <1>2, <3>1, <3>2
  <2>2. B \subseteq Places BY <1>1, <1>2, PlacesAre
  <2> QED BY <2>1, <2>2
<1>4. IsFiniteSet(1..n) /\ Cardinality(1..n) = n BY FS_Interval
<1>5. IsFiniteSet({a}) /\ Cardinality({a}) = 1 BY FS_Singleton
<1>6. IsFiniteSet(B) /\ Cardinality(B) = Cardinality({a}) * Cardinality(1..n)
  <2> HIDE DEF B
  <2>1. ASSUME NEW T, IsFiniteSet(T)
        PROVE  IsFiniteSet({a} \X T) /\ Cardinality({a} \X T) = Cardinality({a}) * Cardinality(T)
    BY <1>5, <2>1, FS_Product
  <2> QED BY <1>4, <2>1 DEF B
<1> QED BY <1>3, <1>4, <1>5, <1>6

\* The locals of a thread that has just started.
Started ==
    [pc |-> "mark", call |-> "none", round |-> 1, from |-> "roots", todo |-> Roots[1], item |-> 0,
     input |-> NoPacket, output |-> NoPacket, hand |-> <<>>, selected |-> 0, look |-> <<>>, doneIndex |-> 0]

LEMMA StartedIs ==
    /\ Started \in Locals /\ Shape(Started) /\ Started.pc = "mark" /\ Started.call = "none" /\ Started.round = 1
    /\ Started.from = "roots" /\ Started.todo = Roots[1] /\ Started.item = 0 /\ Started.input = NoPacket
    /\ Started.output = NoPacket /\ Started.hand = <<>> /\ Started.doneIndex = 0
<1> DEFINE e == Started
<1>1. Len(Roots) \in Nat /\ 1 \in 1..Len(Roots) /\ Roots[1] \in Seq(Objects)
  <2>1. Len(Roots) \in Nat /\ Len(Roots) # 0 BY HeapAssumption
  <2>2. 1 \in 1..Len(Roots) BY <2>1
  <2> QED BY <2>1, <2>2, HeapAssumption
<1>2. "mark" \in Pcs /\ "none" \in CallNames BY DEF Pcs, CallNames
<1>3. <<>> \in Seq(Packets) /\ <<>> \in Seq(Lists) /\ 0 \in 0..MaxPacketSearch BY PacketsAssumption
<1>4. /\ e.pc = "mark" /\ e.call = "none" /\ e.round = 1 /\ e.from = "roots" /\ e.todo = Roots[1] /\ e.item = 0
      /\ e.input = NoPacket /\ e.output = NoPacket /\ e.hand = <<>> /\ e.selected = 0 /\ e.look = <<>>
      /\ e.doneIndex = 0
  BY DEF Started
<1>5. e \in Locals BY <1>1, <1>2, <1>3, LocalsAre DEF Started
<1> HIDE DEF e
<1>6. Shape(e)
  BY <1>4, <1>5, EmptyLength DEF Shape, CallOK, WorkOK, OutputOK, HandOK, LookOK, Pushing, Putting, OutputCalls,
     Idle, Looking, Finished
<1> QED BY <1>4, <1>5, <1>6 DEF e

LEMMA InitIInv == Init => IInv
<1> SUFFICES ASSUME Init PROVE IInv OBVIOUS
<1> DEFINE a == <<"list", "empty">>
<1>1. env = [t \in Threads |-> Started] BY DEF Init, Started
<1>2. \A t \in Threads : env[t] = Started BY <1>1
<1>3. <<>> \in Packets /\ <<>> \in Seq(Packets) /\ InitialPackets \in Nat BY PacketsAssumption DEF Packets
<1>4. /\ list \in [Lists -> Seq(Packets)] /\ list["empty"] = [i \in 1..InitialPackets |-> <<>>]
      /\ \A l \in Lists : l # "empty" => list[l] = <<>>
  <2>1. [i \in 1..InitialPackets |-> <<>>] \in Seq(Packets) BY <1>3
  <2>2. "empty" \in Lists BY DEF Lists
  <2> QED BY <1>3, <2>1, <2>2 DEF Init
<1>5. /\ owner = NoThread /\ count = 0 /\ waitState = [t \in Threads |-> "none"] /\ saved = [t \in Threads |-> 0]
      /\ inputListWaitCount = 0 /\ inputListDoneIndex = 0 /\ activePackets = InitialPackets
      /\ marked = {} /\ overflowed = {} /\ overflow = FALSE /\ walk = 0 /\ scanned = {}
  BY DEF Init, Monitor!Init
<1>6. Cardinality(Threads) \in Nat BY ThreadsAssumption, FS_CardinalityType
<1>7. TypeOK
  <2>1. Monitor!TypeOK BY <1>5 DEF Monitor!TypeOK
  <2>2. env \in [Threads -> Locals] BY <1>1, StartedIs
  <2>3. inputListWaitCount \in 0..Cardinality(Threads) /\ walk \in 0..(HeapTop + 1)
    BY <1>5, <1>6, HeapAssumption
  <2>4. overflow \in BOOLEAN BY <1>5
  <2>5. inputListDoneIndex \in Nat /\ activePackets \in Nat BY <1>3, <1>5
  <2>6. marked \in SUBSET Objects /\ overflowed \in SUBSET marked /\ scanned \in SUBSET marked BY <1>5
  <2> QED BY <1>4, <2>1, <2>2, <2>3, <2>4, <2>5, <2>6 DEF TypeOK
<1>8. ShapeInv BY <1>2, StartedIs DEF ShapeInv
<1>9. MonitorInv
  <2>1. ~Owns(Started) BY StartedIs DEF Owns
  <2> QED BY <1>2, <1>5, <2>1, StartedIs, ThreadsAssumption DEF MonitorInv
<1>10. ListInv
  <2>1. Len(list["empty"]) = InitialPackets /\ \A i \in 1..InitialPackets : list["empty"][i] = <<>>
    BY <1>3, <1>4
  <2>2. \A l \in Lists : l # "empty" => Len(list[l]) = 0 BY <1>4
  <2> QED BY <2>1, <2>2, EmptyLength DEF ListInv
<1>11. IndexInv BY <1>2, <1>5, StartedIs DEF IndexInv
<1>12. WaitCountExact
  <2>1. {t \in Threads : Counted(t)} = {} BY <1>2, StartedIs DEF Counted, At
  <2> QED BY <1>5, <2>1, FS_EmptySet DEF WaitCountExact
<1>13. LastInv BY <1>2, StartedIs DEF LastInv
<1>14. WalkInv
  <2>1. ~Walking(Started) BY StartedIs DEF Walking
  <2> QED BY <1>2, <1>5, <2>1 DEF WalkInv
<1>15. OverflowInv BY <1>5 DEF OverflowInv
<1>16. Stack(a) = list["empty"] /\ \A h \in Holders : h # a => Stack(h) = <<>>
  <2>1. Stack(a) = list["empty"] BY StackIs
  <2>2. ASSUME NEW h \in Holders, h # a PROVE Stack(h) = <<>>
    <3>1. CASE \E l \in Lists : h = <<"list", l>>
      <4>1. PICK l \in Lists : h = <<"list", l>> BY <3>1
      <4>2. l # "empty" BY <2>2, <4>1
      <4> QED BY <1>4, <4>1, <4>2, StackIs
    <3>2. CASE \E u \in Threads : h \in {<<"hand", u>>, <<"input", u>>, <<"output", u>>}
      <4>1. PICK u \in Threads : h \in {<<"hand", u>>, <<"input", u>>, <<"output", u>>} BY <3>2
      <4>2. env[u].hand = <<>> /\ Just(env[u].input) = <<>> /\ Just(env[u].output) = <<>>
        BY <1>2, StartedIs, JustIs
      <4> QED BY <4>1, <4>2, StackIs
    <3> QED BY <3>1, <3>2, HoldersAre
  <2> QED BY <2>1, <2>2
<1>17. CountInv
  <2>1. DOMAIN Stack(a) = 1..InitialPackets BY <1>4, <1>16
  <2>2. \A h \in Holders : h # a => DOMAIN Stack(h) = {}
    <3>1. DOMAIN <<>> = {} OBVIOUS
    <3> QED BY <1>16, <3>1
  <2> QED BY <1>3, <1>5, <2>1, <2>2, EmptyPlaces DEF CountInv
<1>18. \A x \in DOMAIN Holding : Holding[x] = <<>>
  <2> SUFFICES ASSUME NEW x \in Places PROVE Holding[x] = <<>> BY HoldingIs
  <2>1. PICK h \in Holders : \E i \in DOMAIN Stack(h) : x = <<h, i>> BY PlacesAre
  <2>2. PICK i \in DOMAIN Stack(h) : x = <<h, i>> BY <2>1
  <2>3. h = a BY <1>16, <2>2
  <2>4. i \in 1..InitialPackets /\ Stack(h)[i] = <<>> BY <1>4, <1>16, <2>2, <2>3
  <2> QED BY <2>2, <2>4, HoldingIs
<1>19. WorkInv
  <2>1. OnceEach(Holding) /\ ObjectsIn(Holding) = {} BY <1>18, EmptyLength DEF OnceEach, ObjectsIn
  <2>2. Items = {} /\ OneItemEach BY <1>2, StartedIs DEF Items, OneItemEach
  <2> QED BY <1>5, <2>1, <2>2 DEF WorkInv
<1>20. QuietInv BY <1>4 DEF QuietInv, WorkLists, Lists
<1>21. ScanInv
  <2>1. \A t \in Threads : \A q \in 1..env[t].round : ToSet(Roots[q]) \subseteq marked \cup ToSet(env[t].todo)
    <3> SUFFICES ASSUME NEW t \in Threads, NEW q \in 1..env[t].round
                 PROVE  ToSet(Roots[q]) \subseteq marked \cup ToSet(env[t].todo)
      OBVIOUS
    <3>1. q = 1 BY <1>2, StartedIs
    <3> QED BY <1>2, <3>1, StartedIs
  <2> QED BY <1>5, <2>1 DEF ScanInv
<1>22. CompleteInv BY <1>2, StartedIs DEF CompleteInv, Late
<1>23. MarkingComplete
  <2>1. \A t \in Threads, r \in 1..Len(Roots) : ~Past(t, r) BY <1>2, StartedIs, HeapAssumption DEF Past
  <2> QED BY <2>1 DEF MarkingComplete
<1> QED
  BY <1>7, <1>8, <1>9, <1>10, <1>11, <1>12, <1>13, <1>14, <1>15, <1>17, <1>19, <1>20, <1>21, <1>22, <1>23
     DEF IInv

LEMMA StutterIInv ==
    ASSUME IInv, UNCHANGED vars
    PROVE  IInv'
<1> DEFINE e == env[Master]
<1>1. Master \in Threads BY ThreadsAssumption
<1>2. e \in Locals /\ Shape(e) /\ env \in [Threads -> Locals] BY <1>1, IInvOf DEF TypeOK
<1>3. env' = env /\ UNCHANGED <<listVars, countVars, monitorVars, markVars>> BY DEF vars
<1>4. Becomes(Master, e)
  <2>1. [env EXCEPT ![Master] = e] = env BY <1>1, <1>2
  <2> QED BY <1>3, <2>1 DEF Becomes
<1>5. TypeOK /\ Control BY IInvIs
<1>6. Control'
  <2>1. UNCHANGED <<list, inputListWaitCount, inputListDoneIndex, owner, count, waitState, saved, scanned>>
    BY <1>3 DEF listVars, countVars, monitorVars, markVars
  <2>2. overflow' = overflow /\ walk' = walk BY <1>3 DEF markVars
  <2>3. ShapeInv' /\ IndexInv' BY <1>3, <1>5, <2>1 DEF Control, ShapeInv, IndexInv
  <2>4. MonitorInv' BY <1>3, <1>5, <2>1 DEF Control, MonitorInv
  <2>5. \A t \in Threads : /\ (Counted(t)' <=> Counted(t)) /\ (Late(t)' <=> Late(t))
                           /\ \A r \in 1..Len(Roots) : Past(t, r)' <=> Past(t, r)
    BY <1>3, <2>1 DEF Counted, Late, Past, At
  <2>6. WaitCountExact'
    <3>1. {t \in Threads : Counted(t)'} = {t \in Threads : Counted(t)} BY <2>5
    <3> QED BY <1>5, <2>1, <3>1 DEF Control, WaitCountExact
  <2>7. LastInv' BY <1>3, <1>5, <2>1, <2>5 DEF Control, LastInv
  <2>8. WalkInv' BY <1>3, <1>5, <2>2 DEF Control, WalkInv
  <2>9. QuietInv' BY <1>3, <1>5, <2>1, <2>2, <2>5 DEF Control, QuietInv
  <2>10. CompleteInv' BY <1>3, <1>5, <2>1, <2>2, <2>5 DEF Control, CompleteInv, Reachable
  <2>11. MarkingComplete' BY <1>5, <2>1, <2>5 DEF Control, MarkingComplete, Reachable
  <2> QED BY <2>3, <2>4, <2>6, <2>7, <2>8, <2>9, <2>10, <2>11 DEF Control
<1>7. Monitor!TypeOK' /\ inputListWaitCount' \in 0..Cardinality(Threads) /\ inputListDoneIndex' \in Nat
  BY <1>3, <1>5 DEF TypeOK, Monitor!TypeOK, countVars, monitorVars
<1>8. Turns(Master, e) /\ KeepsWork(e, e) BY <1>2, <1>4 DEF Turns, Becomes, KeepsWork
<1> QED BY <1>1, <1>3, <1>6, <1>7, <1>8, PlainStep

\* Only Finish changes the done index.
LEMMA IndexKept ==
    ASSUME NEW t \in Threads, Step(t), inputListDoneIndex' # inputListDoneIndex
    PROVE  Finish(t)
<1>1. CASE MarkStep(t) BY <1>1 DEF MarkStep, MarkSlot, ScanEnds, FlushOutputPacket, Pop, countVars
<1>2. CASE PutStep(t)
  BY <1>2 DEF PutStep, PutPacket, PutPush, PutNotify, TryEnter, Notifying, Notified, countVars
<1>3. CASE InputStep(t)
  BY <1>3 DEF InputStep, InputPacketAvailable, Choose, Take, Took, Swap, Enter, Entered, Wait, Reacquire, Leave,
              countVars
<1>4. CASE OutputStep(t)
  BY <1>4 DEF OutputStep, TakeEmpty, Search, PutBack, Allocate, TakeFull, PushItem, countVars
<1>5. CASE OverflowStep(t)
  BY <1>5 DEF OverflowStep, ScanDone, ReleaseMaster, WalkHeap, ReleaseThreads, Flush, countVars
<1> QED BY <1>1, <1>2, <1>3, <1>4, <1>5 DEF Step

LEMMA NextIInv ==
    ASSUME IInv, [Next]_vars
    PROVE  IInv' /\ (inputListDoneIndex' # inputListDoneIndex => NoWork)
<1>1. CASE UNCHANGED vars
  <2>1. IInv' BY <1>1, StutterIInv
  <2>2. inputListDoneIndex' = inputListDoneIndex BY <1>1 DEF vars, countVars
  <2> QED BY <2>1, <2>2
<1>2. CASE Next
  <2>1. PICK t \in Threads : Step(t) BY <1>2 DEF Next
  <2>2. ASSUME inputListDoneIndex' # inputListDoneIndex PROVE NoWork
    <3>1. Finish(t) BY <2>1, <2>2, IndexKept
    <3> QED BY <3>1, FinishStep
  <2>3. IInv'
    <3>1. CASE MarkStep(t)
      <4>1. CASE MarkSlot(t) BY <4>1, MarkSlotStep
      <4>2. CASE ScanEnds(t) BY <4>2, ScanEndsStep
      <4>3. CASE FlushOutputPacket(t) BY <4>3, FlushOutputPacketStep
      <4>4. CASE Pop(t) BY <4>4, PopStep
      <4> QED BY <3>1, <4>1, <4>2, <4>3, <4>4 DEF MarkStep
    <3>2. CASE PutStep(t)
      <4>1. CASE PutPacket(t) BY <4>1, PutPacketStep
      <4>2. CASE PutPush(t) BY <4>2, PutPushStep
      <4>3. CASE PutNotify(t) BY <4>3, PutNotifyStep
      <4>4. CASE TryEnter(t) BY <4>4, TryEnterStep
      <4>5. CASE Notifying(t) BY <4>5, NotifyingStep
      <4>6. CASE Notified(t) BY <4>6, NotifiedStep
      <4> QED BY <3>2, <4>1, <4>2, <4>3, <4>4, <4>5, <4>6 DEF PutStep
    <3>3. CASE InputStep(t)
      <4>1. CASE InputPacketAvailable(t) BY <4>1, InputPacketAvailableStep
      <4>2. CASE Choose(t) BY <4>2, ChooseStep
      <4>3. CASE Take(t) BY <4>3, TakeStep
      <4>4. CASE Took(t) BY <4>4, TookStep
      <4>5. CASE Swap(t) BY <4>5, SwapStep
      <4>6. CASE Enter(t) BY <4>6, EnterStep
      <4>7. CASE Entered(t) BY <4>7, EnteredStep
      <4>8. CASE Finish(t) BY <4>8, FinishStep
      <4>9. CASE Wait(t) BY <4>9, WaitStep
      <4>10. CASE Reacquire(t) BY <4>10, ReacquireStep
      <4>11. CASE Leave(t) BY <4>11, LeaveStep
      <4> QED BY <3>3, <4>1, <4>2, <4>3, <4>4, <4>5, <4>6, <4>7, <4>8, <4>9, <4>10, <4>11 DEF InputStep
    <3>4. CASE OutputStep(t)
      <4>1. CASE TakeEmpty(t) BY <4>1, TakeEmptyStep
      <4>2. CASE Search(t) BY <4>2, SearchStep
      <4>3. CASE PutBack(t) BY <4>3, PutBackStep
      <4>4. CASE Allocate(t) BY <4>4, AllocateStep
      <4>5. CASE TakeFull(t) BY <4>5, TakeFullStep
      <4>6. CASE PushItem(t) BY <4>6, PushItemStep
      <4> QED BY <3>4, <4>1, <4>2, <4>3, <4>4, <4>5, <4>6 DEF OutputStep
    <3>5. CASE OverflowStep(t)
      <4>1. CASE ScanDone(t) BY <4>1, ScanDoneStep
      <4>2. CASE ReleaseMaster(t) BY <4>2, ReleaseMasterStep
      <4>3. CASE WalkHeap(t) BY <4>3, WalkHeapStep
      <4>4. CASE ReleaseThreads(t) BY <4>4, ReleaseThreadsStep
      <4>5. CASE Flush(t) BY <4>5, FlushStep
      <4> QED BY <3>5, <4>1, <4>2, <4>3, <4>4, <4>5 DEF OverflowStep
    <3> QED BY <2>1, <3>1, <3>2, <3>3, <3>4, <3>5 DEF Step
  <2> QED BY <2>2, <2>3
<1> QED BY <1>1, <1>2

\* The homes of an object: a slot of a packet, the element of a thread, a bit.
LEMMA HomesAre ==
    ASSUME IInv, NEW o \in Objects
    PROVE  \A z : z \in Homes(o) <=>
               \/ \E x \in Places : \E k \in 1..Len(Holding[x]) : Holding[x][k] = o /\ z = <<x, k>>
               \/ \E t \in Threads : env[t].item = o /\ z = <<"item", t>>
               \/ o \in overflowed /\ z = <<"bits", "overflowed">>
               \/ o \in scanned /\ z = <<"bits", "scanned">>
<1>1. Holding \in [Places -> Packets] BY IInvIs, HoldingType DEF TypeOK
<1>2. ASSUME NEW x \in Places PROVE PacketAt(x) = Holding[x] /\ DOMAIN PacketAt(x) = 1..Len(Holding[x])
  <2>1. PacketAt(x) = Holding[x] BY DEF Holding
  <2>2. Holding[x] \in Seq(Objects) BY <1>1 DEF Packets
  <2> QED BY <2>1, <2>2
<1> DEFINE A == UNION {{x} \X {k \in DOMAIN PacketAt(x) : PacketAt(x)[k] = o} : x \in Places}
           B == {"item"} \X {t \in Threads : env[t].item = o}
           C == {"bits"} \X {b \in {"overflowed", "scanned"} : o \in IF b = "overflowed" THEN overflowed ELSE scanned}
<1>3. Homes(o) = A \cup B \cup C BY DEF Homes
<1>4. \A z : z \in A <=> \E x \in Places : \E k \in 1..Len(Holding[x]) : Holding[x][k] = o /\ z = <<x, k>>
  BY <1>2
<1>5. \A z : z \in B <=> \E t \in Threads : env[t].item = o /\ z = <<"item", t>> OBVIOUS
<1>6. \A z : z \in C <=> \/ o \in overflowed /\ z = <<"bits", "overflowed">>
                         \/ o \in scanned /\ z = <<"bits", "scanned">>
  OBVIOUS
<1> HIDE DEF A, B, C
<1> QED BY <1>3, <1>4, <1>5, <1>6

LEMMA WorkIsConserved ==
    ASSUME IInv
    PROVE  WorkConserved
<1> SUFFICES ASSUME NEW o \in Objects PROVE Cardinality(Homes(o)) = IF o \in marked THEN 1 ELSE 0
  BY DEF WorkConserved
<1>1. WorkInv BY DEF IInv
<1>2. DOMAIN Holding = Places BY HoldingIs
<1>3. o # 0 BY HeapAssumption DEF Objects
<1> DEFINE slot == \E x \in Places : \E k \in 1..Len(Holding[x]) : Holding[x][k] = o
           item == \E t \in Threads : env[t].item = o
<1>4. o \in ObjectsIn(Holding) <=> slot BY <1>2 DEF ObjectsIn
<1>5. o \in Items <=> item BY <1>3 DEF Items
<1>6. o \in marked <=> slot \/ item \/ o \in overflowed \/ o \in scanned BY <1>1, <1>4, <1>5 DEF WorkInv
<1>7. /\ slot => ~item /\ o \notin overflowed /\ o \notin scanned
      /\ item => o \notin overflowed /\ o \notin scanned
      /\ ~(o \in overflowed /\ o \in scanned)
  <2>1. o \in ObjectsIn(Holding) => o \notin Items /\ o \notin overflowed /\ o \notin scanned
    BY <1>1 DEF WorkInv
  <2>2. o \in Items => o \notin overflowed /\ o \notin scanned BY <1>1 DEF WorkInv
  <2>3. ~(o \in overflowed /\ o \in scanned) BY <1>1 DEF WorkInv
  <2> HIDE DEF slot, item
  <2> QED BY <1>4, <1>5, <2>1, <2>2, <2>3
<1>8. \A z : Homes(o) = {z} => Cardinality(Homes(o)) = 1 BY FS_Singleton
<1>9. CASE slot
  <2>1. PICK x \in Places : \E k \in 1..Len(Holding[x]) : Holding[x][k] = o BY <1>9
  <2>2. PICK k \in 1..Len(Holding[x]) : Holding[x][k] = o BY <2>1
  <2>3. \A y \in Places : \A m \in 1..Len(Holding[y]) : Holding[y][m] = o => y = x /\ m = k
    BY <1>1, <1>2, <2>2 DEF WorkInv, OnceEach
  <2>4. ~item /\ o \notin overflowed /\ o \notin scanned BY <1>7, <1>9
  <2>5. \A z : z \in Homes(o) <=> z = <<x, k>> BY <2>2, <2>3, <2>4, HomesAre
  <2>6. Homes(o) = {<<x, k>>} BY <2>5
  <2> QED BY <1>6, <1>8, <1>9, <2>6
<1>10. CASE item
  <2>1. PICK t \in Threads : env[t].item = o BY <1>10
  <2>2. \A u \in Threads : env[u].item = o => u = t BY <1>1, <1>3, <2>1 DEF WorkInv, OneItemEach
  <2>3. ~slot /\ o \notin overflowed /\ o \notin scanned BY <1>7, <1>10
  <2>4. \A z : z \in Homes(o) <=> z = <<"item", t>> BY <2>1, <2>2, <2>3, HomesAre
  <2>5. Homes(o) = {<<"item", t>>} BY <2>4
  <2> QED BY <1>6, <1>8, <1>10, <2>5
<1>11. CASE o \in overflowed
  <2>1. ~slot /\ ~item /\ o \notin scanned BY <1>7, <1>11
  <2>2. \A z : z \in Homes(o) <=> z = <<"bits", "overflowed">> BY <1>11, <2>1, HomesAre
  <2>3. Homes(o) = {<<"bits", "overflowed">>} BY <2>2
  <2> QED BY <1>6, <1>8, <1>11, <2>3
<1>12. CASE o \in scanned
  <2>1. ~slot /\ ~item /\ o \notin overflowed BY <1>7, <1>12
  <2>2. \A z : z \in Homes(o) <=> z = <<"bits", "scanned">> BY <1>12, <2>1, HomesAre
  <2>3. Homes(o) = {<<"bits", "scanned">>} BY <2>2
  <2> QED BY <1>6, <1>8, <1>12, <2>3
<1>13. CASE ~slot /\ ~item /\ o \notin overflowed /\ o \notin scanned
  <2>1. Homes(o) = {} BY <1>13, HomesAre
  <2> QED BY <1>6, <1>13, <2>1, FS_EmptySet
<1> QED BY <1>9, <1>10, <1>11, <1>12, <1>13

LEMMA PacketsAreConserved ==
    ASSUME IInv
    PROVE  PacketsConserved
<1>1. CountInv /\ TypeOK BY DEF IInv
<1>2. ASSUME \A t \in Threads : At(t, "done") PROVE Len(list["empty"]) = activePackets
  <2>1. /\ \A t \in Threads : env[t].pc = "done" /\ env[t] \in Locals /\ Shape(env[t])
        /\ Control
    BY <1>2, IInvIs, LocalsOf DEF At
  <2>2. \A t \in Threads : Finished(env[t]) /\ env[t].call = "none" BY <2>1 DEF Finished, Shape, CallOK
  <2>3. \A t \in Threads : /\ env[t].input = NoPacket /\ env[t].output = NoPacket /\ env[t].hand = <<>>
                           /\ ~Walking(env[t])
    <3> SUFFICES ASSUME NEW t \in Threads
                 PROVE  /\ env[t].input = NoPacket /\ env[t].output = NoPacket /\ env[t].hand = <<>>
                        /\ ~Walking(env[t])
      OBVIOUS
    <3>1. env[t].input = NoPacket BY <2>1, <2>2 DEF Shape, WorkOK, Idle
    <3>2. env[t].output = NoPacket BY <2>1 DEF Shape, OutputOK
    <3>3. env[t].hand = <<>> BY <2>1, <2>2 DEF Shape, HandOK, Putting
    <3>4. ~Walking(env[t]) BY <2>1, <2>2 DEF Walking, Pushing, OutputCalls
    <3> QED BY <3>1, <3>2, <3>3, <3>4
  <2>4. walk = 0 BY <2>1, <2>3, ThreadsAssumption DEF Control, WalkInv
  <2>5. \A l \in WorkLists : list[l] = <<>> BY <2>1, <2>2, <2>4 DEF Control, QuietInv
  <2> DEFINE a == <<"list", "empty">>
  <2>6. ASSUME NEW h \in Holders, h # a PROVE DOMAIN Stack(h) = {}
    <3>1. DOMAIN <<>> = {} OBVIOUS
    <3>2. CASE \E l \in Lists : h = <<"list", l>>
      <4>1. PICK l \in Lists : h = <<"list", l>> BY <3>2
      <4>2. l \in WorkLists BY <2>6, <4>1 DEF Lists, WorkLists
      <4> QED BY <2>5, <3>1, <4>1, <4>2, StackIs
    <3>3. CASE \E u \in Threads : h \in {<<"hand", u>>, <<"input", u>>, <<"output", u>>}
      <4>1. PICK u \in Threads : h \in {<<"hand", u>>, <<"input", u>>, <<"output", u>>} BY <3>3
      <4>2. env[u].hand = <<>> /\ Just(env[u].input) = <<>> /\ Just(env[u].output) = <<>> BY <2>3, JustIs
      <4>3. Stack(h) = <<>> BY <4>1, <4>2, StackIs
      <4> QED BY <3>1, <4>3
    <3> QED BY <3>2, <3>3, HoldersAre
  <2>7. Stack(a) \in Seq(Packets) /\ Stack(a) = list["empty"]
    <3>1. a \in Holders BY HoldersAre DEF Lists
    <3> QED BY <1>1, <3>1, StackType, StackIs DEF TypeOK
  <2>8. Len(list["empty"]) \in Nat /\ DOMAIN Stack(a) = 1..Len(list["empty"]) BY <2>7
  <2>9. Cardinality(Places) = Len(list["empty"]) BY <2>6, <2>8, EmptyPlaces
  <2> QED BY <1>1, <2>9 DEF CountInv
<1> QED BY <1>1, <1>2 DEF PacketsConserved, CountInv

LEMMA Invariance == Spec => []IInv
<1>1. IInv /\ [Next]_vars => IInv' BY NextIInv
<1> QED BY InitIInv, <1>1, PTL DEF Spec

\* No packet and no object in one is lost or duplicated, whatever lists and hands
\* it passes and whenever threads search, swap, overflow or flush, all packets are
\* empty and back in their list after the task, and _inputListWaitCount counts
\* exactly the threads that wait for work in the current round.
THEOREM PacketsTheorem == Spec => []PacketInv
<1>1. IInv => PacketInv BY WorkIsConserved, PacketsAreConserved DEF PacketInv, IInv
<1> QED BY <1>1, Invariance, PTL

\* The done index of getInputPacket moves on only when no packet, in a list or with
\* a thread, has any work and no thread has an element to push.
THEOREM TerminationTheorem == Spec => TerminationSound
<1>1. IInv /\ [Next]_vars => [inputListDoneIndex' # inputListDoneIndex => NoWork]_vars BY NextIInv
<1> QED BY <1>1, Invariance, PTL DEF Spec, TerminationSound

\* Once any thread has returned from a call of completeScan, everything reachable
\* from the roots that were marked before it has been marked and scanned.
THEOREM MarkingCompleteTheorem == Spec => []MarkingComplete
<1>1. IInv => MarkingComplete BY DEF IInv
<1> QED BY <1>1, Invariance, PTL
=============================================================================

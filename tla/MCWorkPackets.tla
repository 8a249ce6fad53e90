--------------------------- MODULE MCWorkPackets ---------------------------
(* WorkPackets for TLC: a small heap in which two threads run out of packets. *)
EXTENDS WorkPackets, TLC

\* The language marks 1, 2 and 3 first and 12 after the first scan.
MCRefs == [o \in 1..12 |->
    CASE o = 1 -> <<4, 5, 6, 7, 8, 9, 10>> [] o = 2 -> <<9, 10>> [] o = 6 -> <<8, 11>> [] o = 12 -> <<2>>
      [] OTHER -> <<>>]
MCRoots == <<<<1, 2, 3>>, <<12>>>>

\* After the first scan the language marks more objects than the packets can hold.
LateRefs == [o \in 1..5 |-> <<>>]
LateRoots == <<<<>>, <<1, 2, 3, 4, 5>>>>
=============================================================================

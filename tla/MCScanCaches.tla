---------------------------- MODULE MCScanCaches ----------------------------
(* ScanCaches for TLC: three threads, of which two share a sublist. *)
EXTENDS ScanCaches, TLC

CONSTANTS t1, t2, t3

MCSublistIndex == [t \in Threads |-> IF t = t1 THEN 1 ELSE 0]
=============================================================================

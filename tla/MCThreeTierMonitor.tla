------------------------- MODULE MCThreeTierMonitor -------------------------
(* ThreeTierMonitor for TLC. *)
EXTENDS ThreeTierMonitor, TLC

Symmetry == Permutations(Callers) \cup Permutations(Servers)
=============================================================================

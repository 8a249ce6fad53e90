--------------------------- MODULE MCParallelTask ---------------------------
(* ParallelTask for TLC: a task with every kind of step. *)
EXTENDS ParallelTask, TLC

\* Work shared out before, between and after the synchronisation points.
MCProgram == <<"work", "master", "work", "sync", "single", "work">>

Symmetry == Permutations(Threads \ {Master})
=============================================================================

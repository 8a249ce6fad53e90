------------------------ MODULE MCParallelDispatcher ------------------------
(* ParallelDispatcher for TLC. *)
EXTENDS ParallelDispatcher, TLC
=============================================================================

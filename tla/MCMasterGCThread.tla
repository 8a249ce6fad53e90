-------------------------- MODULE MCMasterGCThread --------------------------
(* MasterGCThread for TLC. *)
EXTENDS MasterGCThread, TLC
=============================================================================

--------------------------- MODULE MCSublistPool ---------------------------
(* SublistPool for TLC. *)
EXTENDS SublistPool
=============================================================================

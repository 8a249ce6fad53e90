------------------------- MODULE MCForwardedHeader -------------------------
(* ForwardedHeader for TLC: four threads, of which two may help the winner. *)
EXTENDS ForwardedHeader, TLC
=============================================================================

------------------------------ MODULE MCClient ------------------------------
(* Client for TLC. *)
EXTENDS ClientInv, TLC
=============================================================================

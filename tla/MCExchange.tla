----------------------------- MODULE MCExchange -----------------------------
(***************************************************************************)
(* Exchange for TLC.                                                       *)
(***************************************************************************)
EXTENDS Exchange

=============================================================================

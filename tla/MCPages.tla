------------------------------- MODULE MCPages ------------------------------
(***************************************************************************)
(* Pages for TLC.                                                          *)
(***************************************************************************)
EXTENDS Pages, TLC

Symmetric == Permutations(Requests) \cup Permutations(Paths)

=============================================================================

------------------------------- MODULE MCConn -------------------------------
(***************************************************************************)
(* Conn, and its inductive invariant, for TLC.                             *)
(***************************************************************************)
EXTENDS ConnInv, TLC

\* Launchers and nonces are interchangeable, except that a launcher with a
\* deadline is not one without.
Symmetric == Permutations(Nonces) \cup
             (IF WithDeadline \in {{}, Launchers} THEN Permutations(Launchers)
              ELSE {})

=============================================================================

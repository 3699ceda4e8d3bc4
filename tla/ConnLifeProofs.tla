--------------------------- MODULE ConnLifeProofs ---------------------------
(***************************************************************************)
(* What the life of a connection, as ConnLife tells it, promises.          *)
(***************************************************************************)
EXTENDS ConnLife, TLAPS

\* What both theorems need: the state says who owns the connection.
LifeInv ==
    /\ TypeOK
    /\ Reachable
    /\ TrackedIsLive
    /\ state = "Accepted" => open

LEMMA LifeInductive == Spec => []LifeInv
<1> USE DEF LifeInv, TypeOK, Reachable, TrackedIsLive, Live
<1>1. Init => LifeInv
  BY DEF Init
<1>2. LifeInv /\ [Next]_vars => LifeInv'
  <2> SUFFICES ASSUME LifeInv, [Next]_vars PROVE LifeInv'
    OBVIOUS
  <2>1. CASE Refuse
    <3>1. open' \in BOOLEAN /\ ~open'
      BY <2>1, Zenon DEF Refuse
    <3> QED
      BY <2>1, <3>1 DEF Refuse
  <2>2. CASE Track
    BY <2>2 DEF Track
  <2>3. CASE Work \/ Rest
    BY <2>3 DEF Work, Rest
  <2>4. CASE Hijack
    BY <2>4 DEF Hijack
  <2>5. CASE Leave
    BY <2>5 DEF Leave
  <2>6. CASE Cut
    BY <2>6 DEF Cut
  <2>7. CASE Shut
    <3>1. open' \in BOOLEAN /\ ~open'
      BY <2>7, Zenon DEF Shut
    <3> QED
      BY <2>7, <3>1 DEF Shut
  <2>8. CASE UNCHANGED vars
    BY <2>8 DEF vars
  <2> QED
    BY <2>1, <2>2, <2>3, <2>4, <2>5, <2>6, <2>7, <2>8
       DEF Next
<1> QED
  BY <1>1, <1>2, PTL DEF Spec

\* A connection the server's code still works on is known to the server or
\* already closed: of those once tracked, Close and Shutdown miss none but one
\* whose serve has untracked it and is about to close it.
THEOREM NoneOutOfReach == Spec => []Reachable
<1>1. LifeInv => Reachable
  BY DEF LifeInv
<1> QED
  BY <1>1, LifeInductive, PTL

\* The server closes nothing that has ended or belongs to a hijacker.
THEOREM TrackedIsOwn == Spec => []TrackedIsLive
<1>1. LifeInv => TrackedIsLive
  BY DEF LifeInv
<1> QED
  BY <1>1, LifeInductive, PTL

=============================================================================

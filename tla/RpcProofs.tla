------------------------------ MODULE RpcProofs -----------------------------
(***************************************************************************)
(* What follows from Rpc for whoever makes calls, at either end.           *)
(***************************************************************************)
EXTENDS Rpc, TLAPS

\* Nobody is still to draw a nonce when the gate is closed for good.
Settled == gate = "ended" => \A k \in Callers : phase[k] # "admitted"

\* Who has been let in has no nonce yet; who has one keeps it to the end.
NoncesHeld ==
    \A k \in Callers :
        phase[k] \in {"out", "admitted"} => nonce[k] = NoNonce

RpcInv == TypeOK /\ Settled /\ NoncesHeld /\ OneEach /\ AskedByName

LEMMA RpcInductive == NoNonce \notin Nonces => (Spec => []RpcInv)
<1> SUFFICES ASSUME NoNonce \notin Nonces PROVE Spec => []RpcInv
  OBVIOUS
<1> USE DEF RpcInv, TypeOK, Settled, NoncesHeld, OneEach, AskedByName
<1>1. Init => RpcInv
  BY DEF Init
<1>2. RpcInv /\ [Next]_vars => RpcInv'
  <2> SUFFICES ASSUME RpcInv, [Next]_vars PROVE RpcInv'
    OBVIOUS
  <2>1. ASSUME NEW k \in Callers, Admit(k) PROVE RpcInv'
    BY <2>1 DEF Admit, Goes
  <2>2. ASSUME NEW k \in Callers, Draw(k) PROVE RpcInv'
    <3>1. PICK n \in Nonces : /\ \A j \in Callers : nonce[j] # n
                              /\ nonce' = [nonce EXCEPT ![k] = n]
      BY <2>2 DEF Draw
    <3>2. TypeOK' /\ Settled' /\ NoncesHeld'
      BY <2>2, <3>1 DEF Draw, Goes
    <3>3. OneEach' /\ AskedByName'
      BY <2>2, <3>1 DEF Draw, Goes
    <3> QED BY <3>2, <3>3
  <2>3. ASSUME NEW k \in Callers, Send(k) PROVE RpcInv'
    BY <2>3 DEF Send, Goes
  <2>4. ASSUME NEW k \in Callers, Answer(k) PROVE RpcInv'
    BY <2>4 DEF Answer, Goes
  <2>5. ASSUME NEW k \in Callers, Fail(k) PROVE RpcInv'
    BY <2>5 DEF Fail, Goes
  <2>6. ASSUME NEW k \in Callers, Return(k) PROVE RpcInv'
    BY <2>6 DEF Return, Goes
  <2>7. CASE Forget \/ Bar \/ Unbar \/ End
    BY <2>7 DEF Forget, Bar, Unbar, End
  <2>8. CASE UNCHANGED vars
    BY <2>8 DEF vars
  <2> QED
    BY <2>1, <2>2, <2>3, <2>4, <2>5, <2>6, <2>7, <2>8 DEF Next
<1> QED
  BY <1>1, <1>2, PTL DEF Spec

\* An answer is for one call: no two that are under way share a nonce.
THEOREM OneCallEach == NoNonce \notin Nonces => (Spec => []OneEach)
<1>1. RpcInv => OneEach
  BY DEF RpcInv
<1> QED
  BY <1>1, RpcInductive, PTL

\* No call asks anything without a nonce to be answered by.
THEOREM AskedUnderNonce == NoNonce \notin Nonces => (Spec => []AskedByName)
<1>1. RpcInv => AskedByName
  BY DEF RpcInv
<1> QED
  BY <1>1, RpcInductive, PTL

\* After the end nothing is asked, not even by a call let in before.
THEOREM NothingTooLate == NoNonce \notin Nonces => (Spec => NoneTooLate)
<1> DEFINE Kept == \A k \in Callers : nonce'[k] \in {nonce[k], NoNonce}
<1>1. RpcInv /\ [Next]_vars => [gate = "ended" => Kept]_vars
  <2> SUFFICES ASSUME RpcInv, Next, gate = "ended" PROVE Kept
    OBVIOUS
  <2>1. \A k \in Callers : ~Draw(k)
    BY DEF RpcInv, Settled, Draw, Goes
  <2>2. nonce \in [Callers -> Nonces \cup {NoNonce}]
    BY DEF RpcInv, TypeOK
  <2> QED
    BY <2>1, <2>2 DEF Next, Admit, Send, Answer, Fail, Return, Forget, Bar,
                      Unbar, End
<1> QED
  BY <1>1, RpcInductive, PTL DEF Spec, NoneTooLate

=============================================================================

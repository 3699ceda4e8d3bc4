--------------------------------- MODULE Rpc --------------------------------
(***************************************************************************)
(* What a call over a shared connection promises those who make it,        *)
(* whichever end they are at.  Conn implements it for the launches of a    *)
(* server (src/conn.go, RoundTripContext), Client for the calls of a       *)
(* client (src/client.go, DoCtx).                                          *)
(***************************************************************************)
CONSTANTS
    Callers,
    Nonces, NoNonce     \* what requests and answers are told apart by

VARIABLES
    gate,       \* "open", "barred" (nobody is let in for now), "ended"
    phase,      \* how far each caller's call has come
    nonce,      \* the nonce of its request, once it has one
    heard       \* the nonces the peer may answer

vars == <<gate, phase, nonce, heard>>

TypeOK ==
    /\ gate \in {"open", "barred", "ended"}
    /\ phase \in [Callers -> {"out", "admitted", "asking", "waiting",
                              "answered", "failed"}]
    /\ nonce \in [Callers -> Nonces \cup {NoNonce}]
    /\ heard \subseteq Nonces

Init ==
    /\ gate = "open"
    /\ phase = [k \in Callers |-> "out"]
    /\ nonce = [k \in Callers |-> NoNonce]
    /\ heard = {}

Goes(k, from, to) == phase[k] \in from /\ phase' = [phase EXCEPT ![k] = to]

Admit(k) ==
    /\ gate = "open"
    /\ Goes(k, {"out"}, "admitted")
    /\ UNCHANGED <<gate, nonce, heard>>

\* The request gets a nonce no other call has.
Draw(k) ==
    /\ Goes(k, {"admitted"}, "asking")
    /\ \E n \in Nonces :
          /\ \A j \in Callers : nonce[j] # n
          /\ nonce' = [nonce EXCEPT ![k] = n]
    /\ UNCHANGED <<gate, heard>>

\* The request is written, once; the peer may or may not get it.
Send(k) ==
    /\ Goes(k, {"asking"}, "waiting")
    /\ heard' \in {heard, heard \cup {nonce[k]}}
    /\ UNCHANGED <<gate, nonce>>

\* An answer to a nonce the peer has heard reaches the call that has it now.
Answer(k) ==
    /\ Goes(k, {"waiting"}, "answered")
    /\ nonce[k] \in heard
    /\ heard' \subseteq heard
    /\ UNCHANGED <<gate, nonce>>

Fail(k) ==
    /\ Goes(k, {"admitted", "asking", "waiting"}, "failed")
    /\ heard' \subseteq heard
    /\ UNCHANGED <<gate, nonce>>

Return(k) ==
    /\ Goes(k, {"admitted", "asking", "answered", "failed"}, "out")
    /\ nonce' = [nonce EXCEPT ![k] = NoNonce]
    /\ UNCHANGED <<gate, heard>>

\* The peer, or the way to it, is lost, and with it what might have come.
Forget ==
    /\ heard' \subseteq heard
    /\ UNCHANGED <<gate, phase, nonce>>

\* Nobody is let in any more, for now or for good; in the latter case, those
\* who have been let in before have got on with it.
Bar   == gate = "open" /\ gate' = "barred" /\ UNCHANGED <<phase, nonce, heard>>
Unbar == gate = "barred" /\ gate' = "open" /\ UNCHANGED <<phase, nonce, heard>>
End ==
    /\ gate # "ended"
    /\ gate' = "ended"
    /\ \A k \in Callers : phase[k] # "admitted"
    /\ UNCHANGED <<phase, nonce, heard>>

Next ==
    \/ \E k \in Callers :
          Admit(k) \/ Draw(k) \/ Send(k) \/ Answer(k) \/ Fail(k) \/ Return(k)
    \/ Forget \/ Bar \/ Unbar \/ End

Spec == Init /\ [][Next]_vars

-----------------------------------------------------------------------------

\* No two calls under way have the same nonce: an answer is for one of them.
OneEach ==
    \A k, j \in Callers : k # j /\ nonce[k] # NoNonce => nonce[k] # nonce[j]

\* A call that waits or has been answered has a nonce.
AskedByName ==
    \A k \in Callers :
        phase[k] \in {"asking", "waiting", "answered"} => nonce[k] \in Nonces

\* Once the gate is closed for good, no request gets a nonce.
NoneTooLate ==
    [][ gate = "ended" =>
          \A k \in Callers : nonce'[k] \in {nonce[k], NoNonce} ]_vars

=============================================================================

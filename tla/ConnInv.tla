------------------------------ MODULE ConnInv -------------------------------
(***************************************************************************)
(* The inductive invariant of Conn: what holds between the goroutines of a *)
(* connection at every step, and from which its safety properties follow.  *)
(* TLC checks it as an invariant of MCConn; ConnProofs proves it.          *)
(***************************************************************************)
EXTENDS Conn

\* conn.mu is held by the goroutine that is in a critical section, and no
\* other is in one.
MutexOwned ==
    /\ \A l \in Launchers : mu = l <=> lpc[l] \in Critical
    /\ mu = Serve <=> spc \in {"send", "hijack", "shut"}

\* A launch has a nonce while it is in activeReq and no longer; it has an
\* answer at the very end only.
LaunchLocals ==
    \A l \in Launchers :
        /\ lpc[l] \in InFlight <=> nonce[l] # NoNonce
        /\ got[l] # NoNonce => lpc[l] = "relock"

\* The serve goroutine looks for the addressee of answers only, and keeps
\* what it found no longer than conn.mu.
ServeLocals ==
    /\ spc \in {"deliver", "send"} => line.kind = "answer"
    /\ spc = "parse" => line # NoLine
    /\ target # NoLauncher => spc = "send"
    /\ spc = "wait" <=> waiting # NoLauncher

\* An answer on its way is to a request the device has received.
AnswersAsked ==
    /\ line.kind = "answer" => line.nonce \in asked
    /\ \A i \in 1 .. Len(inq) : inq[i].kind = "answer" => inq[i].nonce \in asked

\* A connection is closed at the end of serve, and no launch passes its
\* checks from then on.
ClosedAtEnd ==
    closed => /\ spc \in {"shut", "ended", "crashed"}
              /\ \A l \in Launchers : lpc[l] \notin Critical

\* Nobody can launch before the handshake is over, nor if it fails.
HandshakeFirst ==
    /\ ctx = "none" => spc \in {"tls", "exit", "close", "crashed"} /\ ~handed
    /\ spc = "tls" => ctx = "none"
    /\ spc \in {"handler", "hijack", "wait"} => handed
    /\ ~handed => /\ ~hijacked
                  /\ \A l \in Launchers : lpc[l] = "idle"
    /\ spc \in {"close", "shut", "ended"} => ctx # "live"
    /\ spc \in {"shut", "ended"} => ctx = "done"

\* bufw is given back by Hijack and by Close, and never otherwise.
BufwOwned == bufw = "nil" => hijacked \/ closed \/ ctx = "none"

\* What Server.activeConn and conn.curState say of the serve goroutine.
ServerView ==
    /\ sweeping => tracked
    /\ ~tracked => connState \in {"Hijacked", "Closed"} \/ sock = "closed"
    /\ connState \in {"Hijacked", "Closed"} => ~tracked
    /\ spc = "hijack" => hijacked /\ connState = "Active"
    /\ connState = "Hijacked" <=> hijacked /\ spc # "hijack"
    /\ spc = "shut" => closed
    /\ connState = "Closed" <=> closed /\ spc \in {"shut", "ended"}
    /\ spc = "ended" => hijacked \/ (closed /\ sock = "closed")
    /\ spc \in {"handler", "wait", "reply"} =>
           connState \in {"Active", "Hijacked"}

\* Who may do what when: the discipline the goroutines keep without saying so.
Discipline ==
    /\ MutexOwned /\ LaunchLocals /\ ServeLocals /\ AnswersAsked
    /\ ClosedAtEnd /\ HandshakeFirst /\ BufwOwned /\ ServerView

\* The discipline and the properties that depend on it and on each other ...
Joint ==
    /\ Discipline
    /\ RegistryExact /\ SendOnOpen /\ AnswerIsOwn /\ HijackExclusive

\* ... which, with the types, are inductive.
IInv == TypeOK /\ Joint

=============================================================================

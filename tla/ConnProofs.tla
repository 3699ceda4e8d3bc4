----------------------------- MODULE ConnProofs -----------------------------
(***************************************************************************)
(* What is proved of Conn, for every set of launchers and nonces, every    *)
(* bound on the queue and every choice of sockets, lines and operations.   *)
(* The argument: TypeOK and the conjuncts of Joint (ConnInv) are kept by   *)
(* every action (one step per action below); the safety properties follow  *)
(* from them, and every step is one of the connection's abstract life.     *)
(***************************************************************************)
EXTENDS ConnInv, TLAPS, SequenceTheorems

-----------------------------------------------------------------------------
(* The queue of lines. *)

\* What reading a line returns and leaves, and what sending one adds.
LEMMA QueueRead ==
    ASSUME NEW S, NEW q \in Seq(S), q # <<>>
    PROVE  /\ Head(q) \in S /\ Head(q) = q[1] /\ 1 \in 1 .. Len(q)
           /\ Tail(q) \in Seq(S)
           /\ \A i \in 1 .. Len(Tail(q)) :
                 i + 1 \in 1 .. Len(q) /\ Tail(q)[i] = q[i + 1]
<1>1. Len(q) \in Nat /\ Len(q) # 0
  BY EmptySeq
<1> QED
  BY <1>1, HeadTailProperties

LEMMA QueueSent ==
    ASSUME NEW S, NEW q \in Seq(S), NEW m \in S
    PROVE  /\ Append(q, m) \in Seq(S)
           /\ \A i \in 1 .. Len(Append(q, m)) :
                 \/ i \in 1 .. Len(q) /\ Append(q, m)[i] = q[i]
                 \/ Append(q, m)[i] = m
  BY AppendProperties

\* What the device sends is never taken for the absence of a line.
LEMMA NoneIsNoLine == \A m \in Lines : m # NoLine
  BY ConnAssumption DEF Lines, Plain, Answer, NoLine


-----------------------------------------------------------------------------
(* The inductive invariant. *)

LEMMA InitInv == Init => IInv
<1> SUFFICES ASSUME Init PROVE TypeOK /\ Joint
  BY DEF IInv
<1> USE ConnAssumption
    DEF Init, InFlight, Critical, InLaunch, Lines, Plain, Answer, NoLine
<1>1. TypeOK
  <2>1. /\ closing \in BOOLEAN /\ hijacked \in BOOLEAN /\ closed \in BOOLEAN
        /\ raw \in BOOLEAN /\ handed \in BOOLEAN /\ clash \in BOOLEAN
        /\ gone \in BOOLEAN /\ tracked \in BOOLEAN /\ sweeping \in BOOLEAN
        /\ shutting \in BOOLEAN /\ keepAlive \in BOOLEAN
    BY Zenon
  <2> QED
    BY <2>1 DEF TypeOK, ServePcs, LaunchPcs
<1>2. MutexOwned /\ RegistryExact /\ LaunchLocals /\ ServeLocals /\ SendOnOpen
  BY DEF MutexOwned, RegistryExact, LaunchLocals, ServeLocals, SendOnOpen
<1>3. AnswersAsked /\ AnswerIsOwn
  BY DEF AnswersAsked, AnswerIsOwn
<1>4. /\ ClosedAtEnd /\ HandshakeFirst /\ BufwOwned
      /\ HijackExclusive /\ ServerView
  BY DEF ClosedAtEnd, HandshakeFirst, BufwOwned, HijackExclusive, ServerView
<1> QED
  BY <1>1, <1>2, <1>3, <1>4 DEF Joint, Discipline

\* The types are kept by the serve goroutine ...
LEMMA ServeTypes ==
    ASSUME IInv, ServeStep
    PROVE  TypeOK'
<1> USE ConnAssumption DEF TypeOK, ServeLocals, LaunchLocals, Discipline,
                           Joint, IInv, ServePcs, LaunchPcs, InFlight, Goto,
                           TrackedIn, Untracking
<1>1. CASE Handshake
  BY <1>1
     DEF Handshake, locals, launchVars, netVars, trackVars, serverVars, outer
<1>2. CASE HandshakeReturn
  BY <1>2
     DEF HandshakeReturn, Move, locals, connVars, launchVars, inner, netVars,
         trackVars, serverVars, outer
<1>3. CASE Top
  BY <1>3
     DEF Top, Move, locals, connVars, launchVars, inner, netVars, trackVars,
         serverVars, outer
<1>4. CASE ReadLine
  <2>1. inq # <<>> => Head(inq) \in Lines /\ Tail(inq) \in Seq(Lines)
    BY QueueRead
  <2> QED
    BY <1>4, <2>1
       DEF ReadLine, connVars, launchVars, inner, trackVars, serverVars
<1>5. CASE ReadFail
  <2>1. Move("read", "exit") \/ Move("idle", "exit")
    BY <1>5, Zenon DEF ReadFail
  <2>2. spc' = "exit" /\ UNCHANGED <<locals, inner, outer>>
    BY <2>1 DEF Move
  <2> QED
    BY <2>2
       DEF locals, connVars, launchVars, inner, netVars, trackVars, serverVars,
           outer
<1>6. CASE IdleWait
  <2>1. inq # <<>> => Tail(inq) \in Seq(Lines)
    BY QueueRead
  <2>2. inq' \in {inq, Tail(inq)} /\ inq # <<>>
    BY <1>6 DEF IdleWait
  <2>3. spc' \in {"idle", "top"}
    BY <1>6 DEF IdleWait
  <2>4. UNCHANGED <<locals, inner, sock, gone, asked, trackVars, serverVars>>
    BY <1>6 DEF IdleWait
  <2> QED
    BY <2>1, <2>2, <2>3, <2>4
       DEF locals, inner, connVars, launchVars, trackVars, serverVars
<1>7. CASE ParseRequest
  BY <1>7
     DEF ParseRequest, SetState, connVars, launchVars, netVars, serverVars,
         Lines, Plain, Answer, NoLine
<1>8. CASE ParseMalformed
  <2>1. clash' \in BOOLEAN
    BY <1>8, Zenon DEF ParseMalformed, LaunchWriting
  <2> QED
    BY <1>8, <2>1
       DEF ParseMalformed, connVars, launchVars, netVars, trackVars,
           serverVars, outer, Lines, Plain, Answer, NoLine
<1>9. CASE ParseOther
  BY <1>9
     DEF ParseOther, BecomeIdle, SetState, connVars, launchVars, inner,
         netVars, trackVars, serverVars, Lines, Plain, Answer, NoLine
<1>10. CASE DeliverLock
  BY <1>10
     DEF DeliverLock, Addressee, MuFree, connVars, launchVars, netVars,
         trackVars, serverVars, outer, Lines, Plain, Answer, NoLine
<1>11. CASE DeliverSend
  BY <1>11
     DEF DeliverSend, BecomeIdle, SetState, Receptive, connVars, netVars,
         serverVars, Lines, Plain, Answer, NoLine
<1>12. CASE RawRead
  BY <1>12
     DEF RawRead, locals, serveVars, connVars, launchVars, inner, trackVars,
         serverVars
<1>13. CASE RawReturn
  <2>1. raw' \in BOOLEAN
    BY <1>13, Zenon DEF RawReturn
  <2> QED
    BY <1>13, <2>1
       DEF RawReturn, BecomeIdle, SetState, locals, launchVars, netVars,
           serverVars
<1>14. CASE RawFail
  BY <1>14
     DEF RawFail, Move, locals, connVars, launchVars, inner, netVars,
         trackVars, serverVars, outer
<1>15. CASE HijackTake \/ HijackLeave
  <2>1. CASE HijackTake
    <3>1. hijacked' \in BOOLEAN
      BY <2>1, Zenon DEF HijackTake
    <3> QED
      BY <2>1, <3>1
         DEF HijackTake, locals, launchVars, netVars, trackVars, serverVars,
             outer
  <2>2. CASE HijackLeave
    <3>1. <<>> \in Seq(Lines)
      BY EmptySeq
    <3>2. tracked' \in BOOLEAN
      BY <2>2, Zenon DEF HijackLeave, SetState, TrackedIn
    <3> QED
      BY <2>2, <3>1, <3>2
         DEF HijackLeave, SetState, locals, connVars, launchVars, serverVars
  <2> QED
    BY <1>15, <2>1, <2>2
<1>16. CASE RawControl
  BY <1>16
     DEF RawControl, locals, serveVars, launchVars, netVars, trackVars,
         serverVars, outer
<1>17. ASSUME NEW l \in Launchers, HandlerLaunch(l) PROVE TypeOK'
  BY <1>17
     DEF HandlerLaunch, connVars, netVars, trackVars, serverVars, outer
<1>18. CASE HandlerResume
  BY <1>18
     DEF HandlerResume, connVars, launchVars, inner, netVars, trackVars,
         serverVars, outer
<1>19. CASE HandlerAbandon
  BY <1>19
     DEF HandlerAbandon, Move, locals, connVars, launchVars, inner, netVars,
         trackVars, serverVars, outer
<1>20. CASE StartReply
  <2>1. clash' \in BOOLEAN
    BY <1>20, Zenon DEF StartReply, LaunchWriting
  <2> QED
    BY <1>20, <2>1
       DEF StartReply, connVars, launchVars, netVars, trackVars, serverVars,
           outer
<1>21. CASE ReturnWritten
  BY <1>21
     DEF ReturnWritten, BecomeIdle, SetState, locals, connVars, launchVars,
         inner, netVars, trackVars, serverVars
<1>22. CASE FinishReply
  <2>1. clash' \in BOOLEAN /\ closing' \in BOOLEAN
    BY <1>22, Zenon DEF FinishReply, LaunchWriting
  <2> QED
    BY <1>22, <2>1
       DEF FinishReply, BecomeIdle, SetState, WriteFails, WriteReturns,
           CloseWrite, connVars, launchVars, trackVars, serverVars
<1>23. CASE FinishBad
  BY <1>23
     DEF FinishBad, WriteFails, WriteReturns, CloseWrite, locals, connVars,
         launchVars, trackVars, serverVars
<1>24. CASE Linger
  BY <1>24
     DEF Linger, Move, locals, connVars, launchVars, inner, netVars,
         trackVars, serverVars, outer
<1>25. CASE Exit
  BY <1>25
     DEF Exit, locals, launchVars, netVars, trackVars, serverVars, outer
<1>26. CASE CloseConn
  <2>1. closed' \in BOOLEAN /\ tracked' \in BOOLEAN
    <3>1. CASE ctx = "none"
      BY <1>26, <3>1 DEF CloseConn, trackVars
    <3>2. CASE ctx # "none"
      BY <1>26, <3>2 DEF CloseConn, SetState
    <3> QED
      BY <3>1, <3>2
  <2>2. /\ spc' \in ServePcs /\ mu' \in {mu, Serve}
        /\ connState' \in {connState, "Closed"}
    BY <1>26 DEF CloseConn, SetState, trackVars
  <2> QED
    BY <1>26, <2>1, <2>2
       DEF CloseConn, locals, launchVars, netVars, serverVars
<1>27. CASE CloseSocket
  <2>1. <<>> \in Seq(Lines)
    BY EmptySeq
  <2> QED
    BY <1>27, <2>1
       DEF CloseSocket, locals, connVars, launchVars, trackVars, serverVars
<1> QED
  BY <1>1, <1>2, <1>3, <1>4, <1>5, <1>6, <1>7, <1>8, <1>9, <1>10, <1>11,
     <1>12, <1>13, <1>14, <1>15, <1>16, <1>17, <1>18, <1>19, <1>20, <1>21,
     <1>22, <1>23, <1>24, <1>25, <1>26, <1>27
     DEF ServeStep, ServeRuns, ServeLocks

\* ... by a launcher ...
LEMMA LaunchTypes ==
    ASSUME IInv, NEW l \in Launchers, LaunchStep(l)
    PROVE  TypeOK'
<1> USE ConnAssumption DEF TypeOK, ServeLocals, LaunchLocals, Discipline,
                           Joint, IInv, ServePcs, LaunchPcs, InFlight, Goto,
                           TrackedIn, Untracking
<1>1. CASE LaunchCall(l)
  BY <1>1
     DEF LaunchCall, LaunchMove, At, locals, serveVars, connVars, netVars,
         trackVars, serverVars, outer
<1>2. CASE LaunchEnter(l)
  BY <1>2
     DEF LaunchEnter, At, MuFree, CanLaunch, locals, serveVars, connVars,
         netVars, trackVars, serverVars, outer
<1>3. CASE LaunchPrepFail(l)
  BY <1>3
     DEF LaunchPrepFail, At, locals, serveVars, connVars, netVars, trackVars,
         serverVars, outer
<1>4. CASE LaunchRegister(l)
  <2>1. ServeWriting \in BOOLEAN
    BY DEF ServeWriting
  <2>2. clash' \in BOOLEAN
    BY <1>4, <2>1, Zenon DEF LaunchRegister
  <2> QED
    BY <1>4, <2>2
       DEF LaunchRegister, At, Drawable, locals, serveVars, connVars,
           netVars, trackVars, serverVars, outer
<1>5. CASE LaunchWriteFail(l)
  BY <1>5
     DEF LaunchWriteFail, At, Leave, WriteFails, locals, serveVars, connVars,
         netVars, trackVars, serverVars, outer
<1>6. CASE LaunchWritten(l)
  BY <1>6
     DEF LaunchWritten, At, WriteReturns, locals, serveVars, connVars,
         trackVars, serverVars
<1>7. CASE LaunchPark(l)
  BY <1>7
     DEF LaunchPark, LaunchMove, At, locals, serveVars, connVars, netVars,
         trackVars, serverVars, outer
<1>8. CASE LaunchGiveUp(l)
  <2>1. LaunchMove(l, "unlocked", "relock") \/ LaunchMove(l, "select", "relock")
    BY <1>8, Zenon DEF LaunchGiveUp
  <2>2. lpc' = [lpc EXCEPT ![l] = "relock"]
    BY <2>1 DEF LaunchMove
  <2>3. UNCHANGED <<serveVars, mu, connVars, bufw, activeReq, nonce, got,
                    handed, clash, outer>>
    BY <2>1, Zenon DEF LaunchMove
  <2> QED
    BY <2>2, <2>3
       DEF locals, serveVars, connVars, netVars, trackVars, serverVars, outer
<1>9. CASE LaunchReturn(l)
  BY <1>9
     DEF LaunchReturn, At, Leave, MuFree, locals, serveVars, connVars,
         netVars, trackVars, serverVars, outer
<1> QED
  BY <1>1, <1>2, <1>3, <1>4, <1>5, <1>6, <1>7, <1>8, <1>9
     DEF LaunchStep, LaunchRuns, LaunchLocks

\* ... by the device and the owner of the server.
LEMMA OtherTypes ==
    ASSUME IInv, DeviceStep \/ ServerStep
    PROVE  TypeOK'
<1> USE ConnAssumption DEF TypeOK, ServeLocals, LaunchLocals, Discipline,
                           Joint, IInv, ServePcs, LaunchPcs, InFlight, Goto,
                           TrackedIn, Untracking
<1>1. CASE DeviceSend
  <2>1. DeviceLines \subseteq Lines
    BY DEF DeviceLines, Lines
  <2>2. \A m \in Lines : Append(inq, m) \in Seq(Lines)
    BY QueueSent
  <2> QED
    BY <1>1, <2>1, <2>2
       DEF DeviceSend, locals, serveVars, connVars, launchVars, inner,
           trackVars, serverVars
<1>2. CASE DeviceClose
  BY <1>2
     DEF DeviceClose, locals, serveVars, connVars, launchVars, inner,
         trackVars, serverVars
<1>3. CASE ShutdownStart
  BY <1>3
     DEF ShutdownStart, locals, serveVars, connVars, launchVars, inner,
         netVars, trackVars
<1>4. CASE ShutdownReturn
  <2>1. shutting' \in BOOLEAN
    BY <1>4, Zenon DEF ShutdownReturn
  <2> QED
    BY <1>4, <2>1
       DEF ShutdownReturn, locals, serveVars, connVars, launchVars, inner,
           netVars, trackVars
<1>5. CASE SweepStart
  BY <1>5
     DEF SweepStart, Closable, locals, serveVars, connVars, launchVars,
         inner, netVars, trackVars
<1>6. CASE SweepClose
  <2>1. sweeping' \in BOOLEAN /\ tracked' \in BOOLEAN
    BY <1>6, Zenon DEF SweepClose, Cut
  <2> QED
    BY <1>6, <2>1
       DEF SweepClose, Cut, locals, serveVars, connVars, launchVars, inner
<1>7. CASE ServerClose
  <2>1. tracked' \in BOOLEAN
    BY <1>7, Zenon DEF ServerClose, Cut
  <2> QED
    BY <1>7, <2>1
       DEF ServerClose, Cut, locals, serveVars, connVars, launchVars, inner,
           serverVars
<1>8. CASE SetKeepAlives
  BY <1>8
     DEF SetKeepAlives, locals, serveVars, connVars, launchVars, inner,
         netVars, trackVars
<1> QED
  BY <1>1, <1>2, <1>3, <1>4, <1>5, <1>6, <1>7, <1>8
     DEF DeviceStep, ServerStep, ShutdownPoll, KeepAliveDrop

\* The rest of the invariant is kept by the serve goroutine ...
LEMMA ServeJoint ==
    ASSUME IInv, TypeOK', ServeStep
    PROVE  Joint'
<1> USE ConnAssumption DEF TypeOK, Joint, IInv, Discipline, MutexOwned,
                           RegistryExact, LaunchLocals, ServeLocals,
                           SendOnOpen, AnswersAsked, AnswerIsOwn,
                           ClosedAtEnd, HandshakeFirst, BufwOwned,
                           HijackExclusive, ServerView, InFlight, Critical,
                           InLaunch, ServePcs, LaunchPcs, Goto, TrackedIn,
                           Untracking, Running
<1>1. CASE Handshake
  BY <1>1
     DEF Handshake, locals, launchVars, netVars, trackVars, serverVars, outer
<1>2. CASE HandshakeReturn
  BY <1>2
     DEF HandshakeReturn, Move, locals, connVars, launchVars, inner, netVars,
         trackVars, serverVars, outer
<1>3. CASE Top
  BY <1>3
     DEF Top, Move, locals, connVars, launchVars, inner, netVars, trackVars,
         serverVars, outer
<1>4. CASE ReadLine
  <2>1. Head(inq) \in Lines /\ Head(inq) = inq[1] /\ 1 \in 1 .. Len(inq)
    BY <1>4, QueueRead DEF ReadLine
  <2>2. \A i \in 1 .. Len(inq') : \E j \in 1 .. Len(inq) : inq'[i] = inq[j]
    BY <1>4, QueueRead DEF ReadLine
  <2>3. /\ spc = "read"
        /\ \/ spc' = "top" /\ line' = line
           \/ spc' = "parse" /\ line' = Head(inq)
    BY <1>4 DEF ReadLine
  <2>4. UNCHANGED <<target, waiting, closing, inner, asked, sock, trackVars,
                    serverVars>>
    BY <1>4 DEF ReadLine
  <2>5. AnswersAsked'
    BY <2>1, <2>2, <2>3, <2>4
  <2>6. Head(inq) # NoLine
    BY <2>1, NoneIsNoLine
  <2> QED
    BY <2>3, <2>4, <2>5, <2>6
       DEF inner, connVars, launchVars, trackVars, serverVars
<1>5. CASE ReadFail
  BY <1>5
     DEF ReadFail, Move, locals, connVars, launchVars, inner, netVars,
         trackVars, serverVars, outer
<1>6. CASE IdleWait
  <2>1. \A i \in 1 .. Len(Tail(inq)) :
           \E j \in 1 .. Len(inq) : Tail(inq)[i] = inq[j]
    BY <1>6, QueueRead DEF IdleWait
  <2>2. /\ spc = "idle" /\ spc' \in {"idle", "top"}
        /\ inq' \in {inq, Tail(inq)}
    BY <1>6 DEF IdleWait
  <2>3. UNCHANGED <<locals, inner, sock, gone, asked, trackVars, serverVars>>
    BY <1>6 DEF IdleWait
  <2>4. \A i \in 1 .. Len(inq') : \E j \in 1 .. Len(inq) : inq'[i] = inq[j]
    <3>1. CASE inq' = inq
      BY <3>1
    <3>2. CASE inq' = Tail(inq)
      BY <2>1, <3>2
    <3> QED
      BY <2>2, <3>1, <3>2
  <2>5. AnswersAsked'
    BY <2>3, <2>4 DEF locals
  <2> QED
    BY <2>2, <2>3, <2>5
       DEF locals, inner, connVars, launchVars, trackVars, serverVars
<1>7. CASE ParseRequest
  BY <1>7
     DEF ParseRequest, SetState, connVars, launchVars, netVars, serverVars,
         Lines, Plain, Answer, NoLine
<1>8. CASE ParseMalformed
  BY <1>8
     DEF ParseMalformed, connVars, launchVars, netVars, trackVars,
         serverVars, outer, Lines, Plain, Answer, NoLine
<1>9. CASE ParseOther
  BY <1>9
     DEF ParseOther, BecomeIdle, SetState, connVars, launchVars, inner,
         netVars, trackVars, serverVars, Lines, Plain, Answer, NoLine
<1>10. CASE DeliverLock
  BY <1>10
     DEF DeliverLock, Addressee, MuFree, connVars, launchVars, netVars,
         trackVars, serverVars, outer, Lines, Plain, Answer, NoLine
<1>11. CASE DeliverSend
  BY <1>11
     DEF DeliverSend, BecomeIdle, SetState, Receptive, connVars, netVars,
         serverVars, Lines, Plain, Answer, NoLine
<1>12. CASE RawRead
  BY <1>12
     DEF RawRead, locals, serveVars, connVars, launchVars, inner, trackVars,
         serverVars
<1>13. CASE RawReturn
  BY <1>13
     DEF RawReturn, BecomeIdle, SetState, locals, launchVars, netVars,
         serverVars
<1>14. CASE RawFail
  BY <1>14
     DEF RawFail, Move, locals, connVars, launchVars, inner, netVars,
         trackVars, serverVars, outer
<1>15. CASE HijackTake \/ HijackLeave
  <2>1. CASE HijackTake
    BY <2>1
       DEF HijackTake, CanHijack, MuFree, locals, launchVars, netVars,
           trackVars, serverVars, outer
  <2>2. CASE HijackLeave
    BY <2>2
       DEF HijackLeave, SetState, locals, connVars, launchVars, serverVars
  <2> QED
    BY <1>15, <2>1, <2>2
<1>16. CASE RawControl
  BY <1>16
     DEF RawControl, locals, serveVars, launchVars, netVars, trackVars,
         serverVars, outer
<1>17. ASSUME NEW l \in Launchers, HandlerLaunch(l) PROVE Joint'
  BY <1>17
     DEF HandlerLaunch, connVars, netVars, trackVars, serverVars, outer
<1>18. CASE HandlerResume
  BY <1>18
     DEF HandlerResume, connVars, launchVars, inner, netVars, trackVars,
         serverVars, outer
<1>19. CASE HandlerAbandon
  BY <1>19
     DEF HandlerAbandon, Move, locals, connVars, launchVars, inner, netVars,
         trackVars, serverVars, outer
<1>20. CASE StartReply
  BY <1>20
     DEF StartReply, connVars, launchVars, netVars, trackVars, serverVars,
         outer
<1>21. CASE ReturnWritten
  BY <1>21
     DEF ReturnWritten, BecomeIdle, SetState, locals, connVars, launchVars,
         inner, netVars, trackVars, serverVars
<1>22. CASE FinishReply
  BY <1>22
     DEF FinishReply, BecomeIdle, SetState, WriteFails, WriteReturns,
         CloseWrite, connVars, launchVars, trackVars, serverVars
<1>23. CASE FinishBad
  BY <1>23
     DEF FinishBad, WriteFails, WriteReturns, CloseWrite, locals, connVars,
         launchVars, trackVars, serverVars
<1>24. CASE Linger
  BY <1>24
     DEF Linger, Move, locals, connVars, launchVars, inner, netVars,
         trackVars, serverVars, outer
<1>25. CASE Exit
  BY <1>25
     DEF Exit, locals, launchVars, netVars, trackVars, serverVars, outer
<1>26. CASE CloseConn
  BY <1>26
     DEF CloseConn, SetState, MuFree, locals, launchVars, netVars, trackVars,
         serverVars
<1>27. CASE CloseSocket
  BY <1>27
     DEF CloseSocket, locals, connVars, launchVars, trackVars, serverVars
<1> QED
  BY <1>1, <1>2, <1>3, <1>4, <1>5, <1>6, <1>7, <1>8, <1>9, <1>10, <1>11,
     <1>12, <1>13, <1>14, <1>15, <1>16, <1>17, <1>18, <1>19, <1>20, <1>21,
     <1>22, <1>23, <1>24, <1>25, <1>26, <1>27
     DEF ServeStep, ServeRuns, ServeLocks

\* ... by a launcher ...
LEMMA LaunchJoint ==
    ASSUME IInv, TypeOK', NEW l \in Launchers, LaunchStep(l)
    PROVE  Joint'
<1> USE ConnAssumption DEF TypeOK, Joint, IInv, Discipline, MutexOwned,
                           RegistryExact, LaunchLocals, ServeLocals,
                           SendOnOpen, AnswersAsked, AnswerIsOwn,
                           ClosedAtEnd, HandshakeFirst, BufwOwned,
                           HijackExclusive, ServerView, InFlight, Critical,
                           InLaunch, ServePcs, LaunchPcs, Goto, TrackedIn,
                           Untracking, Running
<1>1. CASE LaunchCall(l)
  BY <1>1
     DEF LaunchCall, LaunchMove, At, locals, serveVars, connVars, netVars,
         trackVars, serverVars, outer
<1>2. CASE LaunchEnter(l)
  <2>1. CASE CanLaunch
    BY <1>2, <2>1
       DEF LaunchEnter, At, MuFree, CanLaunch, locals, serveVars, connVars,
           netVars, trackVars, serverVars, outer
  <2>2. CASE ~CanLaunch
    BY <1>2, <2>2
       DEF LaunchEnter, At, MuFree, CanLaunch, locals, serveVars, connVars,
           netVars, trackVars, serverVars, outer
  <2> QED
    BY <2>1, <2>2
<1>3. CASE LaunchPrepFail(l)
  BY <1>3
     DEF LaunchPrepFail, At, locals, serveVars, connVars, netVars, trackVars,
         serverVars, outer
<1>4. CASE LaunchRegister(l)
  BY <1>4
     DEF LaunchRegister, At, Drawable, locals, serveVars, connVars, netVars,
         trackVars, serverVars, outer
<1>5. CASE LaunchWriteFail(l)
  BY <1>5
     DEF LaunchWriteFail, At, Leave, WriteFails, locals, serveVars, connVars,
         netVars, trackVars, serverVars, outer
<1>6. CASE LaunchWritten(l)
  BY <1>6
     DEF LaunchWritten, At, WriteReturns, locals, serveVars, connVars,
         trackVars, serverVars
<1>7. CASE LaunchPark(l)
  BY <1>7
     DEF LaunchPark, LaunchMove, At, locals, serveVars, connVars, netVars,
         trackVars, serverVars, outer
<1>8. CASE LaunchGiveUp(l)
  BY <1>8
     DEF LaunchGiveUp, LaunchMove, At, locals, serveVars, connVars, netVars,
         trackVars, serverVars, outer
<1>9. CASE LaunchReturn(l)
  BY <1>9
     DEF LaunchReturn, At, Leave, MuFree, locals, serveVars, connVars,
         netVars, trackVars, serverVars, outer
<1> QED
  BY <1>1, <1>2, <1>3, <1>4, <1>5, <1>6, <1>7, <1>8, <1>9
     DEF LaunchStep, LaunchRuns, LaunchLocks

\* ... by the device and the owner of the server.
LEMMA OtherJoint ==
    ASSUME IInv, TypeOK', DeviceStep \/ ServerStep
    PROVE  Joint'
<1> USE ConnAssumption DEF TypeOK, Joint, IInv, Discipline, MutexOwned,
                           RegistryExact, LaunchLocals, ServeLocals,
                           SendOnOpen, AnswersAsked, AnswerIsOwn,
                           ClosedAtEnd, HandshakeFirst, BufwOwned,
                           HijackExclusive, ServerView, InFlight, Critical,
                           InLaunch, ServePcs, LaunchPcs, Goto, TrackedIn,
                           Untracking, Running
<1>1. CASE DeviceSend
  <2>1. PICK m \in DeviceLines : inq' = Append(inq, m)
    BY <1>1 DEF DeviceSend
  <2>2. m \in Lines /\ (m.kind = "answer" => m.nonce \in asked)
    BY <2>1 DEF DeviceLines, Lines, Plain, Answer
  <2>3. \A i \in 1 .. Len(inq') :
           inq'[i] = m \/ \E j \in 1 .. Len(inq) : inq'[i] = inq[j]
    BY <2>1, <2>2, QueueSent
  <2> QED
    BY <1>1, <2>2, <2>3
       DEF DeviceSend, locals, serveVars, connVars, launchVars, inner,
           trackVars, serverVars
<1>2. CASE DeviceClose
  BY <1>2
     DEF DeviceClose, locals, serveVars, connVars, launchVars, inner,
         trackVars, serverVars
<1>3. CASE ShutdownStart
  BY <1>3
     DEF ShutdownStart, locals, serveVars, connVars, launchVars, inner,
         netVars, trackVars
<1>4. CASE ShutdownReturn
  BY <1>4
     DEF ShutdownReturn, locals, serveVars, connVars, launchVars, inner,
         netVars, trackVars
<1>5. CASE SweepStart
  BY <1>5
     DEF SweepStart, Closable, locals, serveVars, connVars, launchVars,
         inner, netVars, trackVars
<1>6. CASE SweepClose
  BY <1>6
     DEF SweepClose, Cut, locals, serveVars, connVars, launchVars, inner
<1>7. CASE ServerClose
  BY <1>7
     DEF ServerClose, Cut, locals, serveVars, connVars, launchVars, inner,
         serverVars
<1>8. CASE SetKeepAlives
  BY <1>8
     DEF SetKeepAlives, locals, serveVars, connVars, launchVars, inner,
         netVars, trackVars
<1> QED
  BY <1>1, <1>2, <1>3, <1>4, <1>5, <1>6, <1>7, <1>8
     DEF DeviceStep, ServerStep, ShutdownPoll, KeepAliveDrop

\* Every step keeps the invariant.
LEMMA NextInv == IInv /\ [Next]_vars => IInv'
<1> SUFFICES ASSUME IInv, [Next]_vars PROVE TypeOK' /\ Joint'
  BY DEF IInv
<1>1. CASE ServeStep
  BY <1>1, ServeTypes, ServeJoint
<1>2. CASE \E l \in Launchers : LaunchStep(l)
  BY <1>2, LaunchTypes, LaunchJoint
<1>3. CASE DeviceStep \/ ServerStep
  BY <1>3, OtherTypes, OtherJoint
<1>4. CASE UNCHANGED vars
  <2>1. TypeOK'
    BY <1>4 DEF IInv, TypeOK, vars, serveVars, locals, inner, connVars,
                launchVars, outer, netVars, trackVars, serverVars
  <2>2. Joint'
    BY <1>4 DEF IInv, Joint, Discipline, MutexOwned, RegistryExact,
                LaunchLocals,
                ServeLocals, SendOnOpen, AnswersAsked, AnswerIsOwn,
                ClosedAtEnd, HandshakeFirst, BufwOwned, HijackExclusive,
                ServerView, InLaunch, vars, serveVars, locals, inner,
                connVars, launchVars, outer, netVars, trackVars, serverVars
  <2> QED
    BY <2>1, <2>2
<1> QED
  BY <1>1, <1>2, <1>3, <1>4 DEF Next, Finished

\* The conjunction is an invariant of the connection.
THEOREM Inductive == Spec => []IInv
<1>1. Init => IInv
  BY InitInv
<1>2. IInv /\ [Next]_vars => IInv'
  BY NextInv
<1> QED
  BY <1>1, <1>2, PTL DEF Spec

-----------------------------------------------------------------------------
(* The safety properties. *)

\* The goroutines keep their discipline.
THEOREM DisciplineKept == Spec => []Discipline
<1>1. IInv => Discipline
  BY DEF IInv, Joint
<1> QED
  BY <1>1, Inductive, PTL

\* Every variable keeps its type; in particular activeReq never gets a key
\* that is no nonce, and the mutex has one owner or none.
THEOREM TypeCorrect == Spec => []TypeOK
<1>1. IInv => TypeOK
  BY DEF IInv
<1> QED
  BY <1>1, Inductive, PTL

\* A hijacked connection has no launch and no reader of the server.
THEOREM HijackIsExclusive == Spec => []HijackExclusive
<1>1. IInv => HijackExclusive
  BY DEF IInv, Joint
<1> QED
  BY <1>1, Inductive, PTL

\* activeReq is the set of launches in flight, each under its own nonce.
THEOREM RegistryIsExact == Spec => []RegistryExact
<1>1. IInv => RegistryExact
  BY DEF IInv, Joint
<1> QED
  BY <1>1, Inductive, PTL

\* serve never sends on a channel its launch has closed.
THEOREM NoSendOnClosed == Spec => []SendOnOpen
<1>1. IInv => SendOnOpen
  BY DEF IInv, Joint
<1> QED
  BY <1>1, Inductive, PTL

\* No launch gets the answer to another.
THEOREM AnswersAreOwn == Spec => []AnswerIsOwn
<1>1. IInv => AnswerIsOwn
  BY DEF IInv, Joint
<1> QED
  BY <1>1, Inductive, PTL

\* Nobody writes through a bufw that was given back: a launch holds conn.mu
\* since its checks, the serve goroutine is the only one to hijack or close.
THEOREM WriterIsAlive == Spec => []WriterAlive
<1>1. IInv => WriterAlive
  <2> SUFFICES ASSUME IInv, bufw = "nil" PROVE ~ServeWriting /\ ~LaunchWriting
    BY DEF WriterAlive
  <2>1. hijacked \/ closed \/ ctx = "none"
    BY DEF IInv, Joint, Discipline, BufwOwned
  <2>2. CASE hijacked
    BY <2>2 DEF IInv, Joint, Discipline, HijackExclusive,
                ServeWriting, LaunchWriting
  <2>3. CASE closed
    BY <2>3 DEF IInv, Joint, Discipline, ClosedAtEnd, Critical,
                ServeWriting, LaunchWriting
  <2>4. CASE ctx = "none"
    BY <2>4 DEF IInv, Joint, Discipline, HandshakeFirst,
                ServeWriting, LaunchWriting
  <2> QED
    BY <2>1, <2>2, <2>3, <2>4
<1> QED
  BY <1>1, Inductive, PTL

\* A connection whose serve has returned is forgotten, cancelled and closed,
\* or another's.
THEOREM ConnNeverLeaks == Spec => []NoConnLeak
<1>1. IInv => NoConnLeak
  BY DEF IInv, TypeOK, Joint, Discipline, HandshakeFirst, ServerView,
         NoConnLeak
<1> QED
  BY <1>1, Inductive, PTL

-----------------------------------------------------------------------------
(* What a step may never do, and the abstract life of a connection. *)

\* Steps of the serve goroutine that the server does not see.
QuietServe ==
    \/ Handshake \/ HandshakeReturn \/ Top \/ ReadLine \/ ReadFail \/ IdleWait
    \/ ParseMalformed \/ DeliverLock \/ RawRead \/ RawFail
    \/ HijackTake \/ RawControl
    \/ (\E l \in Launchers : HandlerLaunch(l))
    \/ HandlerResume \/ HandlerAbandon \/ StartReply \/ Linger \/ Exit

\* The steps that change what ConnLife looks at, one by one.
LEMMA SeenSteps ==
    ASSUME Next
    PROVE  \/ UNCHANGED <<connState, tracked, sock>>
           \/ ParseRequest \/ ParseOther \/ DeliverSend \/ RawReturn
           \/ HijackLeave \/ ReturnWritten \/ FinishReply \/ FinishBad
           \/ CloseConn \/ CloseSocket \/ SweepClose \/ ServerClose
<1>1. CASE QuietServe
  BY <1>1
     DEF QuietServe, Handshake, HandshakeReturn, Top, ReadLine, ReadFail,
         IdleWait, ParseMalformed, DeliverLock, RawRead, RawFail, HijackTake,
         RawControl, HandlerLaunch, HandlerResume, HandlerAbandon, StartReply,
         Linger, Exit, Move, outer, netVars, trackVars
<1>2. CASE \E l \in Launchers : LaunchStep(l)
  BY <1>2
     DEF LaunchStep, LaunchRuns, LaunchLocks, LaunchCall, LaunchEnter,
         LaunchPrepFail, LaunchRegister, LaunchWriteFail, LaunchWritten,
         LaunchPark, LaunchGiveUp, LaunchReturn, LaunchMove, outer, netVars,
         trackVars
<1>3. CASE DeviceStep
  BY <1>3 DEF DeviceStep, DeviceSend, DeviceClose, trackVars
<1>4. CASE ServerStep
  BY <1>4
     DEF ServerStep, ShutdownStart, ShutdownReturn, SetKeepAlives,
         ShutdownPoll, KeepAliveDrop, SweepStart, netVars, trackVars
<1>5. CASE Finished
  BY <1>5 DEF Finished, vars, outer, netVars, trackVars
<1> QED
  BY <1>1, <1>2, <1>3, <1>4, <1>5
     DEF Next, ServeStep, ServeRuns, ServeLocks, QuietServe

\* Nothing of the server closes a connection that Hijack has handed over: Close
\* and Shutdown only know tracked ones, and serve is past every write and
\* leaves Close out.
THEOREM HijackedIsLeftAlone == Spec => HijackedSurvives
<1>1. IInv /\ [Next]_vars => [connState = "Hijacked" => sock' = sock]_vars
  <2> SUFFICES ASSUME IInv, Next, connState = "Hijacked" PROVE sock' = sock
    OBVIOUS
  <2>1. ~tracked /\ ~sweeping /\ spc \in {"handler", "wait", "exit", "ended"}
    BY DEF IInv, TypeOK, Joint, Discipline, HijackExclusive, ServerView
  <2>2. CASE ParseRequest \/ ParseOther \/ DeliverSend \/ RawReturn
    BY <2>2
       DEF ParseRequest, ParseOther, DeliverSend, RawReturn, netVars
  <2>3. CASE ReturnWritten
    BY <2>3 DEF ReturnWritten, netVars
  <2>4. CASE \/ HijackLeave \/ FinishReply \/ FinishBad
             \/ CloseConn \/ CloseSocket
    BY <2>1, <2>4 DEF HijackLeave, FinishReply, FinishBad, CloseConn,
                      CloseSocket
  <2>5. CASE SweepClose \/ ServerClose
    BY <2>1, <2>5 DEF SweepClose, ServerClose
  <2> QED
    BY <2>2, <2>3, <2>4, <2>5, SeenSteps
<1> QED
  BY <1>1, Inductive, PTL DEF Spec, HijackedSurvives

\* closeIdleConns picks idle connections only, and those run no handler.
THEOREM SweepSpares == Spec => SweepSparesHandler
<1>1. IInv /\ [Next]_vars
        => [ ~sweeping /\ sweeping'
               => spc \notin {"handler", "hijack", "wait", "reply"} ]_vars
  <2> SUFFICES ASSUME IInv, Next, ~sweeping, sweeping'
               PROVE  spc \notin {"handler", "hijack", "wait", "reply"}
    OBVIOUS
  <2>1. SweepStart
    <3>1. CASE QuietServe
      BY <3>1
         DEF QuietServe, Handshake, HandshakeReturn, Top, ReadLine, ReadFail,
             IdleWait, ParseMalformed, DeliverLock, RawRead, RawFail,
             HijackTake, RawControl, HandlerLaunch, HandlerResume, HandlerAbandon,
             StartReply, Linger, Exit, Move, outer, serverVars
    <3>2. CASE ServeStep /\ ~QuietServe
      BY <3>2
         DEF QuietServe, ServeStep, ServeRuns, ServeLocks, ParseRequest,
             ParseOther, DeliverSend, RawReturn, HijackLeave, ReturnWritten,
             FinishReply, FinishBad, CloseConn, CloseSocket, serverVars
    <3>3. CASE \E l \in Launchers : LaunchStep(l)
      BY <3>3
         DEF LaunchStep, LaunchRuns, LaunchLocks, LaunchCall, LaunchEnter,
             LaunchPrepFail, LaunchRegister, LaunchWriteFail, LaunchWritten,
             LaunchPark, LaunchGiveUp, LaunchReturn, LaunchMove, outer,
             serverVars
    <3>4. CASE DeviceStep \/ Finished
      BY <3>4 DEF DeviceStep, DeviceSend, DeviceClose, Finished, vars, outer,
                  serverVars
    <3>5. CASE ServerStep
      BY <3>5
         DEF ServerStep, ShutdownStart, ShutdownReturn, ServerClose,
             SetKeepAlives, ShutdownPoll, KeepAliveDrop, SweepClose,
             serverVars
    <3> QED
      BY <3>1, <3>2, <3>3, <3>4, <3>5 DEF Next
  <2>2. connState = "Idle"
    BY <2>1 DEF SweepStart, Closable
  <2> QED
    BY <2>2 DEF IInv, Joint, Discipline, ServerView
<1> QED
  BY <1>1, Inductive, PTL DEF Spec, SweepSparesHandler

\* A launch that registers has passed its checks under the same lock.
THEOREM NoLaunchIsLate == Spec => NoLateLaunch
<1> DEFINE Over == \/ closed \/ hijacked
                   \/ raw /\ \A l \in Launchers : lpc[l] # "prep"
           OnlyLeaves == \A n \in Nonces :
                            activeReq'[n] \in {activeReq[n], NoLauncher}
<1>1. IInv /\ [Next]_vars => [Over => OnlyLeaves]_vars
  <2> SUFFICES ASSUME IInv, Next, Over PROVE OnlyLeaves
    OBVIOUS
  <2>1. \A l \in Launchers : lpc[l] # "prep"
    BY DEF IInv, Joint, Discipline, ClosedAtEnd, HijackExclusive, Critical
  <2>2. CASE ServeStep
    BY <2>2
       DEF ServeStep, ServeRuns, ServeLocks, Handshake, HandshakeReturn, Top,
           ReadLine, ReadFail, IdleWait, ParseRequest, ParseMalformed,
           ParseOther, DeliverLock, DeliverSend, RawRead, RawReturn, RawFail,
           HijackTake, HijackLeave, RawControl, HandlerLaunch, HandlerResume,
           HandlerAbandon, StartReply, ReturnWritten, FinishReply, FinishBad,
           Linger, Exit, CloseConn, CloseSocket, Move, inner, launchVars
  <2>3. CASE \E l \in Launchers : LaunchStep(l)
    <3>1. PICK l \in Launchers : LaunchStep(l)
      BY <2>3
    <3>2. CASE LaunchWriteFail(l) \/ LaunchReturn(l)
      BY <3>2 DEF LaunchWriteFail, LaunchReturn, Leave, IInv, TypeOK
    <3>3. CASE LaunchRegister(l)
      BY <2>1, <3>3 DEF LaunchRegister, At
    <3> QED
      BY <3>1, <3>2, <3>3
         DEF LaunchStep, LaunchRuns, LaunchLocks, LaunchCall, LaunchEnter,
             LaunchPrepFail, LaunchWritten, LaunchPark, LaunchGiveUp,
             LaunchMove
  <2>4. CASE DeviceStep \/ ServerStep \/ Finished
    BY <2>4
       DEF DeviceStep, DeviceSend, DeviceClose, ServerStep, ShutdownStart,
           ShutdownReturn, ServerClose, SetKeepAlives, ShutdownPoll,
           KeepAliveDrop, SweepStart, SweepClose, Cut, Finished, vars, inner,
           launchVars
  <2> QED
    BY <2>2, <2>3, <2>4 DEF Next
<1> QED
  BY <1>1, Inductive, PTL DEF Spec, NoLateLaunch

\* The connection in detail lives the life ConnLife describes.
THEOREM LivesItsLife == Spec => LifeSpec
<1>1. Init => Life!Init
  BY DEF Init, Life!Init
<1>2. IInv /\ [Next]_vars => [Life!Next]_(Life!vars)
  <2> SUFFICES ASSUME IInv, Next
               PROVE  Life!Next \/ UNCHANGED Life!vars
    BY DEF vars, outer, netVars, trackVars, Life!vars
  <2> USE DEF Life!Next, Life!vars, Life!Live, SetState, TrackedIn, Untracking
  <2>1. spc \notin {"shut", "ended"} /\ ~hijacked => connState \in Life!Live
    BY DEF IInv, TypeOK, Joint, Discipline, ServerView
  <2>2. CASE UNCHANGED <<connState, tracked, sock>>
    BY <2>2
  <2>3. CASE ParseRequest
    <3>1. Life!Work
      BY <2>1, <2>3
         DEF ParseRequest, Life!Work, netVars, IInv, TypeOK, Joint, Discipline,
             HijackExclusive
    <3> QED
      BY <3>1
  <2>4. CASE ParseOther
    <3>1. Life!Work \/ Life!Rest \/ UNCHANGED Life!vars
      BY <2>1, <2>4
         DEF ParseOther, BecomeIdle, Life!Work, Life!Rest, netVars, trackVars,
             IInv, TypeOK, Joint, Discipline, HijackExclusive
    <3> QED
      BY <3>1
  <2>5. CASE DeliverSend \/ RawReturn
    <3>1. Life!Rest
      BY <2>1, <2>5
         DEF DeliverSend, RawReturn, BecomeIdle, Life!Rest, netVars, IInv,
             TypeOK, Joint, Discipline, HijackExclusive
    <3> QED
      BY <3>1
  <2>6. CASE ReturnWritten \/ FinishReply \/ FinishBad
    <3>1. (sock' # "closed") = (sock # "closed")
      BY <2>6
         DEF ReturnWritten, FinishReply, FinishBad, CloseWrite, netVars, IInv,
             TypeOK
    <3>2. Life!Rest \/ UNCHANGED Life!vars
      BY <2>1, <2>6, <3>1
         DEF ReturnWritten, FinishReply, FinishBad, BecomeIdle, Life!Rest,
             trackVars, IInv, TypeOK, Joint, Discipline, HijackExclusive
    <3> QED
      BY <3>2
  <2>7. CASE HijackLeave
    <3>1. connState = "Active"
      BY <2>7 DEF HijackLeave, IInv, Joint, Discipline, ServerView
    <3>2. Life!Hijack
      BY <2>7, <3>1 DEF HijackLeave, Life!Hijack
    <3> QED
      BY <3>2
  <2>8. CASE CloseConn
    <3>1. Life!Leave \/ UNCHANGED Life!vars
      BY <2>1, <2>8
         DEF CloseConn, Life!Leave, netVars, trackVars, IInv, Joint,
             Discipline, HijackExclusive
    <3> QED
      BY <3>1
  <2>10. CASE CloseSocket
    <3>1. Life!Shut
      BY <2>10
         DEF CloseSocket, Life!Shut, trackVars, IInv, Joint, Discipline,
             ServerView
    <3> QED
      BY <3>1
  <2>9. CASE SweepClose \/ ServerClose
    <3>1. Life!Cut
      BY <2>9
         DEF SweepClose, ServerClose, Cut, Life!Cut, IInv, Joint,
             Discipline, ServerView
    <3> QED
      BY <3>1
  <2> QED
    BY <2>2, <2>3, <2>4, <2>5, <2>6, <2>7, <2>8, <2>9, <2>10, SeenSteps
<1> QED
  BY <1>1, <1>2, Inductive, PTL DEF Spec, LifeSpec, Life!Spec

-----------------------------------------------------------------------------
(* Launches keep the promise of Rpc. *)

Phases == [l \in Launchers |-> LaunchPhase(l)]

\* A step of one launcher, or one that reaches it, moves no other.
LEMMA OnePhase ==
    ASSUME NEW k \in Launchers,
           \A l \in Launchers \ {k} :
              lpc'[l] = lpc[l] /\ got'[l] = got[l] /\ nonce'[l] = nonce[l]
    PROVE  Phases' = [Phases EXCEPT ![k] = LaunchPhase(k)']
<1>1. \A l \in Launchers \ {k} : LaunchPhase(l)' = LaunchPhase(l)
  BY DEF LaunchPhase
<1> QED
  BY <1>1 DEF Phases

\* Steps of the serve goroutine that Rpc does not see, and those it sees.
LEMMA ServeCalls ==
    ASSUME ServeStep
    PROVE  \/ UNCHANGED <<closed, hijacked, raw, asked, lpc, nonce, got>>
           \/ DeliverSend \/ RawReturn \/ RawControl
           \/ HijackTake \/ CloseConn
           \/ \E l \in Launchers : HandlerLaunch(l)
  BY DEF ServeStep, ServeRuns, ServeLocks, Handshake, HandshakeReturn, Top,
         ReadLine, ReadFail, IdleWait, ParseRequest, ParseMalformed,
         ParseOther, DeliverLock, RawRead, RawFail, HijackLeave,
         HandlerResume, HandlerAbandon, StartReply, ReturnWritten,
         FinishReply, FinishBad, Linger, Exit, CloseSocket, Move, inner,
         connVars, launchVars, outer, netVars

LEMMA OthersCalls ==
    ASSUME DeviceStep \/ ServerStep \/ Finished
    PROVE  UNCHANGED <<closed, hijacked, raw, asked, lpc, nonce, got>>
  BY DEF DeviceStep, DeviceSend, DeviceClose, ServerStep, ShutdownStart,
         ShutdownReturn, ServerClose, SetKeepAlives, ShutdownPoll,
         KeepAliveDrop, SweepStart, SweepClose, Cut, Finished, vars, inner,
         connVars, launchVars, outer, netVars

\* What the serve goroutine does to launches: it answers one, or lets nobody in.
LEMMA ServePromise ==
    ASSUME IInv, ServeStep
    PROVE  Calls!Next \/ UNCHANGED Calls!vars
<1> USE DEF Calls!vars
<1>1. CASE UNCHANGED <<closed, hijacked, raw, asked, lpc, nonce, got>>
  BY <1>1 DEF Gate, LaunchPhase
<1>2. CASE \E l \in Launchers : HandlerLaunch(l)
  <2>1. PICK l \in Launchers : HandlerLaunch(l)
    BY <1>2
  <2>2. LaunchPhase(l)' = LaunchPhase(l)
    BY <2>1 DEF HandlerLaunch, LaunchPhase, IInv, TypeOK
  <2>3. Phases' = Phases
    BY <2>1, <2>2, OnePhase DEF HandlerLaunch, Phases, IInv, TypeOK
  <2> QED
    BY <2>1, <2>3 DEF HandlerLaunch, Phases, Gate, connVars, outer, netVars
<1>3. CASE DeliverSend
  <2>1. CASE target # NoLauncher /\ Receptive(target)
    <3>1. /\ target \in Launchers /\ lpc[target] = "select"
          /\ nonce[target] = line.nonce /\ line.nonce \in asked
          /\ nonce[target] # NoNonce
      BY <1>3, <2>1 DEF DeliverSend, Receptive, IInv, TypeOK, Joint,
         SendOnOpen, Discipline, ServeLocals, AnswersAsked, LaunchLocals,
         InFlight
    <3>2. PICK l \in Launchers : l = target
      BY <3>1
    <3>3. /\ lpc' = [lpc EXCEPT ![l] = "relock"]
          /\ got' = [got EXCEPT ![l] = nonce[l]]
          /\ UNCHANGED <<nonce, asked, closed, hijacked, raw>>
      BY <1>3, <2>1, <3>1, <3>2 DEF DeliverSend, connVars, netVars
    <3>4. /\ lpc \in [Launchers -> LaunchPcs]
          /\ got \in [Launchers -> Nonces \cup {NoNonce}]
      BY DEF IInv, TypeOK
    <3>5. /\ lpc'[l] = "relock" /\ got'[l] = nonce'[l]
          /\ got'[l] # NoNonce
      BY <3>1, <3>2, <3>3, <3>4
    <3>6. LaunchPhase(l) = "waiting" /\ LaunchPhase(l)' = "answered"
      BY <3>1, <3>2, <3>5 DEF LaunchPhase
    <3>7. \A k \in Launchers \ {l} :
             lpc'[k] = lpc[k] /\ got'[k] = got[k] /\ nonce'[k] = nonce[k]
      BY <3>3, <3>4
    <3>8. Phases' = [Phases EXCEPT ![l] = "answered"]
      BY <3>6, <3>7, OnePhase
    <3>9. Calls!Answer(l)
      BY <3>1, <3>2, <3>3, <3>6, <3>8
         DEF Calls!Answer, Calls!Goes, Phases, Gate
    <3> QED
      BY <3>9 DEF Calls!Next
  <2>2. CASE ~(target # NoLauncher /\ Receptive(target))
    <3>1. UNCHANGED <<closed, hijacked, raw, asked, lpc, nonce, got>>
      BY <1>3, <2>2 DEF DeliverSend, connVars, netVars
    <3> QED
      BY <1>1, <3>1
  <2> QED
    BY <2>1, <2>2
<1>4. CASE RawControl
  <2>1. Calls!Bar \/ UNCHANGED Calls!vars
    BY <1>4 DEF RawControl, Calls!Bar, Gate, LaunchPhase, launchVars, outer,
                netVars
  <2> QED
    BY <2>1 DEF Calls!Next
<1>5. CASE RawReturn
  <2>1. Calls!Unbar \/ UNCHANGED Calls!vars
    BY <1>5 DEF RawReturn, Calls!Unbar, Gate, LaunchPhase, launchVars, netVars,
                IInv, TypeOK
  <2> QED
    BY <2>1 DEF Calls!Next
<1>6. CASE HijackTake \/ CloseConn
  <2>0. mu = NoLauncher
    BY <1>6 DEF HijackTake, CloseConn, MuFree
  <2>1. \A l \in Launchers : lpc[l] # "prep"
    BY <2>0, ConnAssumption DEF IInv, Joint, Discipline, MutexOwned, Critical
  <2>2. ASSUME NEW l \in Launchers PROVE LaunchPhase(l) # "admitted"
    <3>1. CASE lpc[l] \in {"idle", "lock", "write", "unlocked", "select"}
      BY <3>1 DEF LaunchPhase
    <3>2. CASE lpc[l] = "relock"
      BY <3>2 DEF LaunchPhase
    <3> QED
      BY <2>1, <3>1, <3>2 DEF IInv, TypeOK, LaunchPcs
  <2>3. Gate' = "ended" /\ UNCHANGED <<Phases, nonce, asked>>
    <3>1. (hijacked \/ closed)' /\ UNCHANGED <<lpc, nonce, got, asked>>
      BY <1>6 DEF HijackTake, CloseConn, launchVars, outer, netVars
    <3> QED
      BY <3>1 DEF Gate, Phases, LaunchPhase
  <2>4. Calls!End \/ UNCHANGED Calls!vars
    BY <2>2, <2>3 DEF Calls!End, Gate, Phases
  <2> QED
    BY <2>4 DEF Calls!Next
<1> QED
  BY <1>1, <1>2, <1>3, <1>4, <1>5, <1>6, ServeCalls

\* What a launcher does.
LEMMA LaunchPromise ==
    ASSUME IInv, NEW l \in Launchers, LaunchStep(l)
    PROVE  Calls!Next \/ UNCHANGED Calls!vars
<1> USE DEF IInv, TypeOK, Calls!Goes
<1>1. \A j \in Launchers \ {l} :
         lpc'[j] = lpc[j] /\ got'[j] = got[j] /\ nonce'[j] = nonce[j]
  BY DEF LaunchStep, LaunchRuns, LaunchLocks, LaunchCall, LaunchEnter,
         LaunchPrepFail, LaunchRegister, LaunchWriteFail, LaunchWritten,
         LaunchPark, LaunchGiveUp, LaunchReturn, LaunchMove, Leave
<1>2. Phases' = [Phases EXCEPT ![l] = LaunchPhase(l)'] /\ UNCHANGED Gate
  <2>1. UNCHANGED <<closed, hijacked, raw>>
    BY DEF LaunchStep, LaunchRuns, LaunchLocks, LaunchCall, LaunchEnter,
           LaunchPrepFail, LaunchRegister, LaunchWriteFail, LaunchWritten,
           LaunchPark, LaunchGiveUp, LaunchReturn, LaunchMove, connVars
  <2> QED
    BY <1>1, <2>1, OnePhase DEF Gate
<1>3. CASE LaunchCall(l) \/ LaunchPark(l)
  <2>1. LaunchPhase(l)' = LaunchPhase(l) /\ UNCHANGED <<nonce, asked>>
    BY <1>3 DEF LaunchCall, LaunchPark, LaunchMove, At, LaunchPhase, outer,
                netVars
  <2> QED
    BY <1>2, <2>1 DEF Phases, Calls!vars
<1>4. CASE LaunchEnter(l)
  <2>1. \/ /\ Gate = "open" /\ LaunchPhase(l) = "out"
           /\ LaunchPhase(l)' = "admitted"
        \/ LaunchPhase(l)' = LaunchPhase(l)
    BY <1>4 DEF LaunchEnter, CanLaunch, Gate, At, LaunchPhase
  <2>2. UNCHANGED <<nonce, asked>>
    BY <1>4 DEF LaunchEnter, outer, netVars
  <2>3. Calls!Admit(l) \/ UNCHANGED Calls!vars
    BY <1>2, <2>1, <2>2 DEF Calls!Admit, Calls!vars, Phases
  <2> QED
    BY <2>3 DEF Calls!Next
<1>5. CASE LaunchPrepFail(l)
  <2>1. /\ LaunchPhase(l) = "admitted" /\ LaunchPhase(l)' = "out"
        /\ nonce[l] = NoNonce /\ UNCHANGED <<nonce, asked>>
    BY <1>5 DEF LaunchPrepFail, At, LaunchPhase, outer, netVars, Joint,
                Discipline, LaunchLocals, InFlight
  <2>2. Calls!Return(l)
    BY <1>2, <2>1 DEF Calls!Return, Phases
  <2> QED
    BY <2>2 DEF Calls!Next
<1>6. CASE LaunchRegister(l)
  <2>1. PICK n \in Drawable : nonce' = [nonce EXCEPT ![l] = n]
    BY <1>6 DEF LaunchRegister
  <2>2. n \in Nonces /\ \A j \in Launchers : nonce[j] # n
    BY <2>1, ConnAssumption
       DEF Drawable, Joint, RegistryExact, Discipline, LaunchLocals
  <2>3. /\ LaunchPhase(l) = "admitted" /\ LaunchPhase(l)' = "asking"
        /\ UNCHANGED asked
    BY <1>6 DEF LaunchRegister, At, LaunchPhase, outer, netVars
  <2>4. Calls!Draw(l)
    BY <1>2, <2>1, <2>2, <2>3 DEF Calls!Draw, Phases
  <2> QED
    BY <2>4 DEF Calls!Next
<1>7. CASE LaunchWriteFail(l) \/ LaunchReturn(l)
  <2>1. /\ LaunchPhase(l) \in {"asking", "answered", "failed"}
        /\ LaunchPhase(l)' = "out"
    BY <1>7 DEF LaunchWriteFail, LaunchReturn, Leave, At, LaunchPhase, Joint,
                AnswerIsOwn
  <2>2. nonce' = [nonce EXCEPT ![l] = NoNonce] /\ UNCHANGED asked
    BY <1>7 DEF LaunchWriteFail, LaunchReturn, Leave, outer, netVars
  <2>3. Calls!Return(l)
    BY <1>2, <2>1, <2>2 DEF Calls!Return, Phases
  <2> QED
    BY <2>3 DEF Calls!Next
<1>8. CASE LaunchWritten(l)
  <2>1. LaunchPhase(l) = "asking" /\ LaunchPhase(l)' = "waiting"
    BY <1>8 DEF LaunchWritten, At, LaunchPhase
  <2>2. asked' \in {asked, asked \cup {nonce[l]}} /\ UNCHANGED nonce
    BY <1>8 DEF LaunchWritten
  <2>3. Calls!Send(l)
    BY <1>2, <2>1, <2>2 DEF Calls!Send, Phases
  <2> QED
    BY <2>3 DEF Calls!Next
<1>9. CASE LaunchGiveUp(l)
  <2>1. lpc[l] \in {"unlocked", "select"} /\ got[l] = NoNonce
    BY <1>9 DEF LaunchGiveUp, LaunchMove, At, Joint, Discipline, LaunchLocals
  <2>2. /\ lpc' = [lpc EXCEPT ![l] = "relock"] /\ UNCHANGED <<got, nonce, asked>>
    BY <1>9 DEF LaunchGiveUp, LaunchMove, outer, netVars
  <2>3. lpc'[l] = "relock" /\ got'[l] = NoNonce
    BY <2>1, <2>2
  <2>4. LaunchPhase(l) = "waiting" /\ LaunchPhase(l)' = "failed"
    BY <2>1, <2>3 DEF LaunchPhase
  <2>5. Calls!Fail(l)
    BY <1>2, <2>2, <2>4 DEF Calls!Fail, Phases
  <2> QED
    BY <2>5 DEF Calls!Next
<1> QED
  BY <1>3, <1>4, <1>5, <1>6, <1>7, <1>8, <1>9
     DEF LaunchStep, LaunchRuns, LaunchLocks

\* The launches of a connection are calls as Rpc promises them.
THEOREM LaunchesKeepPromise == Spec => RpcSpec
<1>1. Init => Calls!Init
  BY DEF Init, Calls!Init, Gate, LaunchPhase
<1>2. IInv /\ [Next]_vars => [Calls!Next]_(Calls!vars)
  <2> SUFFICES ASSUME IInv, [Next]_vars
               PROVE  Calls!Next \/ UNCHANGED Calls!vars
    OBVIOUS
  <2>1. CASE ServeStep
    BY <2>1, ServePromise
  <2>2. CASE \E l \in Launchers : LaunchStep(l)
    BY <2>2, LaunchPromise
  <2>3. CASE DeviceStep \/ ServerStep \/ Finished \/ UNCHANGED vars
    <3>1. UNCHANGED <<closed, hijacked, raw, asked, lpc, nonce, got>>
      BY <2>3, OthersCalls DEF vars, inner, connVars, launchVars, outer,
                               netVars
    <3> QED
      BY <3>1 DEF Calls!vars, Gate, LaunchPhase
  <2> QED
    BY <2>1, <2>2, <2>3 DEF Next
<1> QED
  BY <1>1, <1>2, Inductive, PTL DEF Spec, RpcSpec, Calls!Spec

-----------------------------------------------------------------------------
(* When the code keeps its word, and who never gets an answer.             *)

\* What the goroutines other than serve leave to it.
LEMMA ServeAlone ==
    ASSUME (\E l \in Launchers : LaunchStep(l)) \/ DeviceStep \/ ServerStep
              \/ Finished \/ UNCHANGED vars
    PROVE  UNCHANGED <<spc, waiting, ctx>>
<1>1. CASE \E l \in Launchers : LaunchStep(l)
  BY <1>1
     DEF LaunchStep, LaunchRuns, LaunchLocks, LaunchCall, LaunchEnter,
         LaunchPrepFail, LaunchRegister, LaunchWriteFail, LaunchWritten,
         LaunchPark, LaunchGiveUp, LaunchReturn, LaunchMove, serveVars, locals,
         connVars
<1>2. CASE DeviceStep \/ ServerStep \/ Finished \/ UNCHANGED vars
  BY <1>2
     DEF DeviceStep, DeviceSend, DeviceClose, ServerStep, ShutdownStart,
         ShutdownReturn, ServerClose, SetKeepAlives, ShutdownPoll,
         KeepAliveDrop, SweepStart, SweepClose, Cut, Finished, vars, inner,
         serveVars, locals, connVars
<1> QED
  BY <1>1, <1>2

\* Of a connection that is no TLS connection, serve's goroutine never panics
\* past its recover: it is only before conn.ctx is made that Close does
\* (conn.go:632, 349-398).
THEOREM PlainNeverCrashes ==
    ASSUME "tls" \notin Transports
    PROVE  Spec => []NoCrash
<1> DEFINE Made == ctx # "none" /\ spc \notin {"tls", "crashed"}
<1>1. Init => Made
  BY DEF Init
<1>2. Made /\ [Next]_vars => Made'
  <2> SUFFICES ASSUME Made, [Next]_vars PROVE Made'
    OBVIOUS
  <2>1. CASE ServeStep
    <3>1. CASE CloseConn \/ CloseSocket
      BY <3>1 DEF CloseConn, CloseSocket, Goto, connVars
    <3>2. CASE Exit
      BY <3>2 DEF Exit, Goto
    <3>3. CASE \/ Top \/ ReadLine \/ ReadFail \/ IdleWait \/ ParseRequest
               \/ ParseMalformed \/ ParseOther \/ DeliverLock \/ DeliverSend
      BY <3>3
         DEF Top, ReadLine, ReadFail, IdleWait, ParseRequest, ParseMalformed,
             ParseOther, DeliverLock, DeliverSend, BecomeIdle, Move, Goto,
             inner, connVars
    <3>4. CASE \/ RawRead \/ RawReturn \/ RawFail
               \/ HijackTake \/ HijackLeave \/ RawControl
               \/ (\E l \in Launchers : HandlerLaunch(l))
               \/ HandlerResume \/ HandlerAbandon
      BY <3>4
         DEF RawRead, RawReturn, RawFail, HijackTake, HijackLeave, RawControl,
             HandlerLaunch, HandlerResume, HandlerAbandon, BecomeIdle, Move,
             Goto, serveVars, inner, connVars
    <3>5. CASE \/ StartReply \/ ReturnWritten \/ FinishReply \/ FinishBad
               \/ Linger
      BY <3>5
         DEF StartReply, ReturnWritten, FinishReply, FinishBad, Linger,
             BecomeIdle, Move, Goto, inner, connVars
    <3>6. ~Handshake /\ ~HandshakeReturn
      BY DEF Handshake, HandshakeReturn, Move
    <3> QED
      BY <2>1, <3>1, <3>2, <3>3, <3>4, <3>5, <3>6
         DEF ServeStep, ServeRuns, ServeLocks
  <2> QED
    BY <2>1, ServeAlone DEF Next
<1>3. Made => NoCrash
  BY DEF NoCrash
<1> QED
  BY <1>1, <1>2, <1>3, PTL DEF Spec

\* The steps of serve that make or give up a launch of the handler's own.
LEMMA WaitingSteps ==
    ASSUME ServeStep
    PROVE  \/ UNCHANGED <<waiting, lpc, got>>
           \/ DeliverSend \/ HandlerResume
           \/ \E l \in Launchers : HandlerLaunch(l)
  BY DEF ServeStep, ServeRuns, ServeLocks, Handshake, HandshakeReturn, Top,
         ReadLine, ReadFail, IdleWait, ParseRequest, ParseMalformed,
         ParseOther, DeliverLock, RawRead, RawReturn, RawFail, HijackTake,
         HijackLeave, RawControl, HandlerAbandon, StartReply, ReturnWritten,
         FinishReply, FinishBad, Linger, Exit, CloseConn, CloseSocket, Move,
         inner, launchVars, locals, serveVars

\* What a launcher does to the answers and the places of others: nothing.
LEMMA LaunchPlaces ==
    ASSUME IInv, NEW l \in Launchers, LaunchStep(l)
    PROVE  /\ \A k \in Launchers \ {l} : lpc'[k] = lpc[k] /\ got'[k] = got[k]
           /\ got'[l] \in {got[l], NoNonce}
           /\ lpc[l] = "idle" => LaunchCall(l)
<1> USE DEF IInv, TypeOK
<1>1. CASE LaunchCall(l) \/ LaunchPark(l) \/ LaunchGiveUp(l)
  BY <1>1 DEF LaunchCall, LaunchPark, LaunchGiveUp, LaunchMove, At
<1>2. CASE LaunchEnter(l) \/ LaunchPrepFail(l)
  BY <1>2 DEF LaunchEnter, LaunchPrepFail, At
<1>3. CASE LaunchRegister(l) \/ LaunchWritten(l)
  BY <1>3 DEF LaunchRegister, LaunchWritten, At
<1>4. CASE LaunchWriteFail(l) \/ LaunchReturn(l)
  BY <1>4 DEF LaunchWriteFail, LaunchReturn, Leave, At
<1> QED
  BY <1>1, <1>2, <1>3, <1>4 DEF LaunchStep, LaunchRuns, LaunchLocks

\* A RoundTrip called by the handler itself, on its own connection, returns
\* without an answer (conn.go:122-220).
THEOREM OwnLaunchStarves == Spec => []OwnLaunchUnanswered
<1>1. Init => OwnLaunchUnanswered
  BY DEF Init, OwnLaunchUnanswered
<1>2. IInv /\ OwnLaunchUnanswered /\ [Next]_vars => OwnLaunchUnanswered'
  <2> SUFFICES ASSUME IInv, OwnLaunchUnanswered, [Next]_vars
               PROVE  waiting' # NoLauncher => got'[waiting'] = NoNonce
    BY DEF OwnLaunchUnanswered
  <2>1. CASE ServeStep
    <3>1. CASE DeliverSend
      BY <3>1
         DEF DeliverSend, IInv, Joint, Discipline, ServeLocals
    <3>2. CASE HandlerResume
      BY <3>2 DEF HandlerResume
    <3>3. CASE \E l \in Launchers : HandlerLaunch(l)
      BY <3>3
         DEF HandlerLaunch, IInv, TypeOK, Joint, Discipline, LaunchLocals
    <3> QED
      BY <2>1, <3>1, <3>2, <3>3, WaitingSteps DEF OwnLaunchUnanswered
  <2>2. ASSUME NEW l \in Launchers, LaunchStep(l)
        PROVE  waiting' # NoLauncher => got'[waiting'] = NoNonce
    <3>1. UNCHANGED waiting /\ waiting \in Launchers \cup {NoLauncher}
      BY <2>2, ServeAlone DEF IInv, TypeOK
    <3> QED
      BY <2>2, <3>1, LaunchPlaces DEF OwnLaunchUnanswered
  <2>3. CASE DeviceStep \/ ServerStep \/ Finished \/ UNCHANGED vars
    BY <2>3, OthersCalls, ServeAlone
       DEF OwnLaunchUnanswered, vars, inner, launchVars
  <2> QED
    BY <2>1, <2>2, <2>3 DEF Next
<1> QED
  BY <1>1, <1>2, Inductive, PTL DEF Spec

\* If only handlers launch, and wait for it, one goroutine at a time writes to
\* the device: it is launches made by others that write into a reply
\* (conn.go:122, dataWriter.go).
THEOREM OneWriterWithoutLaunchers ==
    ASSUME "launch" \notin HandlerOps
    PROVE  Spec => []WriterExclusive
<1> DEFINE Alone == \A l \in Launchers : lpc[l] # "idle" => l = waiting
<1>1. Init => Alone
  BY DEF Init
<1>2. IInv /\ Alone /\ [Next]_vars => Alone'
  <2> SUFFICES ASSUME IInv, Alone, [Next]_vars PROVE Alone'
    OBVIOUS
  <2>1. CASE ServeStep
    <3>1. CASE DeliverSend
      <4>1. UNCHANGED waiting
        BY <3>1 DEF DeliverSend
      <4>2. \A l \in Launchers : lpc'[l] # lpc[l] => lpc[l] = "select"
        BY <3>1 DEF DeliverSend, Receptive, IInv, TypeOK
      <4> QED
        BY <4>1, <4>2
    <3>2. CASE HandlerResume
      BY <3>2 DEF HandlerResume, inner, launchVars
    <3>3. CASE \E l \in Launchers : HandlerLaunch(l)
      BY <3>3, ConnAssumption
         DEF HandlerLaunch, IInv, TypeOK, Joint, Discipline, ServeLocals
    <3> QED
      BY <2>1, <3>1, <3>2, <3>3, WaitingSteps
  <2>2. ASSUME NEW l \in Launchers, LaunchStep(l) PROVE Alone'
    <3>1. UNCHANGED waiting /\ ~LaunchCall(l)
      BY <2>2, ServeAlone DEF LaunchCall
    <3> QED
      BY <2>2, <3>1, LaunchPlaces
  <2>3. CASE DeviceStep \/ ServerStep \/ Finished \/ UNCHANGED vars
    BY <2>3, OthersCalls, ServeAlone DEF vars, inner, launchVars
  <2> QED
    BY <2>1, <2>2, <2>3 DEF Next
<1>3. IInv /\ Alone => WriterExclusive
  BY ConnAssumption
     DEF IInv, Joint, Discipline, ServeLocals, WriterExclusive, ServeWriting,
         LaunchWriting
<1> QED
  BY <1>1, <1>2, <1>3, Inductive, PTL DEF Spec

=============================================================================

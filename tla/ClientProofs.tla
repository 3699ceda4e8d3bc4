---------------------------- MODULE ClientProofs ----------------------------
(***************************************************************************)
(* Client keeps its invariant for any number of calls and connections,     *)
(* whatever the server does, and with it what the pool promises.           *)
(***************************************************************************)
EXTENDS ClientInv, TLAPS, SequenceTheorems

\* What readResponse leaves of the lines it was given: all but some first ones.
LEMMA Swallowed ==
    ASSUME NEW S, NEW q \in Seq(S), q # <<>>, NEW i \in 2 .. Len(q) + 1
    PROVE  /\ Head(q) = q[1] /\ 1 \in 1 .. Len(q)
           /\ SubSeq(q, i, Len(q)) \in Seq(S)
           /\ \A j \in 1 .. Len(SubSeq(q, i, Len(q))) :
                 /\ j + i - 1 \in 2 .. Len(q)
                 /\ SubSeq(q, i, Len(q))[j] = q[j + i - 1]
<1>1. Len(q) \in Nat /\ Len(q) # 0
  BY EmptySeq
<1>2. \A j \in i .. Len(q) : q[j] \in S
  BY <1>1, ElementOfSeq
<1>3. /\ SubSeq(q, i, Len(q)) \in Seq(S)
      /\ Len(SubSeq(q, i, Len(q))) = IF i <= Len(q) THEN Len(q) - i + 1 ELSE 0
      /\ \A j \in 1 .. Len(q) - i + 1 : SubSeq(q, i, Len(q))[j] = q[i + j - 1]
  BY <1>1, <1>2, SubSeqProperties
<1> QED
  BY <1>1, <1>3

\* A line that is sent comes last and moves none of the others.
LEMMA LineSent ==
    ASSUME NEW S, NEW q \in Seq(S), NEW m \in S
    PROVE  /\ Append(q, m) \in Seq(S)
           /\ Len(Append(q, m)) = Len(q) + 1
           /\ Append(q, m)[Len(q) + 1] = m
           /\ \A i \in 1 .. Len(q) : Append(q, m)[i] = q[i]
  BY AppendProperties

\* A line answers a call or nobody.
LEMMA LineNonces ==
    ASSUME NEW q \in Seq(Lines), NEW i \in 1 .. Len(q)
    PROVE  q[i].nonce \in Calls \cup {NoNonce}
<1>1. q[i] \in Lines
  BY ElementOfSeq
<1> QED
  BY <1>1 DEF Lines

\* A reply has one of the Connection headers.
LEMMA ReplyTypes ==
    ASSUME NEW k \in Calls, NEW a, NEW b, NEW own \in Headers
    PROVE  ReplyHeader(k, a, b, own) \in Headers
  BY DEF ReplyHeader, Headers

\* It holds before any call is made.
LEMMA InitInv == Init => IInv
<1> SUFFICES ASSUME Init PROVE IInv
  OBVIOUS
<1>1. TypeOK
  BY ClientAssumption DEF Init, TypeOK, NoReply, Reply, Headers
<1>2. Custody
  BY DEF Init, Custody, OneWatcher, WorksOnOwn, ClosedInOrder, AnswersHeld,
         AnswersOnce, CutHeld, CloseHeeded, Awaited, Watched, Working, Unfit
<1>3. PoolOwesNothing
  BY DEF Init, PoolOwesNothing
<1> QED
  BY <1>1, <1>2, <1>3 DEF IInv

-----------------------------------------------------------------------------
(* The types.                                                              *)

\* A call at work has a watcher, as long as its connection is open.
LEMMA Owns ==
    ASSUME IInv, NEW k \in Calls, Working(k)
    PROVE  /\ conn[k] \in Conns
           /\ Open(conn[k]) => Watched(k) /\ place[conn[k]] = "used"
  BY DEF IInv, Custody, OneWatcher, WorksOnOwn

\* Every step of a call keeps the types.
LEMMA CallTypes ==
    ASSUME IInv, NEW k \in Calls, CallStep(k)
    PROVE  TypeOK'
<1> USE DEF TypeOK, IInv, callVars, connVars, netVars, config, Step, Fail
<1>1. CASE Start(k)
  BY <1>1 DEF Start
<1>2. CASE DialFail(k)
  BY <1>2 DEF DialFail
<1>3. CASE Dial(k)
  <2>1. PICK c \in Available :
           /\ conn' = [conn EXCEPT ![k] = c]
           /\ place' = [place EXCEPT ![c] = "used"]
           /\ IF wants[k] THEN Discarding(c) ELSE UNCHANGED discarded
    BY <1>3 DEF Dial
  <2>2. conn' \in [Calls -> Conns \cup {NoConn}]
    BY <2>1 DEF Available
  <2>3. place' \in [Conns -> {"fresh", "used", "pooled", "closed"}]
    BY <2>1
  <2>4. discarded' \in [Conns -> BOOLEAN]
    BY <2>1 DEF Discarding
  <2> QED
    BY <1>3, <2>2, <2>3, <2>4 DEF Dial
<1>4. CASE ArmWrite(k) \/ ArmRead(k)
  <2>1. CASE ArmFail(k, "arm") \/ ArmFail(k, "expect")
    BY <2>1 DEF ArmFail
  <2>2. ASSUME NEW from, NEW to \in {"write", "read"}, Arm(k, from, to, to)
        PROVE  TypeOK'
    <3>1. cut' \in [Conns -> SUBSET {"read", "write"}]
      <4>1. \A c \in Conns : cut[c] \ {to} \in SUBSET {"read", "write"}
        OBVIOUS
      <4> QED
        BY <2>2, <4>1 DEF Arm
    <3>2. pc' \in [Calls -> {"idle", "dial", "arm", "write", "expect", "read",
                             "leave", "returned"}]
      BY <2>2 DEF Arm
    <3> QED
      BY <2>2, <3>1, <3>2 DEF Arm
  <2> QED
    BY <1>4, <2>1, <2>2 DEF ArmWrite, ArmRead
<1>5. CASE Write(k)
  <2>1. conn[k] \in Conns
    BY <1>5, Owns DEF Working, Write
  <2>2. owed[conn[k]] \cup {k} \in SUBSET Calls
    BY <2>1
  <2>3. owed' \in [Conns -> SUBSET Calls]
    <3>1. \/ UNCHANGED owed
          \/ owed' = [owed EXCEPT ![conn[k]] = @ \cup {Sent(k)}]
      BY <1>5, Zenon DEF Write
    <3> QED
      BY <2>2, <3>1 DEF Sent
  <2> QED
    BY <1>5, <2>3 DEF Write
<1>6. CASE WriteFail(k)
  BY <1>6 DEF WriteFail
<1>7. CASE ReadLine(k)
  <2>1. conn[k] \in Conns
    BY <1>7, Owns DEF Working, ReadLine
  <2>2. lines' \in [Conns -> Seq(Lines)]
    <3>1. PICK i \in 2 .. Len(lines[conn[k]]) + 1 :
             lines' = [lines EXCEPT ![conn[k]] =
                         SubSeq(lines[conn[k]], i, Len(lines[conn[k]]))]
      BY <1>7 DEF ReadLine
    <3>2. SubSeq(lines[conn[k]], i, Len(lines[conn[k]])) \in Seq(Lines)
      BY <1>7, <2>1, Swallowed DEF ReadLine
    <3> QED
      BY <3>1, <3>2
  <2>3. err' \in [Calls -> BOOLEAN] /\ discarded' \in [Conns -> BOOLEAN]
    BY <1>7 DEF ReadLine, Discarding
  <2> QED
    BY <1>7, <2>2, <2>3 DEF ReadLine
<1>8. CASE ReadFail(k)
  BY <1>8 DEF ReadFail, Discarding
<1>9. CASE Leave(k)
  BY <1>9 DEF Leave
<1>10. CASE Cancel(k)
  BY <1>10 DEF Cancel
<1> QED
  BY <1>1, <1>2, <1>3, <1>4, <1>5, <1>6, <1>7, <1>8, <1>9, <1>10 DEF CallStep

\* So does the end of a connection,
LEMMA ClosingTypes ==
    ASSUME TypeOK, NEW c, Closing(c)
    PROVE  /\ place' \in [Conns -> {"fresh", "used", "pooled", "closed"}]
           /\ discarded' \in [Conns -> BOOLEAN]
           /\ cut' \in [Conns -> SUBSET {"read", "write"}]
           /\ torn' \in [Conns -> BOOLEAN]
           /\ owed' \in [Conns -> SUBSET Calls]
           /\ lines' \in [Conns -> Seq(Lines)]
           /\ last' \in [Conns -> Headers]
           /\ gone' \in [Conns -> BOOLEAN]
<1>1. <<>> \in Seq(Lines)
  OBVIOUS
<1> QED
  BY <1>1 DEF Closing, TypeOK, Headers

\* every step of a watcher
LEMMA WatchTypes ==
    ASSUME IInv, NEW k \in Calls, WatchStep(k)
    PROVE  TypeOK'
<1> USE DEF TypeOK, IInv, callVars, connVars, netVars, config, Watch
<1>1. CASE WatchCtx(k) \/ WatchDone(k)
  <2>1. /\ \/ watch' = [watch EXCEPT ![k] = "cut"]
           \/ watch' = [watch EXCEPT ![k] = "close"]
        /\ UNCHANGED <<pc, callVars, connVars, netVars, config>>
    BY <1>1, Zenon DEF WatchCtx, WatchDone
  <2> QED
    BY <2>1
<1>2. CASE WatchCut(k)
  <2>1. cut' \in [Conns -> SUBSET {"read", "write"}]
    BY <1>2 DEF WatchCut
  <2> QED
    BY <1>2, <2>1 DEF WatchCut
<1>3. CASE WatchDiscard(k)
  BY <1>3 DEF WatchDiscard, Discarding
<1>4. CASE WatchClose(k)
  <2>1. CASE Closing(conn[k])
    BY <1>4, <2>1, ClosingTypes DEF WatchClose
  <2>2. CASE Pooling(conn[k])
    BY <1>4, <2>2 DEF WatchClose, Pooling
  <2> QED
    BY <1>4, <2>1, <2>2 DEF WatchClose
<1> QED
  BY <1>1, <1>2, <1>3, <1>4 DEF WatchStep

\* and every step of the pool and the server.
LEMMA ConnTypes ==
    ASSUME IInv, NEW c \in Conns, ConnStep(c)
    PROVE  TypeOK'
<1> USE DEF TypeOK, IInv, callVars, connVars, netVars, config
<1>1. CASE PoolDrop(c)
  BY <1>1, ClosingTypes DEF PoolDrop
<1>2. CASE ServerReply(c)
  <2>1. PICK k \in owed[c], keepAlive, bodyAllowed \in BOOLEAN, own \in Headers :
          LET h == ReplyHeader(k, keepAlive, bodyAllowed, own) IN
          /\ owed' = [owed EXCEPT ![c] = @ \ {k}]
          /\ lines' = [lines EXCEPT ![c] = Append(@, Reply(k, h))]
          /\ last' = [last EXCEPT ![c] = h]
    BY <1>2 DEF ServerReply
  <2> DEFINE h == ReplyHeader(k, keepAlive, bodyAllowed, own)
  <2>2. h \in Headers
    BY DEF ReplyHeader, Headers
  <2>3. Reply(k, h) \in Lines
    BY <2>2 DEF Reply, Lines
  <2> HIDE DEF h
  <2>4. Append(lines[c], Reply(k, h)) \in Seq(Lines)
    BY <2>3, LineSent
  <2>5. /\ owed' \in [Conns -> SUBSET Calls]
        /\ lines' \in [Conns -> Seq(Lines)]
        /\ last' \in [Conns -> Headers]
    BY <2>1, <2>2, <2>4 DEF h
  <2> QED
    BY <1>2, <2>5 DEF ServerReply
<1>3. CASE ServerStray(c)
  <2>1. NoReply \in Lines
    BY DEF NoReply, Reply, Lines, Headers
  <2>2. Append(lines[c], NoReply) \in Seq(Lines)
    BY <2>1, LineSent
  <2> QED
    BY <1>3, <2>2 DEF ServerStray
<1>4. CASE ServerClose(c)
  <2>1. owed' \in [Conns -> SUBSET Calls]
    BY <1>4 DEF ServerClose
  <2> QED
    BY <1>4, <2>1 DEF ServerClose
<1> QED
  BY <1>1, <1>2, <1>3, <1>4 DEF ConnStep

-----------------------------------------------------------------------------
(* What the shared parts of the actions do.                                *)

\* Discard makes an open connection unfit and no other one fit.
LEMMA DiscardingSays ==
    ASSUME IInv, TypeOK', NEW c \in Conns, Discarding(c), UNCHANGED pooling
    PROVE  /\ \A d \in Conns : Unfit(d) => Unfit(d)'
           /\ Open(c) => Unfit(c)'
<1>1. CASE pooling /\ Open(c)
  BY <1>1 DEF Discarding, Unfit, IInv, TypeOK
<1>2. CASE ~(pooling /\ Open(c))
  BY <1>2 DEF Discarding, Unfit, IInv, TypeOK
<1> QED
  BY <1>1, <1>2

\* Closing a connection touches no other.
LEMMA ClosingSays ==
    ASSUME IInv, NEW c \in Conns, Closing(c), UNCHANGED pooling
    PROVE  /\ place'[c] = "closed" /\ cut'[c] = {} /\ owed'[c] = {}
           /\ lines'[c] = <<>> /\ last'[c] = "keep-alive"
           /\ \A d \in Conns \ {c} :
                 /\ place'[d] = place[d] /\ cut'[d] = cut[d]
                 /\ owed'[d] = owed[d] /\ lines'[d] = lines[d]
                 /\ last'[d] = last[d] /\ (Unfit(d) => Unfit(d)')
  BY DEF Closing, Unfit, IInv, TypeOK

\* A deadline that is set cuts nothing off; one that cannot be set means the
\* connection is closed.
LEMMA ArmSays ==
    ASSUME IInv, NEW k \in Calls, ArmWrite(k) \/ ArmRead(k)
    PROVE  /\ \A c \in Conns : cut[c] = {} => cut'[c] = {}
           /\ UNCHANGED <<conn, watch, place, discarded, done, owed, lines,
                          last, pooling>>
           /\ \/ /\ pc' = [pc EXCEPT ![k] = "leave"]
                 /\ ~Open(conn[k])
                 /\ Working(k)
              \/ pc' = [pc EXCEPT ![k] = "write"] /\ pc[k] = "arm"
              \/ pc' = [pc EXCEPT ![k] = "read"] /\ pc[k] = "expect"
<1>1. ASSUME NEW from, NEW to, NEW way, Arm(k, from, to, way)
      PROVE  \A c \in Conns : cut[c] = {} => cut'[c] = {}
  BY <1>1 DEF Arm, IInv, TypeOK
<1>2. ASSUME NEW from, NEW to, NEW way, Arm(k, from, to, way)
      PROVE  /\ pc[k] = from /\ pc' = [pc EXCEPT ![k] = to]
             /\ UNCHANGED <<wants, ctx, done, conn, watch, place, discarded,
                            torn, netVars, config>>
  BY <1>2 DEF Arm, Step, callVars
<1>3. ASSUME NEW from, ArmFail(k, from)
      PROVE  /\ pc[k] = from /\ pc' = [pc EXCEPT ![k] = "leave"]
             /\ ~Open(conn[k])
             /\ UNCHANGED <<wants, ctx, done, conn, watch, place, discarded,
                            cut, torn, netVars, config>>
  BY <1>3 DEF ArmFail, Fail, Step, connVars
<1> QED
  BY <1>1, <1>2, <1>3 DEF ArmWrite, ArmRead, Working, netVars, config

-----------------------------------------------------------------------------
(* The answers on their way: none comes but after a request.               *)

\* A line that is read, or lost with the buffer, is no longer on its way.
LEMMA ReadLineAwaits ==
    ASSUME IInv, NEW k \in Calls, ReadLine(k)
    PROVE  \A d \in Conns, j \in Calls : Awaited(d, j)' => Awaited(d, j)
<1> DEFINE c == conn[k]
<1>1. /\ pc[k] = "read" /\ Open(c) /\ lines[c] # <<>> /\ UNCHANGED owed
  BY DEF ReadLine, Step
<1>2. c \in Conns /\ lines[c] \in Seq(Lines)
  BY <1>1, Owns DEF Working, IInv, TypeOK
<1>3. PICK i \in 2 .. Len(lines[c]) + 1 :
         lines' = [lines EXCEPT ![c] = SubSeq(lines[c], i, Len(lines[c]))]
  BY DEF ReadLine
<1>4. /\ \A d \in Conns \ {c} : lines'[d] = lines[d]
      /\ lines'[c] = SubSeq(lines[c], i, Len(lines[c]))
  BY <1>2, <1>3 DEF IInv, TypeOK
<1>5. \A h \in 1 .. Len(lines'[c]) :
         h + i - 1 \in 1 .. Len(lines[c]) /\ lines'[c][h] = lines[c][h + i - 1]
  <2>1. \A h \in 1 .. Len(SubSeq(lines[c], i, Len(lines[c]))) :
           /\ h + i - 1 \in 2 .. Len(lines[c])
           /\ SubSeq(lines[c], i, Len(lines[c]))[h] = lines[c][h + i - 1]
    BY <1>1, <1>2, Swallowed
  <2>2. \A n : n \in 2 .. Len(lines[c]) => n \in 1 .. Len(lines[c])
    BY <1>2
  <2> QED
    BY <1>4, <2>1, <2>2
<1> SUFFICES ASSUME NEW d \in Conns, NEW j \in Calls, Awaited(d, j)'
             PROVE  Awaited(d, j)
  OBVIOUS
<1>6. CASE d = c
  BY <1>1, <1>5, <1>6 DEF Awaited
<1>7. CASE d # c
  BY <1>1, <1>4, <1>7 DEF Awaited
<1> QED
  BY <1>6, <1>7

\* The server answers what it owes,
LEMMA ServerReplyAwaits ==
    ASSUME IInv, NEW c \in Conns, ServerReply(c)
    PROVE  \A d \in Conns, j \in Calls : Awaited(d, j)' => Awaited(d, j)
<1>1. PICK k \in owed[c], h \in Headers :
         /\ owed' = [owed EXCEPT ![c] = owed[c] \ {k}]
         /\ lines' = [lines EXCEPT ![c] = Append(lines[c], Reply(k, h))]
  <2>1. PICK k \in owed[c], a \in BOOLEAN, b \in BOOLEAN, own \in Headers :
           LET h == ReplyHeader(k, a, b, own) IN
           /\ owed' = [owed EXCEPT ![c] = @ \ {k}]
           /\ lines' = [lines EXCEPT ![c] = Append(@, Reply(k, h))]
           /\ last' = [last EXCEPT ![c] = h]
    BY DEF ServerReply
  <2>2. k \in Calls
    BY DEF IInv, TypeOK
  <2> QED
    BY <2>1, <2>2, ReplyTypes
<1>2. lines[c] \in Seq(Lines) /\ Reply(k, h) \in Lines
  BY DEF IInv, TypeOK, Lines, Reply
<1>3. /\ owed'[c] = owed[c] \ {k} /\ lines'[c] = Append(lines[c], Reply(k, h))
      /\ \A d \in Conns \ {c} : owed'[d] = owed[d] /\ lines'[d] = lines[d]
  BY <1>1 DEF IInv, TypeOK
<1>4. \A i \in 1 .. Len(lines'[c]) :
         \/ i \in 1 .. Len(lines[c]) /\ lines'[c][i] = lines[c][i]
         \/ lines'[c][i].nonce = k
  <2>1. /\ Len(lines'[c]) = Len(lines[c]) + 1 /\ Len(lines[c]) \in Nat
        /\ lines'[c][Len(lines[c]) + 1] = Reply(k, h)
        /\ \A i \in 1 .. Len(lines[c]) : lines'[c][i] = lines[c][i]
    BY <1>2, <1>3, LineSent
  <2>2. Reply(k, h).nonce = k
    BY DEF Reply
  <2>3. \A i \in 1 .. Len(lines'[c]) :
           i \in 1 .. Len(lines[c]) \/ i = Len(lines[c]) + 1
    BY <2>1
  <2> QED
    BY <2>1, <2>2, <2>3
<1> SUFFICES ASSUME NEW d \in Conns, NEW j \in Calls, Awaited(d, j)'
             PROVE  Awaited(d, j)
  OBVIOUS
<1>5. CASE d = c
  BY <1>3, <1>4, <1>5 DEF Awaited
<1>6. CASE d # c
  BY <1>3, <1>6 DEF Awaited
<1> QED
  BY <1>5, <1>6

\* and nothing else that happens outside the calls makes it owe more.
LEMMA OthersAwait ==
    ASSUME IInv,
           \/ \E k \in Calls : WatchStep(k)
           \/ \E c \in Conns : ConnStep(c)
    PROVE  \A d \in Conns, j \in Calls : Awaited(d, j)' => Awaited(d, j)
<1>1. CASE UNCHANGED <<owed, lines>>
  BY <1>1 DEF Awaited
<1>2. ASSUME NEW b, Closing(b)
      PROVE  \A d \in Conns, j \in Calls : Awaited(d, j)' => Awaited(d, j)
  <2>1. /\ owed' = [owed EXCEPT ![b] = {}]
        /\ lines' = [lines EXCEPT ![b] = <<>>]
    BY <1>2 DEF Closing
  <2>2. \A d \in Conns : \/ owed'[d] = owed[d] /\ lines'[d] = lines[d]
                         \/ owed'[d] = {} /\ lines'[d] = <<>>
    BY <2>1 DEF IInv, TypeOK
  <2> QED
    BY <2>2 DEF Awaited
<1>3. ASSUME NEW c \in Conns, ServerReply(c)
      PROVE  \A d \in Conns, j \in Calls : Awaited(d, j)' => Awaited(d, j)
  BY <1>3, ServerReplyAwaits
<1>4. ASSUME NEW c \in Conns, ServerStray(c)
      PROVE  \A d \in Conns, j \in Calls : Awaited(d, j)' => Awaited(d, j)
  <2>1. owed' = owed /\ lines' = [lines EXCEPT ![c] = Append(lines[c], NoReply)]
    BY <1>4 DEF ServerStray
  <2>2. lines[c] \in Seq(Lines) /\ NoReply \in Lines
    BY DEF IInv, TypeOK, Lines, NoReply, Reply, Headers
  <2>3. \A i \in 1 .. Len(Append(lines[c], NoReply)) :
           \/ /\ i \in 1 .. Len(lines[c])
              /\ Append(lines[c], NoReply)[i] = lines[c][i]
           \/ Append(lines[c], NoReply)[i] = NoReply
    BY <2>2, AppendProperties
  <2>4. \A j \in Calls : NoReply.nonce # j
    BY ClientAssumption DEF NoReply, Reply
  <2>5. /\ lines'[c] = Append(lines[c], NoReply)
        /\ \A d \in Conns \ {c} : lines'[d] = lines[d]
    BY <2>1 DEF IInv, TypeOK
  <2> SUFFICES ASSUME NEW d \in Conns, NEW j \in Calls, Awaited(d, j)'
               PROVE  Awaited(d, j)
    OBVIOUS
  <2>6. CASE d = c
    BY <2>1, <2>3, <2>4, <2>5, <2>6 DEF Awaited
  <2>7. CASE d # c
    BY <2>1, <2>5, <2>7 DEF Awaited
  <2> QED
    BY <2>6, <2>7
<1>5. ASSUME NEW c \in Conns, ServerClose(c)
      PROVE  \A d \in Conns, j \in Calls : Awaited(d, j)' => Awaited(d, j)
  <2>1. lines' = lines /\ owed' = [owed EXCEPT ![c] = {}]
    BY <1>5 DEF ServerClose
  <2>2. \A d \in Conns : owed'[d] \subseteq owed[d]
    BY <2>1 DEF IInv, TypeOK
  <2> QED
    BY <2>1, <2>2 DEF Awaited
<1> QED
  BY <1>1, <1>2, <1>3, <1>4, <1>5
     DEF WatchStep, WatchCtx, WatchDone, WatchCut, WatchDiscard, WatchClose,
         Pooling, ConnStep, PoolDrop, netVars

-----------------------------------------------------------------------------
(* The steps of a call.                                                    *)

\* Steps that only move the call, or tell its watcher.
LEMMA CallMoves ==
    ASSUME IInv, NEW k \in Calls, TypeOK',
           Start(k) \/ DialFail(k) \/ WriteFail(k) \/ Leave(k) \/ Cancel(k)
    PROVE  Custody' /\ PoolOwesNothing'
<1>1. UNCHANGED <<conn, watch, place, discarded, cut, owed, lines, last, pooling>>
  BY DEF Start, DialFail, WriteFail, Leave, Cancel, callVars, connVars,
         netVars, config
<1>2. \/ /\ UNCHANGED done
         /\ \/ pc' = pc
            \/ pc[k] = "idle" /\ pc' = [pc EXCEPT ![k] = "dial"]
            \/ pc[k] \in {"dial", "write"} /\ pc' = [pc EXCEPT ![k] = "leave"]
      \/ /\ pc[k] = "leave" /\ pc' = [pc EXCEPT ![k] = "returned"]
         /\ UNCHANGED done \/ done' = [done EXCEPT ![k] = TRUE]
  BY DEF Start, DialFail, WriteFail, Leave, Cancel, Fail, Step, callVars
<1>3. pc[k] = "write" => \A c \in Conns : ~Awaited(c, k)
  BY DEF IInv, Custody, AnswersHeld
<1> USE <1>1 DEF IInv, TypeOK, Custody
<1>4. /\ OneWatcher' /\ AnswersOnce' /\ CutHeld' /\ CloseHeeded'
      /\ PoolOwesNothing'
  BY DEF OneWatcher, AnswersOnce, CutHeld, CloseHeeded, PoolOwesNothing,
         Watched, Unfit
<1>5. WorksOnOwn'
  BY <1>2 DEF WorksOnOwn, Watched, Working, Open
<1>6. ClosedInOrder'
  BY <1>2 DEF ClosedInOrder, Unfit
<1>7. AnswersHeld'
  <2> SUFFICES ASSUME NEW c \in Conns, NEW j \in Calls, Awaited(c, j)'
               PROVE  /\ place'[c] = "used" /\ conn'[j] = c /\ Watched(j)'
                      /\ pc'[j] \in {"expect", "read"}
                         \/ (pc'[j] \in {"leave", "returned"} /\ Unfit(c)')
    BY DEF AnswersHeld
  <2>1. Awaited(c, j)
    BY DEF Awaited
  <2>2. /\ place[c] = "used" /\ conn[j] = c /\ Watched(j)
        /\ pc[j] \in {"expect", "read"}
           \/ (pc[j] \in {"leave", "returned"} /\ Unfit(c))
    BY <2>1 DEF AnswersHeld
  <2> QED
    BY <1>2, <2>2 DEF Watched, Unfit
<1> QED
  BY <1>4, <1>5, <1>6, <1>7

\* The dialled connection is fresh or comes clean from the pool.
LEMMA DialKeeps ==
    ASSUME IInv, NEW k \in Calls, Dial(k), TypeOK'
    PROVE  Custody' /\ PoolOwesNothing'
<1>1. PICK c \in Conns :
         /\ place[c] \in {"fresh", "pooled"}
         /\ conn' = [conn EXCEPT ![k] = c]
         /\ place' = [place EXCEPT ![c] = "used"]
         /\ (wants[k] /\ Discarding(c)) \/ UNCHANGED discarded
  BY DEF Dial, Available
<1>2. /\ pc[k] = "dial" /\ pc' = [pc EXCEPT ![k] = "arm"]
      /\ watch' = [watch EXCEPT ![k] = "select"]
      /\ UNCHANGED <<done, cut, owed, lines, last, pooling>>
  BY DEF Dial, Step, netVars, config
<1>3. \A d \in Conns : Unfit(d) => Unfit(d)'
  BY <1>1, <1>2, DiscardingSays DEF Unfit
<1>4. watch[k] = "none"
  BY <1>2 DEF IInv, Custody, WorksOnOwn
<1> USE <1>1, <1>2, <1>4 DEF IInv, TypeOK, Custody
<1>5. OneWatcher'
  BY DEF OneWatcher, Watched
<1>6. WorksOnOwn'
  BY DEF WorksOnOwn, OneWatcher, Watched, Working, Open
<1>7. ClosedInOrder'
  <2> SUFFICES ASSUME NEW j \in Calls
               PROVE  /\ done'[j] => pc'[j] = "returned"
                      /\ watch'[j] = "close" => done'[j] \/ Unfit(conn[j])'
    BY DEF ClosedInOrder
  <2>1. CASE j = k
    BY <2>1 DEF ClosedInOrder
  <2>2. CASE j # k
    <3>1. watch[j] = "close" => conn[j] \in Conns
      BY DEF OneWatcher, Watched
    <3> QED
      BY <1>3, <2>2, <3>1 DEF ClosedInOrder
  <2> QED
    BY <2>1, <2>2
<1>8. AnswersHeld'
  <2> SUFFICES ASSUME NEW d \in Conns, NEW j \in Calls, Awaited(d, j)'
               PROVE  /\ place'[d] = "used" /\ conn'[j] = d /\ Watched(j)'
                      /\ pc'[j] \in {"expect", "read"}
                         \/ (pc'[j] \in {"leave", "returned"} /\ Unfit(d)')
    BY DEF AnswersHeld
  <2>1. Awaited(d, j)
    BY DEF Awaited
  <2>2. /\ place[d] = "used" /\ conn[j] = d /\ Watched(j)
        /\ pc[j] \in {"expect", "read"}
           \/ (pc[j] \in {"leave", "returned"} /\ Unfit(d))
    BY <2>1 DEF AnswersHeld
  <2> QED
    BY <1>3, <2>2 DEF Watched
<1>9. AnswersOnce'
  BY DEF AnswersOnce
<1>10. CutHeld'
  <2> SUFFICES ASSUME NEW d \in Conns, cut'[d] # {}
               PROVE  /\ place'[d] = "used"
                      /\ \E j \in Calls :
                            /\ conn'[j] = d
                            /\ \/ watch'[j] = "discard"
                               \/ watch'[j] = "close" /\ Unfit(d)'
    BY DEF CutHeld
  <2>1. /\ place[d] = "used"
        /\ \E j \in Calls \ {k} :
              /\ conn[j] = d
              /\ watch[j] = "discard" \/ (watch[j] = "close" /\ Unfit(d))
    BY DEF CutHeld
  <2> QED
    BY <1>3, <2>1
<1>11. CloseHeeded'
  <2> SUFFICES ASSUME NEW d \in Conns, last'[d] = "close"
               PROVE  /\ place'[d] = "used"
                      /\ \/ Unfit(d)'
                         \/ \E i \in 1 .. Len(lines'[d]) :
                               /\ lines'[d][i].nonce # NoNonce
                               /\ lines'[d][i].header = "close"
    BY DEF CloseHeeded
  <2> QED
    BY <1>3 DEF CloseHeeded
<1>12. PoolOwesNothing'
  BY DEF PoolOwesNothing
<1> QED
  BY <1>5, <1>6, <1>7, <1>8, <1>9, <1>10, <1>11, <1>12

\* Only a call whose connection is closed fails here, and it is owed nothing.
LEMMA ArmKeeps ==
    ASSUME IInv, NEW k \in Calls, ArmWrite(k) \/ ArmRead(k), TypeOK'
    PROVE  Custody' /\ PoolOwesNothing'
<1>1. /\ \A c \in Conns : cut[c] = {} => cut'[c] = {}
      /\ UNCHANGED <<conn, watch, place, discarded, done, owed, lines, last,
                     pooling>>
      /\ \/ /\ pc' = [pc EXCEPT ![k] = "leave"]
            /\ ~Open(conn[k])
            /\ Working(k)
         \/ pc' = [pc EXCEPT ![k] = "write"] /\ pc[k] = "arm"
         \/ pc' = [pc EXCEPT ![k] = "read"] /\ pc[k] = "expect"
  BY ArmSays
<1> USE <1>1 DEF IInv, TypeOK, Custody
<1>2. OneWatcher' /\ AnswersOnce' /\ CloseHeeded' /\ ClosedInOrder'
  BY DEF OneWatcher, AnswersOnce, CloseHeeded, ClosedInOrder, Watched, Unfit,
         Working
<1>3. WorksOnOwn'
  BY DEF WorksOnOwn, Watched, Working, Open
<1>4. AnswersHeld'
  <2> SUFFICES ASSUME NEW c \in Conns, NEW j \in Calls, Awaited(c, j)'
               PROVE  /\ place'[c] = "used" /\ conn'[j] = c /\ Watched(j)'
                      /\ pc'[j] \in {"expect", "read"}
                         \/ (pc'[j] \in {"leave", "returned"} /\ Unfit(c)')
    BY DEF AnswersHeld
  <2>1. Awaited(c, j)
    BY DEF Awaited
  <2>2. /\ place[c] = "used" /\ conn[j] = c /\ Watched(j)
        /\ pc[j] \in {"expect", "read"}
           \/ (pc[j] \in {"leave", "returned"} /\ Unfit(c))
    BY <2>1 DEF AnswersHeld
  <2> QED
    BY <2>2 DEF Watched, Unfit, Open, Working
<1>5. CutHeld'
  <2> SUFFICES ASSUME NEW c \in Conns, cut'[c] # {}
               PROVE  /\ place'[c] = "used"
                      /\ \E j \in Calls :
                            /\ conn'[j] = c
                            /\ \/ watch'[j] = "discard"
                               \/ watch'[j] = "close" /\ Unfit(c)'
    BY DEF CutHeld
  <2>1. cut[c] # {} /\ (Unfit(c) => Unfit(c)')
    BY DEF Unfit
  <2> QED
    BY <2>1 DEF CutHeld
<1>6. PoolOwesNothing'
  BY DEF PoolOwesNothing
<1> QED
  BY <1>2, <1>3, <1>4, <1>5, <1>6

\* The request is owed its answer on the connection of the call.
LEMMA WriteKeeps ==
    ASSUME IInv, NEW k \in Calls, Write(k), TypeOK'
    PROVE  Custody' /\ PoolOwesNothing'
<1>1. /\ pc[k] = "write" /\ pc' = [pc EXCEPT ![k] = "expect"]
      /\ UNCHANGED <<done, conn, watch, place, discarded, cut, lines, last,
                     pooling>>
  BY DEF Write, Step, callVars, connVars, config
<1>2. owed' = owed \/ owed' = [owed EXCEPT ![conn[k]] = @ \cup {k}]
  BY Zenon DEF Write, Sent
<1>3. conn[k] \in Conns /\ Watched(k) /\ place[conn[k]] = "used"
  BY <1>1, Owns DEF Write, Working
<1>4. /\ \A c \in Conns : c # conn[k] => owed'[c] = owed[c]
      /\ \A j \in owed'[conn[k]] : j \in owed[conn[k]] \/ j = k
  BY <1>2, <1>3 DEF IInv, TypeOK
<1>5. ~Awaited(conn[k], k)
  BY <1>1, <1>3 DEF IInv, Custody, AnswersHeld
<1> USE <1>1, <1>3 DEF IInv, TypeOK, Custody
<1>6. OneWatcher' /\ CutHeld' /\ CloseHeeded' /\ ClosedInOrder'
  BY DEF OneWatcher, CutHeld, CloseHeeded, ClosedInOrder, Watched, Unfit
<1>7. WorksOnOwn'
  BY DEF WorksOnOwn, Watched, Working, Open
<1>8. \A c \in Conns, j \in Calls :
         Awaited(c, j)' => Awaited(c, j) \/ (c = conn[k] /\ j = k)
  BY <1>4 DEF Awaited
<1>9. AnswersHeld'
  <2> SUFFICES ASSUME NEW c \in Conns, NEW j \in Calls, Awaited(c, j)'
               PROVE  /\ place'[c] = "used" /\ conn'[j] = c /\ Watched(j)'
                      /\ pc'[j] \in {"expect", "read"}
                         \/ (pc'[j] \in {"leave", "returned"} /\ Unfit(c)')
    BY DEF AnswersHeld
  <2>1. CASE c = conn[k] /\ j = k
    BY <2>1 DEF Watched
  <2>2. CASE Awaited(c, j)
    BY <2>2 DEF AnswersHeld, Watched, Unfit
  <2> QED
    BY <1>8, <2>1, <2>2
<1>10. AnswersOnce'
  <2> SUFFICES ASSUME NEW c \in Conns, NEW j \in Calls,
                      NEW i \in 1 .. Len(lines[c]), lines[c][i].nonce = j
               PROVE  /\ j \notin owed'[c]
                      /\ \A h \in 1 .. Len(lines[c]) :
                            lines[c][h].nonce = j => h = i
    BY DEF AnswersOnce
  <2>1. /\ j \notin owed[c]
        /\ \A h \in 1 .. Len(lines[c]) : lines[c][h].nonce = j => h = i
    BY DEF AnswersOnce
  <2>2. ~(c = conn[k] /\ j = k)
    BY <1>5 DEF Awaited
  <2> QED
    BY <1>4, <2>1, <2>2
<1>11. PoolOwesNothing'
  <2>1. \A c \in Conns : place[c] = "pooled" => owed'[c] = owed[c]
    BY <1>4
  <2> QED
    BY <2>1 DEF PoolOwesNothing
<1> QED
  BY <1>6, <1>7, <1>9, <1>10, <1>11

\* The call leaves with its answer, which was the only one on its way, or leaves
\* the connection unfit.
LEMMA ReadLineKeeps ==
    ASSUME IInv, NEW k \in Calls, ReadLine(k), TypeOK'
    PROVE  Custody' /\ PoolOwesNothing'
<1> DEFINE c == conn[k]
           l == Head(lines[c])
<1>1. /\ pc[k] = "read" /\ pc' = [pc EXCEPT ![k] = "leave"]
      /\ Open(c) /\ lines[c] # <<>>
      /\ UNCHANGED <<done, conn, watch, place, cut, owed, last, pooling>>
  BY DEF ReadLine, Step, config
<1>2. c \in Conns /\ Watched(k) /\ place[c] = "used"
  BY <1>1, Owns DEF Working
<1>3. PICK i \in 2 .. Len(lines[c]) + 1 :
         lines' = [lines EXCEPT ![c] = SubSeq(lines[c], i, Len(lines[c]))]
  BY DEF ReadLine
<1>4. lines[c] \in Seq(Lines)
  BY <1>2 DEF IInv, TypeOK
<1>5. /\ l = lines[c][1] /\ 1 \in 1 .. Len(lines[c])
      /\ \A j \in 1 .. Len(lines'[c]) :
            /\ j + i - 1 \in 1 .. Len(lines[c]) /\ j + i - 1 # 1
            /\ lines'[c][j] = lines[c][j + i - 1]
  <2>1. lines'[c] = SubSeq(lines[c], i, Len(lines[c]))
    BY <1>2, <1>3 DEF IInv, TypeOK
  <2>2. /\ Head(lines[c]) = lines[c][1] /\ 1 \in 1 .. Len(lines[c])
        /\ \A j \in 1 .. Len(SubSeq(lines[c], i, Len(lines[c]))) :
              /\ j + i - 1 \in 2 .. Len(lines[c])
              /\ SubSeq(lines[c], i, Len(lines[c]))[j] = lines[c][j + i - 1]
    BY <1>1, <1>4, Swallowed
  <2>3. \A n : n \in 2 .. Len(lines[c]) => n \in 1 .. Len(lines[c]) /\ n # 1
    BY <1>4
  <2> QED
    BY <2>1, <2>2, <2>3
<1>6. \A d \in Conns : d # c => lines'[d] = lines[d]
  BY <1>3 DEF IInv, TypeOK
<1>7. \/ Discarding(c)
      \/ l.nonce = k /\ l.header # "close" /\ UNCHANGED discarded
  BY DEF ReadLine, Spoils, ShouldClose, Matches, Expected
<1>8. \A d \in Conns : Unfit(d) => Unfit(d)'
  BY <1>1, <1>2, <1>7, DiscardingSays DEF Unfit
<1>9. (l.nonce = k /\ l.header # "close") \/ Unfit(c)'
  BY <1>1, <1>2, <1>7, DiscardingSays
<1>10. Len(lines[c]) \in Nat
  BY <1>4
<1> HIDE DEF l
<1>11. \A d \in Conns, j \in Calls : Awaited(d, j)' => Awaited(d, j)
  BY ReadLineAwaits
<1>12. ~Unfit(c)' => ~Awaited(c, k)'
  <2> SUFFICES ASSUME ~Unfit(c)' PROVE ~Awaited(c, k)'
    OBVIOUS
  <2>1. lines[c][1].nonce = k
    BY <1>5, <1>9
  <2>2. /\ k \notin owed[c]
        /\ \A j \in 1 .. Len(lines[c]) : lines[c][j].nonce = k => j = 1
    BY <1>2, <1>5, <2>1 DEF IInv, Custody, AnswersOnce
  <2>3. \A j \in 1 .. Len(lines'[c]) : lines'[c][j].nonce # k
    BY <1>5, <1>10, <2>2
  <2> QED
    BY <1>1, <2>2, <2>3 DEF Awaited
<1> HIDE DEF c
<1> USE <1>1, <1>2 DEF IInv, TypeOK, Custody
<1>13. OneWatcher'
  BY DEF OneWatcher, Watched
<1>14. WorksOnOwn'
  BY DEF WorksOnOwn, Watched, Working, Open
<1>15. ClosedInOrder'
  <2> SUFFICES ASSUME NEW j \in Calls
               PROVE  /\ done'[j] => pc'[j] = "returned"
                      /\ watch'[j] = "close" => done'[j] \/ Unfit(conn[j])'
    BY DEF ClosedInOrder
  <2>1. watch[j] = "close" => conn[j] \in Conns
    BY DEF OneWatcher, Watched
  <2> QED
    BY <1>8, <2>1 DEF ClosedInOrder
<1>16. AnswersHeld'
  <2> SUFFICES ASSUME NEW d \in Conns, NEW j \in Calls, Awaited(d, j)'
               PROVE  /\ place'[d] = "used" /\ conn'[j] = d /\ Watched(j)'
                      /\ pc'[j] \in {"expect", "read"}
                         \/ (pc'[j] \in {"leave", "returned"} /\ Unfit(d)')
    BY DEF AnswersHeld
  <2>1. /\ place[d] = "used" /\ conn[j] = d /\ Watched(j)
        /\ pc[j] \in {"expect", "read"}
           \/ (pc[j] \in {"leave", "returned"} /\ Unfit(d))
    BY <1>11 DEF AnswersHeld
  <2>2. j = k => Unfit(d)'
    BY <1>12, <2>1 DEF c
  <2> QED
    BY <1>8, <2>1, <2>2 DEF Watched
<1>17. AnswersOnce'
  <2> SUFFICES ASSUME NEW d \in Conns, NEW j \in Calls,
                      NEW g \in 1 .. Len(lines'[d]), lines'[d][g].nonce = j
               PROVE  /\ j \notin owed'[d]
                      /\ \A h \in 1 .. Len(lines'[d]) :
                            lines'[d][h].nonce = j => h = g
    BY DEF AnswersOnce
  <2>1. CASE d = c
    <3>1. /\ g \in 1 .. Len(lines'[c])
          /\ g + i - 1 \in 1 .. Len(lines[c])
          /\ lines[c][g + i - 1].nonce = j
      BY <1>5, <2>1
    <3>2. /\ j \notin owed[c]
          /\ \A h \in 1 .. Len(lines[c]) :
                lines[c][h].nonce = j => h = g + i - 1
      BY <3>1 DEF AnswersOnce
    <3>3. ASSUME NEW h \in 1 .. Len(lines'[d]), lines'[d][h].nonce = j
          PROVE  h = g
      <4>1. h \in 1 .. Len(lines'[c]) /\ lines'[c][h].nonce = j
        BY <2>1, <3>3
      <4>2. /\ h + i - 1 \in 1 .. Len(lines[c])
            /\ lines[c][h + i - 1].nonce = j
        BY <1>5, <4>1
      <4>3. h + i - 1 = g + i - 1
        BY <3>2, <4>2
      <4> QED
        BY <3>1, <4>1, <4>3, <1>10, SMT
    <3> QED
      BY <2>1, <3>2, <3>3
  <2>2. CASE d # c
    BY <1>6, <2>2 DEF AnswersOnce
  <2> QED
    BY <2>1, <2>2
<1>18. CutHeld'
  <2> SUFFICES ASSUME NEW d \in Conns, cut'[d] # {}
               PROVE  /\ place'[d] = "used"
                      /\ \E j \in Calls :
                            /\ conn'[j] = d
                            /\ \/ watch'[j] = "discard"
                               \/ watch'[j] = "close" /\ Unfit(d)'
    BY DEF CutHeld
  <2>1. PICK j \in Calls :
           /\ place[d] = "used" /\ conn[j] = d
           /\ watch[j] = "discard" \/ (watch[j] = "close" /\ Unfit(d))
    BY DEF CutHeld
  <2> QED
    BY <1>8, <2>1
<1>19. CloseHeeded'
  <2> SUFFICES ASSUME NEW d \in Conns, last'[d] = "close", ~Unfit(d)'
               PROVE  /\ place'[d] = "used"
                      /\ \E j \in 1 .. Len(lines'[d]) :
                            /\ lines'[d][j].nonce # NoNonce
                            /\ lines'[d][j].header = "close"
    BY <1>8 DEF CloseHeeded
  <2>1. PICK j \in 1 .. Len(lines[d]) :
           lines[d][j].nonce # NoNonce /\ lines[d][j].header = "close"
    BY <1>8 DEF CloseHeeded
  <2>2. place[d] = "used"
    BY DEF CloseHeeded
  <2>3. d # c
    <3> SUFFICES ASSUME d = c PROVE FALSE
      OBVIOUS
    <3>1. lines[c][j].nonce \in Calls
      BY <1>4, <2>1, LineNonces
    <3>2. conn[lines[c][j].nonce] = c /\ Watched(lines[c][j].nonce)
      BY <2>1, <3>1 DEF AnswersHeld, Awaited
    <3>3. lines[c][j].nonce = k
      BY <3>1, <3>2 DEF OneWatcher, c
    <3>4. ~Unfit(c)'
      BY DEF Unfit, c
    <3>5. lines[c][1].nonce = k /\ lines[c][1].header # "close"
      BY <1>5, <1>9, <3>4
    <3>6. j = 1
      BY <1>5, <2>1, <3>3, <3>5 DEF AnswersOnce
    <3> QED
      BY <2>1, <3>5, <3>6
  <2> QED
    BY <1>6, <2>1, <2>2, <2>3
<1>20. PoolOwesNothing'
  <2> SUFFICES ASSUME NEW d \in Conns, place'[d] = "pooled"
               PROVE  /\ owed'[d] = {} /\ cut'[d] = {}
                      /\ \A j \in 1 .. Len(lines'[d]) : lines'[d][j].nonce = NoNonce
    BY DEF PoolOwesNothing
  <2>1. d # c
    OBVIOUS
  <2> QED
    BY <1>6, <2>1 DEF PoolOwesNothing
<1> QED
  BY <1>13, <1>14, <1>15, <1>16, <1>17, <1>18, <1>19, <1>20

\* A read that failed and a connection cut off are discarded.
LEMMA DiscardKeeps ==
    ASSUME IInv, NEW k \in Calls, ReadFail(k) \/ WatchDiscard(k), TypeOK'
    PROVE  Custody' /\ PoolOwesNothing'
<1>1. /\ Discarding(conn[k])
      /\ UNCHANGED <<done, conn, place, cut, owed, lines, last, pooling>>
      /\ \/ /\ pc[k] = "read" /\ pc' = [pc EXCEPT ![k] = "leave"]
            /\ UNCHANGED watch
         \/ /\ watch[k] = "discard" /\ watch' = [watch EXCEPT ![k] = "close"]
            /\ UNCHANGED pc
  BY DEF ReadFail, WatchDiscard, Fail, Step, Watch, callVars, netVars, config
<1>2. conn[k] \in Conns /\ (Watched(k) \/ ~Open(conn[k]))
  BY <1>1 DEF IInv, Custody, OneWatcher, WorksOnOwn, Watched, Working
<1>3. \A d \in Conns : Unfit(d) => Unfit(d)'
  BY <1>1, <1>2, DiscardingSays
<1>4. Open(conn[k]) => Unfit(conn[k])'
  BY <1>1, <1>2, DiscardingSays
<1> USE <1>1, <1>2 DEF IInv, TypeOK, Custody
<1>5. OneWatcher'
  BY DEF OneWatcher, Watched
<1>6. WorksOnOwn'
  BY DEF WorksOnOwn, Watched, Working, Open
<1>7. ClosedInOrder'
  <2> SUFFICES ASSUME NEW j \in Calls
               PROVE  /\ done'[j] => pc'[j] = "returned"
                      /\ watch'[j] = "close" => done'[j] \/ Unfit(conn[j])'
    BY DEF ClosedInOrder
  <2>1. watch[j] \in {"close", "discard"} => conn[j] \in Conns /\ Open(conn[j])
    BY DEF OneWatcher, Watched, Open
  <2> QED
    BY <1>3, <1>4, <2>1 DEF ClosedInOrder
<1>8. AnswersHeld'
  <2> SUFFICES ASSUME NEW c \in Conns, NEW j \in Calls, Awaited(c, j)'
               PROVE  /\ place'[c] = "used" /\ conn'[j] = c /\ Watched(j)'
                      /\ pc'[j] \in {"expect", "read"}
                         \/ (pc'[j] \in {"leave", "returned"} /\ Unfit(c)')
    BY DEF AnswersHeld
  <2>1. Awaited(c, j)
    BY DEF Awaited
  <2>2. /\ place[c] = "used" /\ conn[j] = c /\ Watched(j)
        /\ pc[j] \in {"expect", "read"}
           \/ (pc[j] \in {"leave", "returned"} /\ Unfit(c))
    BY <2>1 DEF AnswersHeld
  <2> QED
    BY <1>3, <1>4, <2>2 DEF Watched, Open
<1>9. AnswersOnce' /\ PoolOwesNothing'
  BY DEF AnswersOnce, PoolOwesNothing
<1>10. CutHeld'
  <2> SUFFICES ASSUME NEW c \in Conns, cut'[c] # {}
               PROVE  /\ place'[c] = "used"
                      /\ \E j \in Calls :
                            /\ conn'[j] = c
                            /\ \/ watch'[j] = "discard"
                               \/ watch'[j] = "close" /\ Unfit(c)'
    BY DEF CutHeld
  <2>1. PICK j \in Calls :
           /\ place[c] = "used" /\ conn[j] = c
           /\ watch[j] = "discard" \/ (watch[j] = "close" /\ Unfit(c))
    BY DEF CutHeld
  <2> QED
    BY <1>3, <1>4, <2>1 DEF Open
<1>11. CloseHeeded'
  BY <1>3 DEF CloseHeeded
<1> QED
  BY <1>5, <1>6, <1>7, <1>8, <1>9, <1>10, <1>11

-----------------------------------------------------------------------------
(* The steps of a watcher.                                                 *)

\* The watcher hears of the context or of the end of the call.
LEMMA WatchMoves ==
    ASSUME IInv, NEW k \in Calls, TypeOK', WatchCtx(k) \/ WatchDone(k)
    PROVE  Custody' /\ PoolOwesNothing'
<1>1. UNCHANGED <<pc, done, conn, place, discarded, cut, owed, lines, last,
                  pooling>>
  BY DEF WatchCtx, WatchDone, callVars, connVars, netVars, config
<1>2. /\ watch[k] = "select"
      /\ watch'[k] \in {"cut", "close"}
      /\ \A j \in Calls : j # k => watch'[j] = watch[j]
  BY DEF WatchCtx, WatchDone, Watch, IInv, TypeOK
<1>3. watch'[k] = "close" => done[k]
  <2>1. CASE WatchCtx(k)
    BY <2>1 DEF WatchCtx, Watch, IInv, TypeOK
  <2>2. CASE WatchDone(k)
    BY <2>2, Zenon DEF WatchDone
  <2> QED
    BY <2>1, <2>2
<1>4. \A j \in Calls : Watched(j)' <=> Watched(j)
  BY <1>2 DEF Watched
<1> USE <1>1 DEF IInv, Custody
<1>5. OneWatcher'
  BY <1>4 DEF OneWatcher
<1>6. WorksOnOwn'
  BY <1>2, <1>4 DEF WorksOnOwn, Working, Open
<1>7. ClosedInOrder'
  <2> SUFFICES ASSUME NEW j \in Calls
               PROVE  /\ done'[j] => pc'[j] = "returned"
                      /\ watch'[j] = "close" => done'[j] \/ Unfit(conn[j])'
    BY DEF ClosedInOrder
  <2>1. watch'[j] = "close" => done[j] \/ Unfit(conn[j])
    BY <1>2, <1>3 DEF ClosedInOrder
  <2> QED
    BY <2>1 DEF ClosedInOrder, Unfit
<1>8. AnswersHeld'
  BY <1>4 DEF AnswersHeld, Awaited, Unfit
<1>9. AnswersOnce' /\ CloseHeeded' /\ PoolOwesNothing'
  BY DEF AnswersOnce, CloseHeeded, PoolOwesNothing, Unfit
<1>10. CutHeld'
  <2> SUFFICES ASSUME NEW d \in Conns, cut'[d] # {}
               PROVE  /\ place'[d] = "used"
                      /\ \E j \in Calls :
                            /\ conn'[j] = d
                            /\ \/ watch'[j] = "discard"
                               \/ watch'[j] = "close" /\ Unfit(d)'
    BY DEF CutHeld
  <2>1. PICK j \in Calls :
           /\ place[d] = "used" /\ conn[j] = d
           /\ watch[j] = "discard" \/ (watch[j] = "close" /\ Unfit(d))
    BY DEF CutHeld
  <2> QED
    BY <1>2, <2>1 DEF Unfit
<1> QED
  BY <1>5, <1>6, <1>7, <1>8, <1>9, <1>10

\* It cuts the connection off while the connection is still its own,
LEMMA WatchCutKeeps ==
    ASSUME IInv, NEW k \in Calls, WatchCut(k), TypeOK'
    PROVE  Custody' /\ PoolOwesNothing'
<1>1. /\ watch[k] = "cut" /\ watch' = [watch EXCEPT ![k] = "discard"]
      /\ \A c \in Conns : c # conn[k] => cut'[c] = cut[c]
      /\ UNCHANGED <<pc, done, conn, place, discarded, owed, lines, last,
                     pooling>>
  BY DEF WatchCut, Watch, callVars, netVars, config, IInv, TypeOK
<1>2. Watched(k) /\ conn[k] \in Conns /\ place[conn[k]] = "used"
  BY <1>1 DEF IInv, Custody, OneWatcher, Watched
<1> USE <1>1, <1>2 DEF IInv, TypeOK, Custody
<1>3. OneWatcher'
  BY DEF OneWatcher, Watched
<1>4. WorksOnOwn' /\ ClosedInOrder'
  BY DEF WorksOnOwn, ClosedInOrder, Watched, Working, Open, Unfit
<1>5. AnswersHeld' /\ AnswersOnce' /\ CloseHeeded'
  BY DEF AnswersHeld, AnswersOnce, CloseHeeded, Awaited, Watched, Unfit
<1>6. CutHeld'
  <2> SUFFICES ASSUME NEW c \in Conns, cut'[c] # {}
               PROVE  /\ place'[c] = "used"
                      /\ \E j \in Calls :
                            /\ conn'[j] = c
                            /\ \/ watch'[j] = "discard"
                               \/ watch'[j] = "close" /\ Unfit(c)'
    BY DEF CutHeld
  <2>1. CASE c = conn[k]
    BY <2>1
  <2>2. CASE c # conn[k]
    <3>1. PICK j \in Calls :
             /\ place[c] = "used" /\ conn[j] = c
             /\ watch[j] = "discard" \/ (watch[j] = "close" /\ Unfit(c))
      BY <2>2 DEF CutHeld
    <3> QED
      BY <2>2, <3>1 DEF Unfit
  <2> QED
    BY <2>1, <2>2
<1>7. PoolOwesNothing'
  <2>1. \A c \in Conns : place[c] = "pooled" => cut'[c] = cut[c]
    OBVIOUS
  <2> QED
    BY <2>1 DEF PoolOwesNothing
<1> QED
  BY <1>3, <1>4, <1>5, <1>6, <1>7

\* and gives it back: to the pool only if nothing is owed on it.
LEMMA WatchCloseKeeps ==
    ASSUME IInv, NEW k \in Calls, WatchClose(k), TypeOK'
    PROVE  Custody' /\ PoolOwesNothing'
<1>1. /\ watch[k] = "close" /\ watch' = [watch EXCEPT ![k] = "ended"]
      /\ UNCHANGED <<pc, done, conn, pooling>>
      /\ \/ Closing(conn[k])
         \/ /\ ~Unfit(conn[k])
            /\ place' = [place EXCEPT ![conn[k]] = "pooled"]
            /\ UNCHANGED <<discarded, cut, owed, lines, last>>
  BY DEF WatchClose, Watch, Pooling, Unfit, callVars, netVars, config
<1>2. Watched(k) /\ conn[k] \in Conns /\ place[conn[k]] = "used"
  BY <1>1 DEF IInv, Custody, OneWatcher, Watched
<1>3. \A j \in Calls : Watched(j) /\ conn[j] = conn[k] => j = k
  BY <1>2 DEF IInv, Custody, OneWatcher
<1>4. \A j \in Calls : conn[j] = conn[k] /\ j # k /\ Working(j) => FALSE
  BY <1>2, <1>3 DEF IInv, Custody, WorksOnOwn, Open
<1>5. \A d \in Conns \ {conn[k]} :
         /\ place'[d] = place[d] /\ cut'[d] = cut[d]
         /\ owed'[d] = owed[d] /\ lines'[d] = lines[d]
         /\ last'[d] = last[d] /\ (Unfit(d) => Unfit(d)')
  <2>1. CASE Closing(conn[k])
    BY <1>1, <1>2, <2>1, ClosingSays
  <2>2. CASE ~Closing(conn[k])
    BY <1>1, <1>2, <2>2 DEF Unfit, IInv, TypeOK
  <2> QED
    BY <2>1, <2>2
<1>6. ~Unfit(conn[k]) =>
         /\ pc[k] = "returned"
         /\ \A j \in Calls : ~Awaited(conn[k], j)
         /\ cut[conn[k]] = {}
         /\ last[conn[k]] # "close"
  <2> SUFFICES ASSUME ~Unfit(conn[k])
               PROVE  /\ pc[k] = "returned"
                      /\ \A j \in Calls : ~Awaited(conn[k], j)
                      /\ cut[conn[k]] = {}
                      /\ last[conn[k]] # "close"
    OBVIOUS
  <2>1. pc[k] = "returned"
    BY <1>1 DEF IInv, Custody, ClosedInOrder
  <2>2. \A j \in Calls : ~Awaited(conn[k], j)
    BY <1>2, <1>3, <2>1 DEF IInv, Custody, AnswersHeld
  <2>3. cut[conn[k]] = {}
    BY <1>1, <1>2, <1>3 DEF IInv, Custody, CutHeld, Watched
  <2>4. last[conn[k]] # "close"
    <3>1. \A i \in 1 .. Len(lines[conn[k]]) : lines[conn[k]][i].nonce = NoNonce
      BY <1>2, <2>2, LineNonces DEF IInv, TypeOK, Awaited
    <3> QED
      BY <1>2, <3>1 DEF IInv, Custody, CloseHeeded
  <2> QED
    BY <2>1, <2>2, <2>3, <2>4
<1>7. \/ /\ place'[conn[k]] = "closed" /\ cut'[conn[k]] = {}
         /\ owed'[conn[k]] = {} /\ lines'[conn[k]] = <<>>
         /\ last'[conn[k]] = "keep-alive"
      \/ /\ ~Unfit(conn[k]) /\ place'[conn[k]] = "pooled"
         /\ cut'[conn[k]] = cut[conn[k]] /\ owed'[conn[k]] = owed[conn[k]]
         /\ lines'[conn[k]] = lines[conn[k]]
         /\ last'[conn[k]] = last[conn[k]]
  <2>1. CASE Closing(conn[k])
    BY <1>1, <1>2, <2>1, ClosingSays
  <2>2. CASE ~Closing(conn[k])
    BY <1>1, <1>2, <2>2 DEF IInv, TypeOK
  <2> QED
    BY <2>1, <2>2
<1>8. /\ owed'[conn[k]] = {}
      /\ \A i \in 1 .. Len(lines'[conn[k]]) :
            lines'[conn[k]][i].nonce = NoNonce
  <2>1. CASE lines'[conn[k]] = <<>> /\ owed'[conn[k]] = {}
    BY <2>1
  <2>2. CASE /\ ~Unfit(conn[k]) /\ owed'[conn[k]] = owed[conn[k]]
             /\ lines'[conn[k]] = lines[conn[k]]
    <3>1. owed[conn[k]] = {}
      BY <1>2, <1>6, <2>2 DEF Awaited, IInv, TypeOK
    <3>2. \A i \in 1 .. Len(lines[conn[k]]) : lines[conn[k]][i].nonce = NoNonce
      BY <1>2, <1>6, <2>2, LineNonces DEF Awaited, IInv, TypeOK
    <3> QED
      BY <2>2, <3>1, <3>2
  <2> QED
    BY <1>7, <2>1, <2>2
<1> USE <1>2 DEF IInv, TypeOK, Custody
<1>9. OneWatcher'
  BY <1>1, <1>3, <1>5 DEF OneWatcher, Watched
<1>10. WorksOnOwn'
  <2> SUFFICES ASSUME NEW j \in Calls
               PROVE  /\ pc'[j] \in {"idle", "dial"} => watch'[j] = "none"
                      /\ Working(j)' =>
                           /\ conn'[j] \in Conns
                           /\ \/ Watched(j)'
                              \/ watch'[j] = "ended" /\ ~Open(conn[j])'
    BY DEF WorksOnOwn
  <2>1. CASE j = k
    BY <1>1, <1>6, <1>7, <2>1 DEF WorksOnOwn, Watched, Working, Open
  <2>2. CASE j # k
    BY <1>1, <1>4, <1>5, <2>2 DEF WorksOnOwn, Watched, Working, Open
  <2> QED
    BY <2>1, <2>2
<1>11. ClosedInOrder'
  <2> SUFFICES ASSUME NEW j \in Calls
               PROVE  /\ done'[j] => pc'[j] = "returned"
                      /\ watch'[j] = "close" => done'[j] \/ Unfit(conn[j])'
    BY DEF ClosedInOrder
  <2>1. done'[j] => pc'[j] = "returned"
    BY <1>1 DEF ClosedInOrder
  <2>2. ASSUME watch'[j] = "close" PROVE done'[j] \/ Unfit(conn[j])'
    <3>1. j # k /\ watch[j] = "close"
      BY <1>1, <2>2
    <3>2. conn[j] \in Conns \ {conn[k]}
      BY <1>3, <3>1 DEF OneWatcher, Watched
    <3>3. done[j] \/ Unfit(conn[j])
      BY <3>1 DEF ClosedInOrder
    <3> QED
      BY <1>1, <1>5, <3>2, <3>3
  <2> QED
    BY <2>1, <2>2
<1>12. AnswersHeld'
  <2> SUFFICES ASSUME NEW c \in Conns, NEW j \in Calls, Awaited(c, j)'
               PROVE  /\ place'[c] = "used" /\ conn'[j] = c /\ Watched(j)'
                      /\ pc'[j] \in {"expect", "read"}
                         \/ (pc'[j] \in {"leave", "returned"} /\ Unfit(c)')
    BY DEF AnswersHeld
  <2>1. c # conn[k]
    BY <1>8, ClientAssumption DEF Awaited
  <2>2. Awaited(c, j)
    BY <1>5, <2>1 DEF Awaited
  <2>3. /\ place[c] = "used" /\ conn[j] = c /\ Watched(j)
        /\ pc[j] \in {"expect", "read"}
           \/ (pc[j] \in {"leave", "returned"} /\ Unfit(c))
    BY <2>2 DEF AnswersHeld
  <2>4. j # k
    BY <2>1, <2>3
  <2> QED
    BY <1>1, <1>5, <2>1, <2>3, <2>4 DEF Watched
<1>13. AnswersOnce'
  <2> SUFFICES ASSUME NEW c \in Conns, NEW j \in Calls,
                      NEW i \in 1 .. Len(lines'[c]), lines'[c][i].nonce = j
               PROVE  /\ j \notin owed'[c]
                      /\ \A h \in 1 .. Len(lines'[c]) :
                            lines'[c][h].nonce = j => h = i
    BY DEF AnswersOnce
  <2>1. c # conn[k]
    BY <1>8, ClientAssumption
  <2> QED
    BY <1>5, <2>1 DEF AnswersOnce
<1>14. CutHeld'
  <2> SUFFICES ASSUME NEW c \in Conns, cut'[c] # {}
               PROVE  /\ place'[c] = "used"
                      /\ \E j \in Calls :
                            /\ conn'[j] = c
                            /\ \/ watch'[j] = "discard"
                               \/ watch'[j] = "close" /\ Unfit(c)'
    BY DEF CutHeld
  <2>1. c # conn[k]
    BY <1>6, <1>7
  <2>2. cut[c] # {}
    BY <1>5, <2>1
  <2>3. PICK j \in Calls :
           /\ place[c] = "used" /\ conn[j] = c
           /\ watch[j] = "discard" \/ (watch[j] = "close" /\ Unfit(c))
    BY <2>2 DEF CutHeld
  <2> QED
    BY <1>1, <1>5, <2>1, <2>3
<1>15. CloseHeeded'
  <2> SUFFICES ASSUME NEW c \in Conns, last'[c] = "close"
               PROVE  /\ place'[c] = "used"
                      /\ \/ Unfit(c)'
                         \/ \E i \in 1 .. Len(lines'[c]) :
                               /\ lines'[c][i].nonce # NoNonce
                               /\ lines'[c][i].header = "close"
    BY DEF CloseHeeded
  <2>1. c # conn[k]
    BY <1>6, <1>7
  <2>2. /\ place[c] = "used"
        /\ \/ Unfit(c)
           \/ \E i \in 1 .. Len(lines[c]) :
                 lines[c][i].nonce # NoNonce /\ lines[c][i].header = "close"
    BY <1>5, <2>1 DEF CloseHeeded
  <2>3. place'[c] = place[c] /\ lines'[c] = lines[c] /\ (Unfit(c) => Unfit(c)')
    BY <1>5, <2>1
  <2> HIDE DEF IInv, TypeOK, Custody
  <2> QED
    BY <2>2, <2>3
<1>16. PoolOwesNothing'
  <2> SUFFICES ASSUME NEW c \in Conns, place'[c] = "pooled"
               PROVE  /\ owed'[c] = {} /\ cut'[c] = {}
                      /\ \A i \in 1 .. Len(lines'[c]) : lines'[c][i].nonce = NoNonce
    BY DEF PoolOwesNothing
  <2>1. CASE c = conn[k]
    BY <1>6, <1>7, <1>8, <2>1
  <2>2. CASE c # conn[k]
    BY <1>5, <2>2 DEF PoolOwesNothing
  <2> QED
    BY <2>1, <2>2
<1> QED
  BY <1>9, <1>10, <1>11, <1>12, <1>13, <1>14, <1>15, <1>16

-----------------------------------------------------------------------------
(* The steps of the pool and of the server.                                *)

\* A connection in the pool has no user to miss it.
LEMMA PoolDropKeeps ==
    ASSUME IInv, NEW c \in Conns, PoolDrop(c), TypeOK'
    PROVE  Custody' /\ PoolOwesNothing'
<1>1. /\ place[c] = "pooled" /\ Closing(c)
      /\ UNCHANGED <<pc, done, conn, watch, pooling>>
  BY DEF PoolDrop, callVars, config
<1>2. /\ place'[c] = "closed" /\ cut'[c] = {} /\ owed'[c] = {}
      /\ lines'[c] = <<>> /\ last'[c] = "keep-alive"
      /\ \A d \in Conns \ {c} :
            /\ place'[d] = place[d] /\ cut'[d] = cut[d]
            /\ owed'[d] = owed[d] /\ lines'[d] = lines[d]
            /\ last'[d] = last[d] /\ (Unfit(d) => Unfit(d)')
  BY <1>1, ClosingSays
<1> USE <1>1 DEF IInv, TypeOK, Custody
<1>3. OneWatcher'
  BY <1>2 DEF OneWatcher, Watched
<1>4. WorksOnOwn'
  BY <1>2 DEF WorksOnOwn, OneWatcher, Watched, Working, Open
<1>5. ClosedInOrder'
  <2> SUFFICES ASSUME NEW j \in Calls
               PROVE  /\ done'[j] => pc'[j] = "returned"
                      /\ watch'[j] = "close" => done'[j] \/ Unfit(conn[j])'
    BY DEF ClosedInOrder
  <2>1. watch[j] = "close" => conn[j] \in Conns \ {c}
    BY DEF OneWatcher, Watched
  <2> QED
    BY <1>2, <2>1 DEF ClosedInOrder
<1>6. AnswersHeld'
  <2> SUFFICES ASSUME NEW d \in Conns, NEW j \in Calls, Awaited(d, j)'
               PROVE  /\ place'[d] = "used" /\ conn'[j] = d /\ Watched(j)'
                      /\ pc'[j] \in {"expect", "read"}
                         \/ (pc'[j] \in {"leave", "returned"} /\ Unfit(d)')
    BY DEF AnswersHeld
  <2>1. d # c
    BY <1>2 DEF Awaited
  <2>2. Awaited(d, j)
    BY <1>2, <2>1 DEF Awaited
  <2> QED
    BY <1>2, <2>1, <2>2 DEF AnswersHeld, Watched
<1>7. AnswersOnce'
  <2> SUFFICES ASSUME NEW d \in Conns, NEW j \in Calls,
                      NEW i \in 1 .. Len(lines'[d]), lines'[d][i].nonce = j
               PROVE  /\ j \notin owed'[d]
                      /\ \A h \in 1 .. Len(lines'[d]) :
                            lines'[d][h].nonce = j => h = i
    BY DEF AnswersOnce
  <2>1. d # c
    BY <1>2
  <2> QED
    BY <1>2, <2>1 DEF AnswersOnce
<1>8. CutHeld'
  <2> SUFFICES ASSUME NEW d \in Conns, cut'[d] # {}
               PROVE  /\ place'[d] = "used"
                      /\ \E j \in Calls :
                            /\ conn'[j] = d
                            /\ \/ watch'[j] = "discard"
                               \/ watch'[j] = "close" /\ Unfit(d)'
    BY DEF CutHeld
  <2>1. d # c
    BY <1>2
  <2> QED
    BY <1>2, <2>1 DEF CutHeld
<1>9. CloseHeeded'
  <2> SUFFICES ASSUME NEW d \in Conns, last'[d] = "close"
               PROVE  /\ place'[d] = "used"
                      /\ \/ Unfit(d)'
                         \/ \E i \in 1 .. Len(lines'[d]) :
                               /\ lines'[d][i].nonce # NoNonce
                               /\ lines'[d][i].header = "close"
    BY DEF CloseHeeded
  <2>1. d # c
    BY <1>2
  <2>2. /\ place[d] = "used"
        /\ \/ Unfit(d)
           \/ \E i \in 1 .. Len(lines[d]) :
                 lines[d][i].nonce # NoNonce /\ lines[d][i].header = "close"
    BY <1>2, <2>1 DEF CloseHeeded
  <2>3. place'[d] = place[d] /\ lines'[d] = lines[d] /\ (Unfit(d) => Unfit(d)')
    BY <1>2, <2>1
  <2> QED
    BY <2>2, <2>3
<1>10. PoolOwesNothing'
  <2> SUFFICES ASSUME NEW d \in Conns, place'[d] = "pooled"
               PROVE  /\ owed'[d] = {} /\ cut'[d] = {}
                      /\ \A i \in 1 .. Len(lines'[d]) : lines'[d][i].nonce = NoNonce
    BY DEF PoolOwesNothing
  <2>1. d # c
    BY <1>2
  <2> QED
    BY <1>2, <2>1 DEF PoolOwesNothing
<1> QED
  BY <1>3, <1>4, <1>5, <1>6, <1>7, <1>8, <1>9, <1>10

\* An answer takes the place of what was owed.
LEMMA ServerReplyKeeps ==
    ASSUME IInv, NEW c \in Conns, ServerReply(c), TypeOK'
    PROVE  Custody' /\ PoolOwesNothing'
<1>1. UNCHANGED <<pc, done, conn, watch, place, discarded, cut, pooling>>
  BY DEF ServerReply, callVars, connVars, config
<1>2. PICK k \in owed[c], h \in Headers :
         /\ owed' = [owed EXCEPT ![c] = owed[c] \ {k}]
         /\ lines' = [lines EXCEPT ![c] = Append(lines[c], Reply(k, h))]
         /\ last' = [last EXCEPT ![c] = h]
  <2>1. PICK k \in owed[c], a \in BOOLEAN, b \in BOOLEAN, own \in Headers :
           LET h == ReplyHeader(k, a, b, own) IN
           /\ owed' = [owed EXCEPT ![c] = @ \ {k}]
           /\ lines' = [lines EXCEPT ![c] = Append(@, Reply(k, h))]
           /\ last' = [last EXCEPT ![c] = h]
    BY DEF ServerReply
  <2>2. k \in Calls
    BY DEF IInv, TypeOK
  <2> QED
    BY <2>1, <2>2, ReplyTypes
<1>3. /\ k \in Calls /\ k # NoNonce
      /\ lines[c] \in Seq(Lines) /\ Reply(k, h) \in Lines
  <2>1. owed[c] \subseteq Calls /\ lines[c] \in Seq(Lines)
    BY DEF IInv, TypeOK
  <2>2. k \in Calls /\ k # NoNonce
    BY <2>1, ClientAssumption
  <2> QED
    BY <2>1, <2>2 DEF Lines, Reply
<1> DEFINE n == Len(lines[c])
<1>4. /\ n \in Nat
      /\ Len(lines'[c]) = n + 1
      /\ lines'[c][n + 1] = Reply(k, h)
      /\ \A i \in 1 .. n : lines'[c][i] = lines[c][i]
  <2>1. lines'[c] = Append(lines[c], Reply(k, h))
    BY <1>2 DEF IInv, TypeOK
  <2> QED
    BY <1>3, <2>1, LineSent
<1>5. /\ owed'[c] = owed[c] \ {k} /\ last'[c] = h
      /\ \A d \in Conns : d # c =>
            /\ owed'[d] = owed[d] /\ lines'[d] = lines[d]
            /\ last'[d] = last[d]
  BY <1>2 DEF IInv, TypeOK
<1>6. \A i \in 1 .. n + 1 : i \in 1 .. n \/ i = n + 1
  BY <1>4
<1>7. \A i \in 1 .. n : i \in 1 .. n + 1 /\ i # n + 1
  BY <1>4
<1>8. n + 1 \in 1 .. n + 1
  BY <1>4
<1>9. Reply(k, h).nonce = k /\ Reply(k, h).header = h
  BY DEF Reply
<1> HIDE DEF n
<1>10. Awaited(c, k)
  BY <1>3 DEF Awaited
<1>11. place[c] = "used"
  BY <1>3, <1>10 DEF IInv, Custody, AnswersHeld
<1>12. \A d \in Conns, j \in Calls : Awaited(d, j)' => Awaited(d, j)
  BY ServerReplyAwaits
<1>13. \A i \in 1 .. n : lines[c][i].nonce # k
  BY <1>3 DEF IInv, Custody, AnswersOnce, n
<1> USE <1>1 DEF IInv, Custody
<1>14. OneWatcher'
  BY DEF OneWatcher, Watched
<1>15. WorksOnOwn'
  BY DEF WorksOnOwn, Watched, Working, Open
<1>16. ClosedInOrder'
  BY DEF ClosedInOrder, Unfit
<1>17. AnswersHeld'
  BY <1>12 DEF AnswersHeld, Watched, Unfit
<1>18. AnswersOnce'
  <2> SUFFICES ASSUME NEW d \in Conns, NEW j \in Calls,
                      NEW g \in 1 .. Len(lines'[d]), lines'[d][g].nonce = j
               PROVE  /\ j \notin owed'[d]
                      /\ \A i \in 1 .. Len(lines'[d]) :
                            lines'[d][i].nonce = j => i = g
    BY DEF AnswersOnce
  <2>1. CASE d # c
    BY <1>5, <2>1 DEF AnswersOnce
  <2>2. CASE d = c /\ j = k
    <3>1. k \notin owed'[c]
      BY <1>5
    <3>2. \A i \in 1 .. n + 1 : lines'[c][i].nonce = k => i = n + 1
      BY <1>4, <1>6, <1>13
    <3> QED
      BY <1>4, <2>2, <3>1, <3>2
  <2>3. CASE d = c /\ j # k
    <3>1. \A i \in 1 .. n + 1 :
             lines'[c][i].nonce = j => i \in 1 .. n /\ lines[c][i].nonce = j
      BY <1>4, <1>6, <1>9, <2>3
    <3>2. g \in 1 .. n /\ lines[c][g].nonce = j
      BY <1>4, <2>3, <3>1
    <3>3. /\ j \notin owed[c]
          /\ \A i \in 1 .. n : lines[c][i].nonce = j => i = g
      BY <3>2 DEF AnswersOnce, n
    <3> QED
      BY <1>4, <1>5, <2>3, <3>1, <3>3
  <2> QED
    BY <2>1, <2>2, <2>3
<1>19. CutHeld'
  BY DEF CutHeld, Unfit
<1>20. CloseHeeded'
  <2> SUFFICES ASSUME NEW d \in Conns, last'[d] = "close"
               PROVE  /\ place'[d] = "used"
                      /\ \/ Unfit(d)'
                         \/ \E i \in 1 .. Len(lines'[d]) :
                               /\ lines'[d][i].nonce # NoNonce
                               /\ lines'[d][i].header = "close"
    BY DEF CloseHeeded
  <2>1. CASE d # c
    BY <1>5, <2>1 DEF CloseHeeded, Unfit
  <2>2. CASE d = c
    <3>1. /\ n + 1 \in 1 .. Len(lines'[c])
          /\ lines'[c][n + 1].nonce # NoNonce
          /\ lines'[c][n + 1].header = "close"
      BY <1>3, <1>4, <1>5, <1>8, <1>9, <2>2
    <3> QED
      BY <1>11, <2>2, <3>1
  <2> QED
    BY <2>1, <2>2
<1>21. PoolOwesNothing'
  <2> SUFFICES ASSUME NEW d \in Conns, place'[d] = "pooled"
               PROVE  /\ owed'[d] = {} /\ cut'[d] = {}
                      /\ \A i \in 1 .. Len(lines'[d]) :
                            lines'[d][i].nonce = NoNonce
    BY DEF PoolOwesNothing
  <2>1. d # c
    BY <1>11
  <2> QED
    BY <1>5, <2>1 DEF PoolOwesNothing
<1> QED
  BY <1>14, <1>15, <1>16, <1>17, <1>18, <1>19, <1>20, <1>21

\* A line that answers nobody is awaited by nobody.
LEMMA ServerStrayKeeps ==
    ASSUME IInv, NEW c \in Conns, ServerStray(c), TypeOK'
    PROVE  Custody' /\ PoolOwesNothing'
<1>1. /\ UNCHANGED <<pc, done, conn, watch, place, discarded, cut, owed, last,
                     pooling>>
      /\ lines' = [lines EXCEPT ![c] = Append(lines[c], NoReply)]
  BY DEF ServerStray, callVars, connVars, config
<1>2. lines[c] \in Seq(Lines) /\ NoReply \in Lines /\ NoNonce \notin Calls
  BY ClientAssumption DEF IInv, TypeOK, Lines, NoReply, Reply, Headers
<1> DEFINE n == Len(lines[c])
<1>3. /\ n \in Nat
      /\ Len(lines'[c]) = n + 1
      /\ lines'[c][n + 1] = NoReply
      /\ \A i \in 1 .. n : lines'[c][i] = lines[c][i]
  <2>1. lines'[c] = Append(lines[c], NoReply)
    BY <1>1 DEF IInv, TypeOK
  <2> QED
    BY <1>2, <2>1, LineSent
<1>4. \A d \in Conns : d # c => lines'[d] = lines[d]
  BY <1>1 DEF IInv, TypeOK
<1>5. \A i \in 1 .. n + 1 : i \in 1 .. n \/ i = n + 1
  BY <1>3
<1>6. \A i \in 1 .. n : i \in 1 .. n + 1
  BY <1>3
<1>7. NoReply.nonce = NoNonce
  BY DEF NoReply, Reply
<1> HIDE DEF n
<1>8. \A d \in Conns : \A i \in 1 .. Len(lines'[d]) :
         lines'[d][i].nonce # NoNonce =>
            i \in 1 .. Len(lines[d]) /\ lines'[d][i] = lines[d][i]
  <2> SUFFICES ASSUME NEW d \in Conns, NEW i \in 1 .. Len(lines'[d]),
                      lines'[d][i].nonce # NoNonce
               PROVE  i \in 1 .. Len(lines[d]) /\ lines'[d][i] = lines[d][i]
    OBVIOUS
  <2>1. CASE d # c
    BY <1>4, <2>1
  <2>2. CASE d = c
    BY <1>3, <1>5, <1>7, <2>2 DEF n
  <2> QED
    BY <2>1, <2>2
<1>9. \A d \in Conns, j \in Calls : Awaited(d, j)' => Awaited(d, j)
  BY <1>1, <1>2, <1>8 DEF Awaited
<1> USE <1>1 DEF IInv, Custody
<1>10. OneWatcher'
  BY DEF OneWatcher, Watched
<1>11. WorksOnOwn'
  BY DEF WorksOnOwn, Watched, Working, Open
<1>12. ClosedInOrder'
  BY DEF ClosedInOrder, Unfit
<1>13. AnswersHeld'
  BY <1>9 DEF AnswersHeld, Watched, Unfit
<1>14. AnswersOnce'
  BY <1>2, <1>8 DEF AnswersOnce
<1>15. CutHeld'
  BY DEF CutHeld, Unfit
<1>16. CloseHeeded'
  <2> SUFFICES ASSUME NEW d \in Conns, last'[d] = "close", ~Unfit(d)'
               PROVE  /\ place'[d] = "used"
                      /\ \E i \in 1 .. Len(lines'[d]) :
                            /\ lines'[d][i].nonce # NoNonce
                            /\ lines'[d][i].header = "close"
    BY DEF CloseHeeded, Unfit
  <2>1. place[d] = "used"
    BY DEF CloseHeeded
  <2>2. PICK i \in 1 .. Len(lines[d]) :
           lines[d][i].nonce # NoNonce /\ lines[d][i].header = "close"
    BY DEF CloseHeeded, Unfit
  <2>3. i \in 1 .. Len(lines'[d]) /\ lines'[d][i] = lines[d][i]
    BY <1>3, <1>4, <1>6, <2>2 DEF n
  <2> QED
    BY <2>1, <2>2, <2>3
<1>17. PoolOwesNothing'
  BY <1>8 DEF PoolOwesNothing
<1> QED
  BY <1>10, <1>11, <1>12, <1>13, <1>14, <1>15, <1>16, <1>17

\* A server that closes owes nothing.
LEMMA ServerCloseKeeps ==
    ASSUME IInv, NEW c \in Conns, ServerClose(c), TypeOK'
    PROVE  Custody' /\ PoolOwesNothing'
<1>1. /\ UNCHANGED <<pc, done, conn, watch, place, discarded, cut, lines, last,
                     pooling>>
      /\ owed' = [owed EXCEPT ![c] = {}]
  BY DEF ServerClose, callVars, connVars, config
<1>2. \A d \in Conns : owed'[d] = owed[d] \/ owed'[d] = {}
  BY <1>1 DEF IInv, TypeOK
<1>3. \A d \in Conns, j \in Calls : Awaited(d, j)' => Awaited(d, j)
  BY <1>1, <1>2 DEF Awaited
<1> USE <1>1 DEF IInv, Custody
<1>4. OneWatcher'
  BY DEF OneWatcher, Watched
<1>5. WorksOnOwn'
  BY DEF WorksOnOwn, Watched, Working, Open
<1>6. ClosedInOrder'
  BY DEF ClosedInOrder, Unfit
<1>7. AnswersHeld'
  BY <1>3 DEF AnswersHeld, Watched, Unfit
<1>8. AnswersOnce'
  BY <1>2 DEF AnswersOnce
<1>9. CutHeld' /\ CloseHeeded'
  BY DEF CutHeld, CloseHeeded, Unfit
<1>10. PoolOwesNothing'
  BY <1>2 DEF PoolOwesNothing
<1> QED
  BY <1>4, <1>5, <1>6, <1>7, <1>8, <1>9, <1>10

-----------------------------------------------------------------------------
(* The theorems.                                                           *)

\* The invariant is inductive.
LEMMA Inductive == Spec => []IInv
<1>1. IInv /\ [Next]_vars => IInv'
  <2> SUFFICES ASSUME IInv, [Next]_vars PROVE IInv'
    OBVIOUS
  <2>1. ASSUME NEW k \in Calls, CallStep(k) PROVE IInv'
    <3>1. TypeOK'
      BY <2>1, CallTypes
    <3>2. Custody' /\ PoolOwesNothing'
      BY <2>1, <3>1, CallMoves, DialKeeps, ArmKeeps, WriteKeeps, ReadLineKeeps,
         DiscardKeeps DEF CallStep
    <3> QED
      BY <3>1, <3>2 DEF IInv
  <2>2. ASSUME NEW k \in Calls, WatchStep(k) PROVE IInv'
    <3>1. TypeOK'
      BY <2>2, WatchTypes
    <3>2. Custody' /\ PoolOwesNothing'
      BY <2>2, <3>1, WatchMoves, WatchCutKeeps, DiscardKeeps, WatchCloseKeeps
         DEF WatchStep
    <3> QED
      BY <3>1, <3>2 DEF IInv
  <2>3. ASSUME NEW c \in Conns, ConnStep(c) PROVE IInv'
    <3>1. TypeOK'
      BY <2>3, ConnTypes
    <3>2. Custody' /\ PoolOwesNothing'
      BY <2>3, <3>1, PoolDropKeeps, ServerReplyKeeps, ServerStrayKeeps,
         ServerCloseKeeps DEF ConnStep
    <3> QED
      BY <3>1, <3>2 DEF IInv
  <2>4. CASE UNCHANGED vars
    BY <2>4 DEF vars, callVars, connVars, netVars, config, IInv, TypeOK, Custody,
         OneWatcher, WorksOnOwn, ClosedInOrder, AnswersHeld, AnswersOnce, CutHeld,
         CloseHeeded, PoolOwesNothing, Awaited, Watched, Working, Unfit, Open
  <2> QED
    BY <2>1, <2>2, <2>3, <2>4 DEF Next, Finished
<1> QED
  BY <1>1, InitInv, PTL DEF Spec

\* Every variable keeps its type.
THEOREM TypesKept == Spec => []TypeOK
<1>1. IInv => TypeOK
  BY DEF IInv
<1> QED
  BY <1>1, Inductive, PTL

\* From the dialling of a connection to its return, one call and its watcher
\* answer for it (client.go:109-162).
THEOREM CustodyKept == Spec => []Custody
<1>1. IInv => Custody
  BY DEF IInv
<1> QED
  BY <1>1, Inductive, PTL

\* No late answer, and no deadline long past, waits in the pool for the next
\* call (client.go:129).
THEOREM PoolIsClean == Spec => []PoolOwesNothing
<1>1. IInv => PoolOwesNothing
  BY DEF IInv
<1> QED
  BY <1>1, Inductive, PTL

\* A connection is not handed to a call while another, or its watcher, may
\* still write, read, cut or close it (client.go:123-136).
THEOREM UsedByOne == Spec => []OneUser
<1>1. IInv => OneUser
  <2> SUFFICES ASSUME IInv, NEW k \in Calls, NEW j \in Calls,
                      Uses(k), Uses(j), k # j
               PROVE  conn[k] # conn[j]
    BY DEF OneUser
  <2>1. \A i \in Calls : Uses(i) => Watched(i)
    BY DEF Uses, IInv, Custody, WorksOnOwn, Working, Watched
  <2> QED
    BY <2>1 DEF IInv, Custody, OneWatcher
<1> QED
  BY <1>1, Inductive, PTL

\* A connection is never pooled after a reply that says close (client.go:156-162):
\* one that the server closes all the same had a reply without a Connection header,
\* or with a value of the handler's own.
THEOREM PoolHeedsClose == Spec => []PoolKeptByServer
<1>1. IInv => PoolKeptByServer
  <2> SUFFICES ASSUME IInv, NEW c \in Conns, place[c] = "pooled",
                      ClosesAfter(last[c])
               PROVE  last[c] \in {"none", "other"}
    BY DEF PoolKeptByServer
  <2>1. last[c] # "close"
    BY DEF IInv, Custody, CloseHeeded
  <2>2. last[c] \in Headers
    BY DEF IInv, TypeOK
  <2> QED
    BY <2>1, <2>2 DEF ClosesAfter, Headers
<1> QED
  BY <1>1, Inductive, PTL

-----------------------------------------------------------------------------
(* Calls keep the promise of Rpc.                                          *)

Phases == [k \in Calls |-> CallPhase(k)]
Drawn  == [k \in Calls |-> CallNonce(k)]
Heard  == {k \in Calls : \E c \in Conns : Awaited(c, k)}

\* A call that is still at work has not failed.
FailedLast ==
    \A k \in Calls : err[k] => pc[k] \in {"leave", "returned"}

LEMMA FailsLast == Spec => []FailedLast
<1>1. Init => FailedLast
  BY DEF Init, FailedLast
<1>2. IInv /\ FailedLast /\ [Next]_vars => FailedLast'
  <2> SUFFICES ASSUME IInv, FailedLast, [Next]_vars PROVE FailedLast'
    OBVIOUS
  <2> USE DEF FailedLast, IInv, TypeOK
  <2>1. CASE UNCHANGED <<pc, err>>
    BY <2>1
  <2>2. ASSUME NEW k \in Calls, CallStep(k) PROVE FailedLast'
    <3>1. CASE Start(k) \/ Dial(k) \/ Write(k) \/ Cancel(k)
      BY <3>1 DEF Start, Dial, Write, Cancel, Step, callVars
    <3>2. CASE DialFail(k) \/ WriteFail(k) \/ ReadFail(k)
      BY <3>2 DEF DialFail, WriteFail, ReadFail, Fail, Step
    <3>3. CASE ArmWrite(k) \/ ArmRead(k)
      <4>1. \/ UNCHANGED err /\ pc[k] \in {"arm", "expect"}
               /\ \E to \in {"write", "read"} : pc' = [pc EXCEPT ![k] = to]
            \/ /\ pc' = [pc EXCEPT ![k] = "leave"]
               /\ err' = [err EXCEPT ![k] = TRUE]
        BY <3>3 DEF ArmWrite, ArmRead, Arm, ArmFail, Fail, Step, callVars
      <4> QED
        BY <4>1
    <3>4. CASE ReadLine(k) \/ Leave(k)
      <4>1. /\ \E to \in {"leave", "returned"} : pc' = [pc EXCEPT ![k] = to]
            /\ err' = err \/ err' = [err EXCEPT ![k] = TRUE]
        BY <3>4, Zenon DEF ReadLine, Leave, Step
      <4> QED
        BY <4>1
    <3> QED
      BY <2>2, <3>1, <3>2, <3>3, <3>4 DEF CallStep
  <2>3. ASSUME NEW k \in Calls, WatchStep(k) PROVE FailedLast'
    BY <2>1, <2>3 DEF WatchStep, WatchCtx, WatchDone, WatchCut, WatchDiscard,
                      WatchClose, callVars
  <2>4. ASSUME NEW c \in Conns, ConnStep(c) PROVE FailedLast'
    BY <2>1, <2>4 DEF ConnStep, PoolDrop, ServerReply, ServerStray,
                      ServerClose, callVars
  <2> QED
    BY <2>1, <2>2, <2>3, <2>4 DEF Next, Finished, vars, callVars
<1> QED
  BY <1>1, <1>2, Inductive, PTL DEF Spec

\* A step of one call, or of its watcher, moves no other call.
LEMMA OnePhase ==
    ASSUME NEW k \in Calls,
           \A j \in Calls \ {k} :
              pc'[j] = pc[j] /\ err'[j] = err[j] /\ watch'[j] = watch[j]
    PROVE  /\ Phases' = [Phases EXCEPT ![k] = CallPhase(k)']
           /\ Drawn' = [Drawn EXCEPT ![k] = CallNonce(k)']
<1>1. \A j \in Calls \ {k} :
         CallPhase(j)' = CallPhase(j) /\ CallNonce(j)' = CallNonce(j)
  BY DEF CallPhase, CallNonce
<1> QED
  BY <1>1 DEF Phases, Drawn

\* What Rpc sees of it.
LEMMA CallSeen ==
    ASSUME IInv, NEW k \in Calls, CallStep(k)
    PROVE  \A j \in Calls \ {k} :
              pc'[j] = pc[j] /\ err'[j] = err[j] /\ watch'[j] = watch[j]
<1> USE DEF IInv, TypeOK
<1>1. /\ UNCHANGED pc \/ \E to : pc' = [pc EXCEPT ![k] = to]
      /\ UNCHANGED err \/ err' = [err EXCEPT ![k] = TRUE]
      /\ UNCHANGED watch \/ watch' = [watch EXCEPT ![k] = "select"]
  <2>1. CASE Start(k) \/ Dial(k) \/ Write(k) \/ Cancel(k)
    BY <2>1, Zenon DEF Start, Dial, Write, Cancel, Step, callVars
  <2>2. CASE DialFail(k) \/ WriteFail(k) \/ ReadFail(k)
    BY <2>2, Zenon DEF DialFail, WriteFail, ReadFail, Fail, Step
  <2>3. CASE ArmWrite(k) \/ ArmRead(k)
    BY <2>3, Zenon DEF ArmWrite, ArmRead, Arm, ArmFail, Fail, Step, callVars
  <2>4. CASE ReadLine(k) \/ Leave(k)
    BY <2>4, Zenon DEF ReadLine, Leave, Step
  <2> QED
    BY <2>1, <2>2, <2>3, <2>4 DEF CallStep
<1> QED
  BY <1>1

\* A call at work has its nonce, one that has no connection yet has none.
LEMMA NonceOf ==
    ASSUME IInv, NEW k \in Calls
    PROVE  /\ pc[k] \in {"idle", "dial"} => CallNonce(k) = NoNonce
           /\ Working(k) => CallNonce(k) = k
  BY DEF IInv, Custody, WorksOnOwn, Watched, Working, CallNonce

\* Only a request that is written makes an answer to it possible.
LEMMA HeardFrom ==
    ASSUME \A d \in Conns, j \in Calls : Awaited(d, j)' => Awaited(d, j)
    PROVE  Heard' \subseteq Heard
  BY DEF Heard

LEMMA SameHeard ==
    ASSUME UNCHANGED <<owed, lines>>
    PROVE  Heard' = Heard
  BY DEF Heard, Awaited

\* What a call does is one step of a call of Rpc.
LEMMA CallPromise ==
    ASSUME IInv, FailedLast, NEW k \in Calls, CallStep(k)
    PROVE  Promise!Next \/ UNCHANGED Promise!vars
<1>t. /\ pc \in [Calls -> {"idle", "dial", "arm", "write", "expect", "read",
                           "leave", "returned"}]
      /\ err \in [Calls -> BOOLEAN] /\ conn \in [Calls -> Conns \cup {NoConn}]
      /\ watch \in [Calls -> {"none", "select", "cut", "discard", "close",
                              "ended"}]
      /\ owed \in [Conns -> SUBSET Calls]
  BY DEF IInv, TypeOK
<1>e. /\ Phases' = [Phases EXCEPT ![k] = CallPhase(k)']
      /\ Drawn' = [Drawn EXCEPT ![k] = CallNonce(k)']
      /\ Phases[k] = CallPhase(k) /\ Drawn[k] = CallNonce(k)
  BY CallSeen, OnePhase DEF Phases, Drawn
<1>n. Drawn' = Drawn \/ CallNonce(k)' # CallNonce(k)
  BY <1>e DEF Drawn
<1> DEFINE Goes(from, to) == CallPhase(k) = from /\ CallPhase(k)' = to
<1>1. CASE Start(k)
  <2>1. pc[k] = "idle" /\ pc'[k] = "dial" /\ UNCHANGED <<err, watch, owed, lines>>
    BY <1>1, <1>t DEF Start, Step, netVars
  <2>2. Goes("out", "admitted") /\ CallNonce(k)' = CallNonce(k)
    BY <2>1 DEF CallPhase, CallNonce
  <2>3. Promise!Admit(k)
    BY <1>e, <1>n, <2>1, <2>2, SameHeard
       DEF Promise!Admit, Promise!Goes, Phases, Drawn, Heard
  <2> QED
    BY <2>3 DEF Promise!Next
<1>2. CASE Dial(k)
  <2>1. /\ pc[k] = "dial" /\ pc'[k] = "arm" /\ watch'[k] = "select"
        /\ UNCHANGED <<err, owed, lines>>
    BY <1>2, <1>t DEF Dial, Step, netVars
  <2>2. Goes("admitted", "asking") /\ CallNonce(k)' = k
    BY <2>1 DEF CallPhase, CallNonce
  <2>3. \A j \in Calls : CallNonce(j) # k
    <3>1. CallNonce(k) = NoNonce
      BY <2>1, NonceOf
    <3>2. \A j \in Calls : CallNonce(j) \in {NoNonce, j}
      BY DEF CallNonce
    <3> QED
      BY <3>1, <3>2, ClientAssumption
  <2>4. Promise!Draw(k)
    BY <1>e, <2>1, <2>2, <2>3, SameHeard
       DEF Promise!Draw, Promise!Goes, Phases, Drawn, Heard
  <2> QED
    BY <2>4 DEF Promise!Next
<1>3. CASE DialFail(k) \/ WriteFail(k) \/ ReadFail(k)
           \/ ArmFail(k, "arm") \/ ArmFail(k, "expect")
  <2>1. /\ pc[k] \in {"dial", "arm", "write", "expect", "read"}
        /\ pc'[k] = "leave" /\ err'[k] = TRUE
        /\ UNCHANGED <<watch, owed, lines>>
    BY <1>3, <1>t DEF DialFail, WriteFail, ReadFail, ArmFail, Fail, Step, netVars
  <2>2. /\ CallPhase(k) \in {"admitted", "asking", "waiting"}
        /\ CallPhase(k)' = "failed"
    BY <2>1 DEF CallPhase
  <2>3. CallNonce(k)' = CallNonce(k)
    BY <2>1 DEF CallNonce
  <2>4. Promise!Fail(k)
    BY <1>e, <1>n, <2>1, <2>2, <2>3, SameHeard
       DEF Promise!Fail, Promise!Goes, Phases, Drawn, Heard
  <2> QED
    BY <2>4 DEF Promise!Next
<1>4. CASE Arm(k, "arm", "write", "write") \/ Arm(k, "expect", "read", "read")
  <2>1. /\ \/ pc[k] = "arm" /\ pc'[k] = "write"
           \/ pc[k] = "expect" /\ pc'[k] = "read"
        /\ UNCHANGED <<err, watch, owed, lines>>
    BY <1>4, <1>t DEF Arm, Step, callVars, netVars
  <2>2. CallPhase(k)' = CallPhase(k) /\ CallNonce(k)' = CallNonce(k)
    BY <2>1 DEF CallPhase, CallNonce
  <2> QED
    BY <1>e, <1>n, <2>1, <2>2, SameHeard
       DEF Promise!vars, Phases, Drawn, Heard
<1>5. CASE Write(k)
  <2>1. /\ pc[k] = "write" /\ pc'[k] = "expect" /\ UNCHANGED <<err, watch, lines>>
        /\ \/ UNCHANGED owed
           \/ owed' = [owed EXCEPT ![conn[k]] = owed[conn[k]] \cup {k}]
    BY <1>5, <1>t, Zenon DEF Write, Step, Sent, callVars
  <2>2. Goes("asking", "waiting") /\ CallNonce(k)' = CallNonce(k)
    BY <2>1 DEF CallPhase, CallNonce
  <2>3. CallNonce(k) = k /\ conn[k] \in Conns
    BY <2>1, NonceOf, Owns DEF Working
  <2>4. Heard' \in {Heard, Heard \cup {k}}
    <3>1. CASE UNCHANGED owed
      BY <2>1, <3>1, SameHeard
    <3>2. CASE owed' = [owed EXCEPT ![conn[k]] = owed[conn[k]] \cup {k}]
      <4>1. \A c \in Conns, j \in Calls :
               Awaited(c, j)' <=> Awaited(c, j) \/ (c = conn[k] /\ j = k)
        BY <1>t, <2>1, <2>3, <3>2 DEF Awaited
      <4> QED
        BY <2>3, <4>1 DEF Heard
    <3> QED
      BY <2>1, <3>1, <3>2
  <2>5. Promise!Send(k)
    BY <1>e, <1>n, <2>2, <2>3, <2>4
       DEF Promise!Send, Promise!Goes, Phases, Drawn, Heard
  <2> QED
    BY <2>5 DEF Promise!Next
<1>6. CASE ReadLine(k)
  <2> DEFINE l == Head(lines[conn[k]])
  <2>1. /\ pc[k] = "read" /\ pc'[k] = "leave" /\ UNCHANGED watch
        /\ IF Matches(k, l) THEN UNCHANGED err
                            ELSE err' = [err EXCEPT ![k] = TRUE]
    BY <1>6, <1>t DEF ReadLine, Step
  <2>2. CallNonce(k)' = CallNonce(k) /\ CallNonce(k) = k
    BY <2>1, NonceOf DEF CallNonce, Working
  <2>3. Heard' \subseteq Heard
    BY <1>6, ReadLineAwaits, HeardFrom
  <2>4. CASE Matches(k, l)
    <3>1. Goes("waiting", "answered")
      BY <1>t, <2>1, <2>4 DEF CallPhase, FailedLast
    <3>2. k \in Heard
      <4>1. /\ conn[k] \in Conns /\ lines[conn[k]] \in Seq(Lines)
            /\ lines[conn[k]] # <<>>
        BY <1>6, <2>1, Owns DEF Working, ReadLine, IInv, TypeOK
      <4>2. l = lines[conn[k]][1] /\ 1 \in 1 .. Len(lines[conn[k]])
        BY <4>1, EmptySeq, HeadTailProperties
      <4>3. l.nonce = k
        BY <2>4 DEF Matches, Expected
      <4>4. lines[conn[k]][1].nonce = k
        BY <4>2, <4>3
      <4>5. Awaited(conn[k], k)
        BY <4>2, <4>4 DEF Awaited
      <4> QED
        BY <4>1, <4>5 DEF Heard
    <3>3. Promise!Answer(k)
      BY <1>e, <1>n, <2>2, <2>3, <3>1, <3>2
         DEF Promise!Answer, Promise!Goes, Phases, Drawn, Heard
    <3> QED
      BY <3>3 DEF Promise!Next
  <2>5. CASE ~Matches(k, l)
    <3>1. Goes("waiting", "failed")
      BY <1>t, <2>1, <2>5 DEF CallPhase
    <3>2. Promise!Fail(k)
      BY <1>e, <1>n, <2>2, <2>3, <3>1
         DEF Promise!Fail, Promise!Goes, Phases, Drawn, Heard
    <3> QED
      BY <3>2 DEF Promise!Next
  <2> QED
    BY <2>4, <2>5
<1>7. CASE Leave(k)
  <2>1. /\ pc[k] = "leave" /\ pc'[k] = "returned" /\ UNCHANGED <<owed, lines>>
    BY <1>7, <1>t DEF Leave, Step, netVars
  <2>2. /\ CallPhase(k) \in {"answered", "failed"} /\ CallPhase(k)' = "out"
        /\ CallNonce(k)' = NoNonce
    BY <2>1 DEF CallPhase, CallNonce
  <2>3. Promise!Return(k)
    BY <1>e, <2>1, <2>2, SameHeard
       DEF Promise!Return, Promise!Goes, Phases, Drawn, Heard
  <2> QED
    BY <2>3 DEF Promise!Next
<1>8. CASE Cancel(k)
  <2>1. UNCHANGED <<pc, err, watch, owed, lines>>
    BY <1>8 DEF Cancel, netVars
  <2> QED
    BY <2>1, SameHeard
       DEF Promise!vars, Heard, CallPhase, CallNonce
<1> QED
  BY <1>1, <1>2, <1>3, <1>4, <1>5, <1>6, <1>7, <1>8
     DEF CallStep, ArmWrite, ArmRead

\* What else happens may only make an answer fail to come.
LEMMA OthersPromise ==
    ASSUME IInv,
           \/ \E k \in Calls : WatchStep(k)
           \/ \E c \in Conns : ConnStep(c)
    PROVE  Promise!Next \/ UNCHANGED Promise!vars
<1>1. /\ UNCHANGED <<pc, err>>
      /\ \A j \in Calls : \/ watch'[j] = watch[j]
                          \/ watch[j] # "none" /\ watch'[j] # "none"
  BY DEF WatchStep, WatchCtx, WatchDone, WatchCut, WatchDiscard, WatchClose,
         Watch, ConnStep, PoolDrop, ServerReply, ServerStray, ServerClose,
         callVars, IInv, TypeOK
<1>2. \A j \in Calls : CallPhase(j)' = CallPhase(j) /\ CallNonce(j)' = CallNonce(j)
  BY <1>1 DEF CallPhase, CallNonce
<1>3. UNCHANGED <<Phases, Drawn>>
  BY <1>2 DEF Phases, Drawn
<1>4. Heard' \subseteq Heard
  BY OthersAwait, HeardFrom
<1>5. Promise!Forget
  BY <1>3, <1>4 DEF Promise!Forget, Phases, Drawn, Heard
<1> QED
  BY <1>5 DEF Promise!Next

\* The calls of a client are calls as Rpc promises them: what DoCtx returns as
\* the response is an answer the server owed to this very call
\* (client.go:109-162, func.go:194-237).
THEOREM CallsKeepPromise == Spec => RpcSpec
<1>1. Init => Promise!Init
  BY DEF Init, Promise!Init, CallPhase, CallNonce, Awaited
<1>2. IInv /\ FailedLast /\ [Next]_vars => [Promise!Next]_(Promise!vars)
  <2> SUFFICES ASSUME IInv, FailedLast, [Next]_vars
               PROVE  Promise!Next \/ UNCHANGED Promise!vars
    OBVIOUS
  <2>1. ASSUME NEW k \in Calls, CallStep(k)
        PROVE  Promise!Next \/ UNCHANGED Promise!vars
    BY <2>1, CallPromise
  <2>2. CASE \/ \E k \in Calls : WatchStep(k)
             \/ \E c \in Conns : ConnStep(c)
    BY <2>2, OthersPromise
  <2>3. CASE UNCHANGED vars
    BY <2>3 DEF vars, callVars, netVars, Promise!vars, CallPhase, CallNonce,
                Awaited
  <2> QED
    BY <2>1, <2>2, <2>3 DEF Next, Finished
<1> QED
  BY <1>1, <1>2, Inductive, FailsLast, PTL DEF Spec, RpcSpec, Promise!Spec

\* Nothing a server sends makes a call without a nonce succeed
\* (client.go:76-86; func.go:199-221).
THEOREM NamelessNeverSucceed == Spec => []NamelessFails
<1>1. Init => NamelessFails
  BY ClientAssumption DEF Init, NamelessFails
<1>2. IInv /\ NamelessFails /\ [Next]_vars => NamelessFails'
  <2> SUFFICES ASSUME IInv, NamelessFails, [Next]_vars PROVE NamelessFails'
    OBVIOUS
  <2> USE ClientAssumption DEF NamelessFails, IInv, TypeOK
  <2>1. CASE UNCHANGED <<pc, err>>
    BY <2>1
  <2>2. ASSUME NEW k \in Calls, CallStep(k) PROVE NamelessFails'
    <3>1. CASE Start(k) \/ Dial(k) \/ Write(k) \/ Cancel(k)
      BY <3>1 DEF Start, Dial, Write, Cancel, Step, callVars
    <3>2. CASE DialFail(k) \/ WriteFail(k) \/ ReadFail(k)
      BY <3>2 DEF DialFail, WriteFail, ReadFail, Fail, Step
    <3>3. CASE ArmWrite(k) \/ ArmRead(k)
      <4>1. \/ UNCHANGED err /\ pc[k] \in {"arm", "expect"}
               /\ \E to \in {"write", "read"} : pc' = [pc EXCEPT ![k] = to]
            \/ /\ pc' = [pc EXCEPT ![k] = "leave"]
               /\ err' = [err EXCEPT ![k] = TRUE]
        BY <3>3 DEF ArmWrite, ArmRead, Arm, ArmFail, Fail, Step, callVars
      <4> QED
        BY <4>1
    <3>4. CASE ReadLine(k)
      <4>1. \/ k \notin Nameless /\ UNCHANGED err
            \/ err' = [err EXCEPT ![k] = TRUE]
        BY <3>4 DEF ReadLine, Matches, Expected
      <4>2. pc' = [pc EXCEPT ![k] = "leave"]
        BY <3>4 DEF ReadLine, Step
      <4> QED
        BY <4>1, <4>2
    <3>5. CASE Leave(k)
      <4>1. /\ pc[k] = "leave" /\ pc' = [pc EXCEPT ![k] = "returned"]
            /\ err' = err \/ err' = [err EXCEPT ![k] = TRUE]
        BY <3>5, Zenon DEF Leave, Step
      <4> QED
        BY <4>1
    <3> QED
      BY <2>2, <3>1, <3>2, <3>3, <3>4, <3>5 DEF CallStep
  <2>3. ASSUME NEW k \in Calls, WatchStep(k) PROVE NamelessFails'
    BY <2>1, <2>3 DEF WatchStep, WatchCtx, WatchDone, WatchCut, WatchDiscard,
                      WatchClose, callVars
  <2>4. ASSUME NEW c \in Conns, ConnStep(c) PROVE NamelessFails'
    BY <2>1, <2>4 DEF ConnStep, PoolDrop, ServerReply, ServerStray,
                      ServerClose, callVars
  <2> QED
    BY <2>1, <2>2, <2>3, <2>4 DEF Next, Finished, vars, callVars
<1> QED
  BY <1>1, <1>2, Inductive, PTL DEF Spec

=============================================================================

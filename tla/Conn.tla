-------------------------------- MODULE Conn --------------------------------
(***************************************************************************)
(* One device connection of the viot server (src/conn.go), together with   *)
(* the parts of responseWrite.go, dataWriter.go and server.go that change  *)
(* its state.  The actors are                                              *)
(*   - the goroutine running conn.serve, with the handler it calls;        *)
(*   - the launchers: goroutines that call RoundTrip on the connection to  *)
(*     send a request TO the device and wait for its answer;               *)
(*   - the device, at the other end of the socket;                         *)
(*   - the server: Shutdown, Close, SetKeepAlivesEnabled.                  *)
(*                                                                         *)
(* conn.mu is modelled where the code takes it and, as importantly, not    *)
(* where the code does not: the serve goroutine writes its replies,        *)
(* RawControl stores its function and inLaunch is read without the mutex.  *)
(***************************************************************************)
EXTENDS Naturals, Sequences

CONSTANTS
    Launchers,      \* goroutines that may call RoundTrip
    Nonces,         \* the values Nonce() draws from
    NoLauncher,     \* "no launcher"; also a free mutex
    Serve,          \* the serve goroutine, as a holder of the mutex
    NoNonce,        \* the nonce of a line that is not an answer
    WithDeadline,   \* launchers whose context ends by itself
    MaxInq,         \* bound: lines of the device not yet read by the server
    Transports,     \* kinds of socket accepted, a subset of {"tcp", "tls"}
    Kinds,          \* kinds of line the device sends besides answers
    HandlerOps,     \* what handlers do besides replying
    ServerOps,      \* what the owner of the Server does
    Timeouts        \* sets of time limits the Server may have been given

ASSUME ConnAssumption ==
    /\ NoLauncher \notin Launchers
    /\ Serve \notin Launchers \cup {NoLauncher}
    /\ NoNonce \notin Nonces
    /\ WithDeadline \subseteq Launchers
    /\ MaxInq \in Nat
    /\ Transports \subseteq {"tcp", "tls"}
    /\ Kinds \subseteq {"request", "malformed", "other", "blank"}
    /\ HandlerOps \subseteq {"hijack", "raw", "launch", "sync", "write"}
    /\ ServerOps \subseteq {"shutdown", "close", "keepalive"}
    /\ Timeouts \subseteq SUBSET {"read", "write"}

VARIABLES
    spc,            \* where the serve goroutine is
    line,           \* the line it has read and is working on
    target,         \* the launcher it found in activeReq for an answer
    waiting,        \* the launcher the handler runs synchronously
    closing,        \* closeAfterReply of the reply being written
    mu,             \* holder of conn.mu
    hijacked,       \* conn.hijackedv
    closed,         \* conn.closed
    raw,            \* conn.handleFunc is set
    ctx,            \* conn.ctx: "none" until created, "live", "done"
    bufw,           \* conn.bufw: "ok", "failed" (sticky error) or "nil"
    activeReq,      \* conn.activeReq: which launcher waits on a nonce
    lpc,            \* where each launcher is in RoundTripContext
    nonce,          \* the nonce each launcher drew
    got,            \* the nonce of the answer handed to each launcher
    handed,         \* a handler has handed out the RoundTripper
    clash,          \* two goroutines are, at once, inside bufw
    sock,           \* the server's end of the socket: "open", "half", "closed"
    gone,           \* the device has closed its end
    inq,            \* lines on their way from the device
    asked,          \* nonces of the launches whose request the device has
    connState,      \* conn.curState
    tracked,        \* the connection is in Server.activeConn
    sweeping,       \* closeIdleConns, holding Server.mu, has found it idle
    shutting,       \* Server.inShutdown # 0
    keepAlive,      \* Server.disableKeepAlives = 0
    timeouts        \* which of Server.ReadTimeout and Server.WriteTimeout are
                    \* set, fixed for the server's life

locals     == <<line, target, waiting, closing>>
serveVars  == <<spc, locals>>
connVars   == <<hijacked, closed, raw, ctx>>
launchVars == <<activeReq, lpc, nonce, got>>
inner      == <<mu, connVars, bufw, launchVars, handed, clash>>
netVars    == <<inq, sock, gone, asked>>
trackVars  == <<connState, tracked>>
serverVars == <<sweeping, shutting, keepAlive, timeouts>>
outer      == <<netVars, trackVars, serverVars>>
vars       == <<serveVars, inner, outer>>

-----------------------------------------------------------------------------
(* Types and vocabulary *)

Answer(n)   == [kind |-> "answer", nonce |-> n]
Plain(k)    == [kind |-> k, nonce |-> NoNonce]
NoLine      == Plain("none")
DeviceLines == {Plain(k) : k \in Kinds} \cup {Answer(n) : n \in asked}
Lines       == {Plain(k) : k \in Kinds} \cup {Answer(n) : n \in Nonces}

ServePcs == {"tls", "top", "raw", "read", "parse", "deliver", "send", "idle",
             "handler", "hijack", "wait", "reply", "bad", "linger", "exit",
             "close", "shut", "ended", "crashed"}
LaunchPcs == {"idle", "lock", "prep", "write", "unlocked", "select", "relock"}

\* Points of RoundTripContext where the launch is in activeReq.
InFlight == {"write", "unlocked", "select", "relock"}
\* Points of RoundTripContext where the launcher holds conn.mu.
Critical == {"prep", "write"}

TypeOK ==
    /\ spc \in ServePcs
    /\ line \in Lines \cup {NoLine}
    /\ target \in Launchers \cup {NoLauncher}
    /\ waiting \in Launchers \cup {NoLauncher}
    /\ closing \in BOOLEAN
    /\ mu \in Launchers \cup {NoLauncher, Serve}
    /\ hijacked \in BOOLEAN
    /\ closed \in BOOLEAN
    /\ raw \in BOOLEAN
    /\ ctx \in {"none", "live", "done"}
    /\ bufw \in {"ok", "failed", "nil"}
    /\ activeReq \in [Nonces -> Launchers \cup {NoLauncher}]
    /\ lpc \in [Launchers -> LaunchPcs]
    /\ nonce \in [Launchers -> Nonces \cup {NoNonce}]
    /\ got \in [Launchers -> Nonces \cup {NoNonce}]
    /\ handed \in BOOLEAN
    /\ clash \in BOOLEAN
    /\ sock \in {"open", "half", "closed"}
    /\ gone \in BOOLEAN
    /\ inq \in Seq(Lines)
    /\ asked \subseteq Nonces
    /\ connState \in {"New", "Active", "Idle", "Hijacked", "Closed"}
    /\ tracked \in BOOLEAN
    /\ sweeping \in BOOLEAN
    /\ shutting \in BOOLEAN
    /\ keepAlive \in BOOLEAN
    /\ timeouts \subseteq {"read", "write"}

MuFree == mu = NoLauncher

ReadTimeout  == "read" \in timeouts
WriteTimeout == "write" \in timeouts

\* conn.inLaunch: read by serve without the mutex.
InLaunch == \E n \in Nonces : activeReq[n] # NoLauncher

ShuttingDown == shutting
DoKeepAlives == keepAlive /\ ~ShuttingDown

ServeWriting  == spc \in {"reply", "bad"}
LaunchWriting == \E l \in Launchers : lpc[l] = "write"

\* Seeded faults: a state in which setState fails to untrack; one in which it
\* tracks again what the server has forgotten.
UntrackingHijackedOnly == {"Hijacked"}
TrackedAgainIn(state)  == state \notin {"Hijacked", "Closed"}

\* Server.trackConn as conn.setState calls it; it takes Server.mu.
Untracking == {"Hijacked", "Closed"}
TrackedIn(state) == tracked /\ state \notin Untracking

SetState(state) ==
    /\ state \in Untracking => ~sweeping
    /\ connState' = state
    /\ tracked' = TrackedIn(state)

\* The process is alive: an unrecovered panic in any goroutine ends it.
Running == spc # "crashed"

-----------------------------------------------------------------------------
(* A connection as Serve's goroutine starts it: setState(StateNew) done,   *)
(* serve just called, and for a plain socket the buffers and the context   *)
(* made (nobody else has the connection yet).                              *)

Init ==
    /\ spc \in (IF "tls" \in Transports THEN {"tls"} ELSE {})
               \cup (IF "tcp" \in Transports THEN {"top"} ELSE {})
    /\ line = NoLine
    /\ target = NoLauncher
    /\ waiting = NoLauncher
    /\ closing = FALSE
    /\ mu = NoLauncher
    /\ hijacked = FALSE
    /\ closed = FALSE
    /\ raw = FALSE
    /\ ctx = IF spc = "tls" THEN "none" ELSE "live"
    /\ bufw = IF spc = "tls" THEN "nil" ELSE "ok"
    /\ activeReq = [n \in Nonces |-> NoLauncher]
    /\ lpc = [l \in Launchers |-> "idle"]
    /\ nonce = [l \in Launchers |-> NoNonce]
    /\ got = [l \in Launchers |-> NoNonce]
    /\ handed = FALSE
    /\ clash = FALSE
    /\ sock = "open"
    /\ gone = FALSE
    /\ inq = <<>>
    /\ asked = {}
    /\ connState = "New"
    /\ tracked = TRUE
    /\ sweeping = FALSE
    /\ shutting = FALSE
    /\ keepAlive = TRUE
    /\ timeouts \in Timeouts

-----------------------------------------------------------------------------
(* The serve goroutine: reading and sorting the device's lines.            *)

Goto(pc) == spc' = pc

\* The serve goroutine goes from one point to another and does nothing else.
Move(from, to) ==
    /\ spc = from
    /\ Goto(to)
    /\ UNCHANGED <<locals, inner, outer>>

\* The TLS handshake succeeds and serve goes on as on a plain socket.
Handshake ==
    /\ spc = "tls"
    /\ Goto("top")
    /\ ctx' = "live"
    /\ bufw' = "ok"
    /\ UNCHANGED <<locals, mu, hijacked, closed, raw, launchVars, handed,
                   clash, outer>>

\* The handshake fails, or a TLSNextProto function has taken the protocol:
\* serve returns before conn.ctx is made.
HandshakeReturn == Move("tls", "exit")

\* The head of the loop: leave when the server is shutting down, give the
\* connection to the raw function unless a launch waits, or read a line.
Top ==
    Move("top", IF ShuttingDown THEN "exit"
                ELSE IF raw /\ ~InLaunch THEN "raw" ELSE "read")

\* Bytes are available.  Those already in bufr are even after the socket is
\* closed: how many there are is left open.
ReadLine ==
    /\ spc = "read"
    /\ inq # <<>>
    /\ inq' = Tail(inq)
    /\ IF Head(inq).kind = "blank"
       THEN Goto("top") /\ UNCHANGED line
       ELSE Goto("parse") /\ line' = Head(inq)
    /\ UNCHANGED <<target, waiting, closing, inner, sock, gone, asked,
                   trackVars, serverVars>>

\* Seeded fault: a socket closed under the reader does not wake it.
ReadEndsNotByClose == (gone /\ inq = <<>>) \/ ReadTimeout

\* What ends a read: our end is closed, the device has closed its end and
\* everything it sent is read, or the read deadline has passed.
ReadEnds ==
    \/ sock = "closed"
    \/ gone /\ inq = <<>>
    \/ ReadTimeout

ReadFail ==
    /\ ReadEnds
    /\ Move("read", "exit") \/ Move("idle", "exit")

\* idleWait: line ends are dropped, anything else is left for the next read.
IdleWait ==
    /\ spc = "idle"
    /\ inq # <<>>
    /\ IF Head(inq).kind = "blank"
       THEN inq' = Tail(inq) /\ UNCHANGED spc
       ELSE Goto("top") /\ UNCHANGED inq
    /\ UNCHANGED <<locals, inner, sock, gone, asked, trackVars, serverVars>>

\* The entry of idleWait, taken with the step that leads to it.
BecomeIdle == Goto("idle") /\ SetState("Idle")

\* A request: the handler starts.
ParseRequest ==
    /\ spc = "parse"
    /\ line.kind = "request"
    /\ Goto("handler")
    /\ SetState("Active")
    /\ line' = NoLine
    /\ handed' = TRUE
    /\ UNCHANGED <<target, waiting, closing, mu, connVars, bufw, launchVars,
                   clash, netVars, serverVars>>

\* Looks like a request but is none: the 400 reply, written without conn.mu.
ParseMalformed ==
    /\ spc = "parse"
    /\ line.kind = "malformed"
    /\ Goto("bad")
    /\ line' = NoLine
    /\ clash' = LaunchWriting
    /\ UNCHANGED <<target, waiting, closing, mu, connVars, bufw, launchVars,
                   handed, outer>>

\* Not a request: dropped when no launch waits, fatal when one does and it
\* is no answer either, else an answer to deliver.
ParseOther ==
    /\ spc = "parse"
    /\ line.kind \in {"other", "answer"}
    /\ \/ /\ ~InLaunch
          /\ BecomeIdle
          /\ line' = NoLine
       \/ /\ InLaunch
          /\ line.kind = "other"
          /\ Goto("exit")
          /\ line' = NoLine
          /\ UNCHANGED trackVars
       \/ /\ InLaunch
          /\ line.kind = "answer"
          /\ Goto("deliver")
          /\ SetState("Active")
          /\ UNCHANGED line
    /\ UNCHANGED <<target, waiting, closing, inner, netVars, serverVars>>

\* Seeded fault: an answer nobody asked for goes to whoever waits.
AddresseeAnyone(n) ==
    IF \E l \in Launchers : lpc[l] = "select"
    THEN CHOOSE l \in Launchers : lpc[l] = "select" ELSE activeReq[n]

\* The answer's launcher is looked up under conn.mu ...
Addressee(n) == activeReq[n]

DeliverLock ==
    /\ spc = "deliver"
    /\ MuFree
    /\ mu' = Serve
    /\ target' = Addressee(line.nonce)
    /\ Goto("send")
    /\ UNCHANGED <<line, waiting, closing, connVars, bufw, launchVars, handed,
                   clash, outer>>

\* ... and gets the answer only if it is already blocked in its select.
Receptive(l) == lpc[l] = "select"

DeliverSend ==
    /\ spc = "send"
    /\ IF target # NoLauncher /\ Receptive(target)
       THEN /\ got' = [got EXCEPT ![target] = line.nonce]
            /\ lpc' = [lpc EXCEPT ![target] = "relock"]
       ELSE UNCHANGED <<lpc, got>>
    /\ mu' = NoLauncher
    /\ target' = NoLauncher
    /\ line' = NoLine
    /\ BecomeIdle
    /\ UNCHANGED <<waiting, closing, connVars, bufw, activeReq, nonce, handed,
                   clash, netVars, serverVars>>

-----------------------------------------------------------------------------
(* The raw function RawControl left: it reads what it likes, then returns. *)

RawRead ==
    /\ spc = "raw"
    /\ inq # <<>>
    /\ inq' = Tail(inq)
    /\ UNCHANGED <<serveVars, inner, sock, gone, asked, trackVars, serverVars>>

\* It returns nil: line mode again.
RawReturn ==
    /\ spc = "raw"
    /\ raw' = FALSE
    /\ BecomeIdle
    /\ UNCHANGED <<locals, mu, hijacked, closed, ctx, bufw, launchVars, handed,
                   clash, netVars, serverVars>>

\* It returns an error, or panics.
RawFail == Move("raw", "exit")

-----------------------------------------------------------------------------
(* The handler and its reply.                                              *)

\* Seeded fault: launches under way are not looked at.
CanHijackInLaunch == ~closed /\ ~hijacked /\ ~raw

\* conn.hijackLocked, whose checks are made and acted on under conn.mu.  What
\* the device has sent is the new owner's from now on.
CanHijack == ~closed /\ ~InLaunch /\ ~hijacked /\ ~raw

HijackTake ==
    /\ spc = "handler"
    /\ "hijack" \in HandlerOps
    /\ MuFree
    /\ CanHijack
    /\ hijacked' = TRUE
    /\ mu' = Serve
    /\ Goto("hijack")
    /\ UNCHANGED <<locals, closed, raw, ctx, bufw, launchVars, handed, clash,
                   outer>>

\* Until it is untracked the server still closes it as one of its own.
HijackLeave ==
    /\ spc = "hijack"
    /\ SetState("Hijacked")
    /\ bufw' = "nil"
    /\ inq' = <<>>
    /\ mu' = NoLauncher
    /\ Goto("handler")
    /\ UNCHANGED <<locals, connVars, launchVars, handed, clash, sock, gone,
                   asked, serverVars>>

\* conn.RawControl: the same flags, read and written without conn.mu.
RawControl ==
    /\ spc = "handler"
    /\ "raw" \in HandlerOps
    /\ ~closed /\ ~hijacked
    /\ raw' = TRUE
    /\ UNCHANGED <<serveVars, mu, hijacked, closed, ctx, bufw, launchVars,
                   handed, clash, outer>>

\* The handler calls RoundTrip itself, and waits for it.
HandlerLaunch(l) ==
    /\ spc = "handler"
    /\ "sync" \in HandlerOps
    /\ lpc[l] = "idle"
    /\ lpc' = [lpc EXCEPT ![l] = "lock"]
    /\ waiting' = l
    /\ Goto("wait")
    /\ UNCHANGED <<line, target, closing, mu, connVars, bufw, activeReq, nonce,
                   got, handed, clash, outer>>

HandlerResume ==
    /\ spc = "wait"
    /\ lpc[waiting] = "idle"
    /\ waiting' = NoLauncher
    /\ Goto("handler")
    /\ UNCHANGED <<line, target, closing, inner, outer>>

\* The handler has hijacked the connection and returns; or it panics; or the
\* body it set cannot be encoded and done fails.
HandlerAbandon == Move("handler", "exit")

\* The handler returns: w.done starts the reply.  It may say "close" because
\* of the request, of the handler's header or of the status, and it must when
\* the server does not keep connections alive.
StartReply ==
    /\ spc = "handler"
    /\ ~hijacked /\ ~closed
    /\ closing' \in {c \in BOOLEAN : ~DoKeepAlives => c}
    /\ Goto("reply")
    /\ clash' = LaunchWriting
    /\ UNCHANGED <<line, target, waiting, mu, connVars, bufw, launchVars,
                   handed, outer>>

\* The handler wrote its bytes with ResponseWriter.Write: no reply follows.
ReturnWritten ==
    /\ spc = "handler"
    /\ "write" \in HandlerOps
    /\ ~hijacked /\ ~closed
    /\ IF DoKeepAlives THEN BecomeIdle ELSE Goto("exit") /\ UNCHANGED trackVars
    /\ UNCHANGED <<locals, inner, netVars, serverVars>>

\* Seeded fault: no deadline is set.
WriteEndsNotByTimeout == sock = "closed"

\* What ends a write to a device that does not read: the deadline that is set
\* when there is a WriteTimeout, or our end closed under it.
WriteEnds == WriteTimeout \/ sock = "closed"

\* conn.writeLineByte: an error of bufw.Write is returned; one of the Flush
\* that follows is not, it only stays in bufw for the next write to find.
WriteFails   == bufw' = "failed"
WriteReturns == bufw = "ok" /\ bufw' \in {"ok", "failed"} /\
                (bufw' = "ok" => sock = "open")

\* conn.closeWriteAndWait, up to the sleep.
CloseWrite == sock' = IF sock = "open" THEN "half" ELSE sock

FinishReply ==
    /\ spc = "reply"
    /\ clash' = (clash /\ LaunchWriting)
    /\ closing' = FALSE
    /\ \/ /\ WriteFails
          /\ Goto("exit")
          /\ UNCHANGED <<sock, trackVars>>
       \/ /\ WriteReturns
          /\ closing
          /\ CloseWrite
          /\ Goto("linger")
          /\ UNCHANGED trackVars
       \/ /\ WriteReturns
          /\ ~closing /\ ~DoKeepAlives
          /\ Goto("exit")
          /\ UNCHANGED <<sock, trackVars>>
       \/ /\ WriteReturns
          /\ ~closing /\ DoKeepAlives
          /\ BecomeIdle
          /\ UNCHANGED sock
    /\ UNCHANGED <<line, target, waiting, mu, connVars, launchVars, handed,
                   inq, gone, asked, serverVars>>

\* The 400 reply: whatever becomes of it, the connection ends.
FinishBad ==
    /\ spc = "bad"
    /\ clash' = (clash /\ LaunchWriting)
    /\ WriteFails \/ WriteReturns
    /\ CloseWrite
    /\ Goto("linger")
    /\ UNCHANGED <<locals, mu, connVars, launchVars, handed, inq, gone, asked,
                   trackVars, serverVars>>

Linger == Move("linger", "exit")

-----------------------------------------------------------------------------
(* serve returns: its deferred calls.                                      *)

\* The context is cancelled first; a hijacked connection is then left to its
\* new owner, any other is closed.
Exit ==
    /\ spc = "exit"
    /\ ctx' = IF ctx = "live" THEN "done" ELSE ctx
    /\ Goto(IF hijacked THEN "ended" ELSE "close")
    /\ UNCHANGED <<locals, mu, hijacked, closed, raw, bufw, launchVars, handed,
                   clash, outer>>

\* conn.Close, up to its setState.  Without a context, cancelCtx is nil and
\* calling it panics, after serve's recover has run.
CloseConn ==
    /\ spc = "close"
    /\ MuFree
    /\ closed' = TRUE
    /\ \/ /\ ctx = "none"
          /\ Goto("crashed")
          /\ UNCHANGED <<mu, trackVars>>
       \/ /\ ctx # "none"
          /\ SetState("Closed")
          /\ mu' = Serve
          /\ Goto("shut")
    /\ UNCHANGED <<locals, hijacked, raw, ctx, bufw, launchVars, handed, clash,
                   netVars, serverVars>>

\* The server has forgotten the connection; its socket is closed only now, and
\* lines not yet read are lost.
CloseSocket ==
    /\ spc = "shut"
    /\ sock' = "closed"
    /\ inq' = <<>>
    /\ bufw' = "nil"
    /\ mu' = NoLauncher
    /\ Goto("ended")
    /\ UNCHANGED <<locals, connVars, launchVars, handed, clash, gone, asked,
                   trackVars, serverVars>>

-----------------------------------------------------------------------------
(* Launchers: RoundTripContext.                                            *)

At(l, pc) == Running /\ lpc[l] = pc

\* A launcher goes from one point to another and does nothing else.
LaunchMove(l, from, to) ==
    /\ At(l, from)
    /\ lpc' = [lpc EXCEPT ![l] = to]
    /\ UNCHANGED <<serveVars, mu, connVars, bufw, activeReq, nonce, got,
                   handed, clash, outer>>

\* A goroutine that was given the RoundTripper calls it.
LaunchCall(l) ==
    /\ "launch" \in HandlerOps
    /\ handed
    /\ l # waiting
    /\ LaunchMove(l, "idle", "lock")

\* Seeded faults: a check is missing.
CanLaunchClosed   == ~hijacked /\ ~raw
CanLaunchHijacked == ~closed /\ ~raw

\* The checks made first under conn.mu.
CanLaunch == ~closed /\ ~hijacked /\ ~raw

LaunchEnter(l) ==
    /\ At(l, "lock")
    /\ MuFree
    /\ IF CanLaunch
       THEN lpc' = [lpc EXCEPT ![l] = "prep"] /\ mu' = l
       ELSE lpc' = [lpc EXCEPT ![l] = "idle"] /\ UNCHANGED mu
    /\ UNCHANGED <<serveVars, connVars, bufw, activeReq, nonce, got, handed,
                   clash, outer>>

\* No nonce, no request configuration or no JSON: the launch ends here.
LaunchPrepFail(l) ==
    /\ At(l, "prep")
    /\ lpc' = [lpc EXCEPT ![l] = "idle"]
    /\ mu' = NoLauncher
    /\ UNCHANGED <<serveVars, connVars, bufw, activeReq, nonce, got, handed,
                   clash, outer>>

\* Seeded faults: a nonce in use is taken; a failed draw is used.
DrawableInUse   == Nonces
DrawableOnError == {n \in Nonces : activeReq[n] = NoLauncher} \cup {NoNonce}

\* What the loop around Nonce() may leave: a value nobody waits on.  (A
\* hundred draws in a row that are all taken are not considered.)
Drawable == {n \in Nonces : activeReq[n] = NoLauncher}

\* The launch enters activeReq and starts to write its request.
LaunchRegister(l) ==
    /\ At(l, "prep")
    /\ \E n \in Drawable :
          /\ activeReq' = [activeReq EXCEPT ![n] = l]
          /\ nonce' = [nonce EXCEPT ![l] = n]
    /\ lpc' = [lpc EXCEPT ![l] = "write"]
    /\ clash' = ServeWriting
    /\ UNCHANGED <<serveVars, mu, connVars, bufw, got, handed, outer>>

\* The deferred delete and close of the channel; RoundTrip returns.
Leave(l) ==
    /\ activeReq' = [activeReq EXCEPT ![nonce[l]] = NoLauncher]
    /\ nonce' = [nonce EXCEPT ![l] = NoNonce]
    /\ got' = [got EXCEPT ![l] = NoNonce]
    /\ lpc' = [lpc EXCEPT ![l] = "idle"]

\* writeLineByte fails: the launch leaves activeReq, all under one lock.
LaunchWriteFail(l) ==
    /\ At(l, "write")
    /\ WriteFails
    /\ Leave(l)
    /\ mu' = NoLauncher
    /\ clash' = (clash /\ ServeWriting)
    /\ UNCHANGED <<serveVars, connVars, handed, outer>>

\* writeLineByte returns nil and conn.mu is released.  The device has the
\* request if the flush succeeded and the device is there; not surely so if
\* another goroutine was in the buffer at the same time.
LaunchWritten(l) ==
    /\ At(l, "write")
    /\ WriteReturns
    /\ \/ bufw' = "ok" /\ ~gone /\ asked' = asked \cup {nonce[l]}
       \/ (bufw' = "failed" \/ gone \/ clash) /\ UNCHANGED asked
    /\ lpc' = [lpc EXCEPT ![l] = "unlocked"]
    /\ mu' = NoLauncher
    /\ clash' = (clash /\ ServeWriting)
    /\ UNCHANGED <<serveVars, connVars, activeReq, nonce, got, handed, inq,
                   sock, gone, trackVars, serverVars>>

\* It blocks in its select: from here on a send on its channel succeeds.
LaunchPark(l) == LaunchMove(l, "unlocked", "select")

\* Seeded fault: ReadTimeout is not added to the caller's context.
LaunchGiveUpUnbounded(l) ==
    /\ l \in WithDeadline \/ ctx = "done"
    /\ \/ LaunchMove(l, "unlocked", "relock")
       \/ LaunchMove(l, "select", "relock")

\* A context ends the select: the caller's, bounded by ReadTimeout when it
\* has no deadline of its own, or the connection's.
LaunchGiveUp(l) ==
    /\ ReadTimeout \/ l \in WithDeadline \/ ctx = "done"
    /\ \/ LaunchMove(l, "unlocked", "relock")
       \/ LaunchMove(l, "select", "relock")

\* Seeded fault: the mutex is not taken back first.
LaunchReturnUnlocked(l) ==
    /\ At(l, "relock")
    /\ Leave(l)
    /\ UNCHANGED <<serveVars, mu, connVars, bufw, handed, clash, outer>>

\* The deferred calls, between a Lock and an Unlock of conn.mu.
LaunchReturn(l) ==
    /\ At(l, "relock")
    /\ MuFree
    /\ Leave(l)
    /\ UNCHANGED <<serveVars, mu, connVars, bufw, handed, clash, outer>>

-----------------------------------------------------------------------------
(* The device.                                                             *)

Listening == spc \notin {"ended", "crashed"} /\ ~hijacked

\* It sends a line of its own, or an answer to a request it was sent - the
\* first, a late or a repeated one.
DeviceSend ==
    /\ Listening /\ ~gone
    /\ sock # "closed"
    /\ Len(inq) < MaxInq
    /\ \E m \in DeviceLines : inq' = Append(inq, m)
    /\ UNCHANGED <<serveVars, inner, sock, gone, asked, trackVars, serverVars>>

DeviceClose ==
    /\ Listening /\ ~gone
    /\ gone' = TRUE
    /\ UNCHANGED <<serveVars, inner, inq, sock, asked, trackVars, serverVars>>

-----------------------------------------------------------------------------
(* The owner of the Server.                                                *)

\* Shutdown adds one to inShutdown ...
ShutdownStart ==
    /\ Running
    /\ "shutdown" \in ServerOps
    /\ ~shutting
    /\ shutting' = TRUE
    /\ UNCHANGED <<serveVars, inner, netVars, trackVars, sweeping, keepAlive,
                   timeouts>>

\* ... and takes it away when it returns, all connections idle or not.
ShutdownReturn ==
    /\ Running
    /\ shutting
    /\ ~sweeping
    /\ shutting' = FALSE
    /\ UNCHANGED <<serveVars, inner, netVars, trackVars, sweeping, keepAlive,
                   timeouts>>

\* Seeded fault: busy connections are picked too.
ClosableBusy == tracked /\ connState \in {"Active", "Idle"}

\* closeIdleConns, which Shutdown polls and SetKeepAlivesEnabled(false) calls:
\* under Server.mu, but the state it reads changes without it.
Closable == tracked /\ connState = "Idle"

SweepStart ==
    /\ Running
    /\ ~sweeping
    /\ Closable
    /\ sweeping' = TRUE
    /\ UNCHANGED <<serveVars, inner, netVars, trackVars, shutting, keepAlive,
                   timeouts>>

ShutdownPoll  == shutting /\ SweepStart
KeepAliveDrop == ~keepAlive /\ SweepStart

Cut ==
    /\ sock' = "closed"
    /\ tracked' = FALSE
    /\ UNCHANGED <<serveVars, inner, inq, gone, asked, connState>>

SweepClose ==
    /\ Running
    /\ sweeping
    /\ Cut
    /\ sweeping' = FALSE
    /\ UNCHANGED <<shutting, keepAlive, timeouts>>

\* closeConns, called by Server.Close, on this connection.
ServerClose ==
    /\ Running
    /\ "close" \in ServerOps
    /\ ~sweeping
    /\ tracked
    /\ Cut
    /\ UNCHANGED serverVars

SetKeepAlives ==
    /\ Running
    /\ "keepalive" \in ServerOps
    /\ keepAlive' = ~keepAlive
    /\ UNCHANGED <<serveVars, inner, netVars, trackVars, sweeping, shutting,
                   timeouts>>

-----------------------------------------------------------------------------
(* The specification.                                                      *)

\* Steps of the serve goroutine that wait for nobody.
ServeRuns ==
    \/ Handshake \/ HandshakeReturn
    \/ Top \/ ReadLine \/ ReadFail \/ IdleWait
    \/ ParseRequest \/ ParseMalformed \/ ParseOther
    \/ DeliverSend
    \/ RawRead \/ RawReturn \/ RawFail
    \/ HijackTake \/ HijackLeave \/ RawControl
    \/ (\E l \in Launchers : HandlerLaunch(l))
    \/ HandlerResume \/ HandlerAbandon \/ StartReply \/ ReturnWritten
    \/ FinishReply \/ FinishBad \/ Linger \/ Exit \/ CloseSocket

\* Steps that take conn.mu.
ServeLocks == DeliverLock \/ CloseConn
LaunchLocks(l) == LaunchEnter(l) \/ LaunchReturn(l)

ServeStep == ServeRuns \/ ServeLocks

\* Steps of a launcher that wait for nobody, once it is inside RoundTrip.
LaunchRuns(l) ==
    \/ LaunchPrepFail(l) \/ LaunchRegister(l)
    \/ LaunchWriteFail(l) \/ LaunchWritten(l)
    \/ LaunchPark(l) \/ LaunchGiveUp(l)

LaunchStep(l) ==
    LaunchCall(l) \/ LaunchRuns(l) \/ LaunchLocks(l)

DeviceStep == DeviceSend \/ DeviceClose

ServerStep ==
    \/ ShutdownStart \/ ShutdownReturn \/ ServerClose \/ SetKeepAlives
    \/ ShutdownPoll \/ KeepAliveDrop \/ SweepClose

\* serve has returned and no launch is left: nothing more needs to happen.
Finished ==
    /\ spc \in {"ended", "crashed"}
    /\ UNCHANGED vars

Next ==
    \/ ServeStep
    \/ \E l \in Launchers : LaunchStep(l)
    \/ DeviceStep
    \/ ServerStep
    \/ Finished

Spec == Init /\ [][Next]_vars

\* Goroutines are scheduled.  A goroutine waiting for conn.mu gets it even if
\* others keep taking it (a Go mutex hands over to a waiter that starves).
\* Handlers and raw functions return and a read deadline that is set passes,
\* whatever else could be done at that point; a handshake is sure to end only
\* when something ends its reads, and a write, of serve or of a launcher, only
\* when something ends it: a device need not read.
Ends == StartReply \/ HandlerAbandon \/ RawReturn \/ RawFail \/ ReadFail

Fairness ==
    /\ WF_vars(ServeRuns /\ (spc = "tls" => ReadEnds)
                         /\ (ServeWriting => WriteEnds))
    /\ SF_vars(Ends) /\ SF_vars(ServeLocks)
    /\ \A l \in Launchers :
          /\ WF_vars(LaunchRuns(l) /\ (lpc[l] = "write" => WriteEnds))
          /\ SF_vars(LaunchLocks(l))
    /\ WF_vars(ShutdownPoll) /\ WF_vars(SweepClose)

FairSpec == Spec /\ Fairness

-----------------------------------------------------------------------------
(* Safety.                                                                 *)

\* A hijacked connection has one user, its new owner: no launch is registered
\* or on its way to be, and serve neither reads nor writes any more.
HijackExclusive ==
    hijacked =>
        /\ ~InLaunch
        /\ \A l \in Launchers : lpc[l] \in {"idle", "lock"}
        /\ spc \in {"hijack", "handler", "wait", "exit", "ended"}

\* activeReq holds exactly the launches that are in flight, each under the
\* nonce it drew: none is left behind by a return, none is evicted by another.
RegistryExact ==
    \A n \in Nonces, l \in Launchers :
        activeReq[n] = l <=> lpc[l] \in InFlight /\ nonce[l] = n

\* The channel serve is about to send an answer on is the one of the launch
\* that waits for that nonce, and it is not closed (a send would panic).
SendOnOpen ==
    spc = "send" /\ target # NoLauncher =>
        lpc[target] \in InFlight /\ nonce[target] = line.nonce

\* A launch gets no answer but one the device gave to the nonce of its own
\* request, which the device had received.
AnswerIsOwn ==
    \A l \in Launchers :
        got[l] # NoNonce => got[l] = nonce[l] /\ got[l] \in asked

\* Nobody is inside writeLineByte after bufw was given back to the pool.
WriterAlive == ServeWriting \/ LaunchWriting => bufw # "nil"

\* When serve has returned, the server no longer knows the connection, its
\* context is cancelled, and the socket is closed or somebody else's.
NoConnLeak ==
    spc = "ended" =>
        /\ ~tracked
        /\ ctx = "done"
        /\ hijacked \/ (closed /\ sock = "closed")

\* Nothing of this server closes a connection once Hijack has handed it over.
HijackedSurvives == [][connState = "Hijacked" => sock' = sock]_vars

\* Shutdown and SetKeepAlivesEnabled never pick a connection whose handler
\* runs or whose reply is being written.  (One picked just before may get
\* there before it is closed.)
SweepSparesHandler ==
    [][ ~sweeping /\ sweeping' =>
            spc \notin {"handler", "hijack", "wait", "reply"} ]_vars

\* No launch enters activeReq once the connection is closed or hijacked, nor,
\* unless it was past its checks by then, once a raw function is set.
NoLateLaunch ==
    [][ closed \/ hijacked \/ (raw /\ \A l \in Launchers : lpc[l] # "prep")
          => \A n \in Nonces : activeReq'[n] \in {activeReq[n], NoLauncher}
      ]_vars

\* A launch the handler makes itself, and waits for, is never answered: the
\* goroutine that would read the answer is the one that waits.
OwnLaunchUnanswered == waiting # NoLauncher => got[waiting] = NoNonce

\* The connection lives the life the server counts on: what ConnLife promises.
Life == INSTANCE ConnLife
            WITH state <- connState, open <- sock # "closed"
LifeSpec == Life!Spec

\* Launches keep what Rpc promises: an answer goes to the one launch that has
\* its nonce and waits, and only if the device has heard that nonce; a launch
\* is let in only while the connection is the server's and in line mode.
LaunchPhase(l) ==
    CASE lpc[l] \in {"idle", "lock"}       -> "out"
      [] lpc[l] = "prep"                   -> "admitted"
      [] lpc[l] = "write"                  -> "asking"
      [] lpc[l] \in {"unlocked", "select"} -> "waiting"
      [] lpc[l] = "relock"                 ->
            IF got[l] = NoNonce THEN "failed"
            ELSE IF got[l] = nonce[l] THEN "answered" ELSE "misled"
Gate == IF closed \/ hijacked THEN "ended" ELSE IF raw THEN "barred" ELSE "open"
Calls == INSTANCE Rpc
            WITH Callers <- Launchers, gate <- Gate, heard <- asked,
                 phase <- [l \in Launchers |-> LaunchPhase(l)]
RpcSpec == Calls!Spec

-----------------------------------------------------------------------------
(* Liveness.                                                               *)

\* Every RoundTrip returns, whatever the device does and wherever it is called
\* from, the handler of the same connection included, with both a ReadTimeout
\* and a WriteTimeout.  Without a ReadTimeout it does once serve is leaving;
\* without a WriteTimeout, once the socket is closed: else a device that does
\* not read keeps it in its write, and with it whoever waits for conn.mu.
LaunchReturns ==
    \A l \in Launchers :
        (WriteTimeout \/ sock = "closed") /\ (ReadTimeout \/ ctx = "done")
          /\ lpc[l] # "idle" ~> lpc[l] = "idle"

\* A socket closed under serve (by Shutdown or Close) ends it, whatever it
\* was doing, with a ReadTimeout; without one, it may still be caught in a
\* handler that waits for a launch of its own, and nowhere else.
ServeEnds ==
    /\ sock = "closed" /\ ReadTimeout ~> spc = "ended"
    /\ sock = "closed" ~> spc \in {"ended", "wait"}

\* With both timeouts, a Shutdown that keeps polling gets rid of the
\* connection, even of one whose device neither sends nor reads anything.
ShutdownQuiesces ==
    (ReadTimeout /\ WriteTimeout /\ <>[]shutting) => <>~tracked

-----------------------------------------------------------------------------
(* What the comments and tests of the repository say and the code does not *)
(* keep: each is refuted by a run.                                         *)

\* conn_test.go has a device answer every launch and no launch fail; here, an
\* answer that finds its launch waiting or about to wait reaches it.
NoAnswerLost ==
    [][ spc = "send" /\ spc' # "send" /\ target # NoLauncher
          /\ lpc[target] \in {"unlocked", "select"}
            => got'[target] = line.nonce ]_vars

\* conn.go:122: one exchange with the device at a time, the others wait on
\* the lock; here, at most one goroutine is inside bufw.
WriterExclusive == ~(ServeWriting /\ LaunchWriting)

\* conn.go:350: serve recovers from panics, so that one connection cannot
\* end the process.
NoCrash == spc # "crashed"
=============================================================================

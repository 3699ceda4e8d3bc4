------------------------------- MODULE Client -------------------------------
(***************************************************************************)
(* Client.DoCtx of viot (src/client.go): calls that share a pool of        *)
(* connections to a server.  The actors are                                *)
(*   - the calls, each in DoCtx, and their callers, who may cancel them;   *)
(*   - the watcher DoCtx starts once it has a connection: it waits for the *)
(*     context or for the end of the call, and gives the connection back;  *)
(*   - the server at the other end, whose replies carry the Connection     *)
(*     header dataWriter.go gives them;                                    *)
(*   - the pool (vconnpool, a library), or a plain net.Dialer.             *)
(* A call is made once; its nonce is its own identity.                     *)
(***************************************************************************)
EXTENDS Naturals, Sequences

CONSTANTS
    Calls,      \* calls of DoCtx
    Conns,      \* connections that may be dialled, each once
    Nameless,   \* those whose request has no nonce of its own
    NoConn,     \* "no connection yet"
    NoNonce,    \* the empty nonce; also that of a line that answers nobody
    MaxLines,   \* bound: lines of the server not yet read on a connection
    Pools,      \* whether Client.Dialer is a pool: a set of Booleans
    Timeouts    \* whether the two deadlines are set: a set of Booleans

ASSUME ClientAssumption ==
    /\ Nameless \subseteq Calls
    /\ NoConn \notin Conns
    /\ NoNonce \notin Calls
    /\ MaxLines \in Nat
    /\ Pools \subseteq BOOLEAN
    /\ Timeouts \subseteq BOOLEAN

VARIABLES
    pc,         \* where each call is in DoCtx
    wants,      \* req.wantsClose() || req.Close
    err,        \* it is about to return an error, not the response
    ctx,        \* its context is done
    done,       \* its channel done is closed
    conn,       \* netConn
    watch,      \* where its watcher is
    place,      \* of each connection: "fresh", "used", "pooled" or "closed"
    discarded,  \* its user has called Discard
    cut,        \* the deadline of its reads and writes is long ago
    torn,       \* a part of a request was written to it
    owed,       \* requests the server has read on it and not answered
    lines,      \* lines on their way from the server
    last,       \* the Connection header of the server's last reply on it
    gone,       \* the server has closed its end
    pooling,    \* the dialled connections have a Discard method
    deadlines   \* ReadDeadline and WriteDeadline are set

callVars == <<wants, err, ctx, done, conn>>
connVars == <<place, discarded, cut, torn>>
netVars  == <<owed, lines, last, gone>>
config   == <<pooling, deadlines>>
vars     == <<pc, callVars, watch, connVars, netVars, config>>

\* A Connection header; "other" is a value of the handler's own, as "Close" or a
\* list.
Headers == {"none", "keep-alive", "close", "other"}
Reply(n, h) == [nonce |-> n, header |-> h]
NoReply == Reply(NoNonce, "none")
Lines == [nonce : Calls \cup {NoNonce}, header : Headers]

TypeOK ==
    /\ pc \in [Calls -> {"idle", "dial", "arm", "write", "expect", "read",
                         "leave", "returned"}]
    /\ wants \in [Calls -> BOOLEAN] /\ err \in [Calls -> BOOLEAN]
    /\ ctx \in [Calls -> BOOLEAN] /\ done \in [Calls -> BOOLEAN]
    /\ conn \in [Calls -> Conns \cup {NoConn}]
    /\ watch \in [Calls -> {"none", "select", "cut", "discard", "close", "ended"}]
    /\ place \in [Conns -> {"fresh", "used", "pooled", "closed"}]
    /\ discarded \in [Conns -> BOOLEAN]
    /\ cut \in [Conns -> SUBSET {"read", "write"}]
    /\ torn \in [Conns -> BOOLEAN]
    /\ owed \in [Conns -> SUBSET Calls]
    /\ lines \in [Conns -> Seq(Lines)]
    /\ last \in [Conns -> Headers]
    /\ gone \in [Conns -> BOOLEAN]
    /\ pooling \in BOOLEAN
    /\ deadlines \in BOOLEAN

Init ==
    /\ pc = [k \in Calls |-> "idle"]
    /\ wants = [k \in Calls |-> FALSE]
    /\ err = [k \in Calls |-> FALSE]
    /\ ctx = [k \in Calls |-> FALSE]
    /\ done = [k \in Calls |-> FALSE]
    /\ conn = [k \in Calls |-> NoConn]
    /\ watch = [k \in Calls |-> "none"]
    /\ place = [c \in Conns |-> "fresh"]
    /\ discarded = [c \in Conns |-> FALSE]
    /\ cut = [c \in Conns |-> {}]
    /\ torn = [c \in Conns |-> FALSE]
    /\ owed = [c \in Conns |-> {}]
    /\ lines = [c \in Conns |-> <<>>]
    /\ last = [c \in Conns |-> "keep-alive"]
    /\ gone = [c \in Conns |-> FALSE]
    /\ pooling \in Pools
    /\ deadlines \in Timeouts

-----------------------------------------------------------------------------
(* The call.                                                               *)

Step(k, from, to) == pc[k] = from /\ pc' = [pc EXCEPT ![k] = to]

\* A step that ends the call with an error.
Fail(k, from) == Step(k, from, "leave") /\ err' = [err EXCEPT ![k] = TRUE]

Open(c) == place[c] # "closed"

\* Discard, of a connection that has it.
Discarding(c) ==
    IF pooling /\ Open(c)
    THEN discarded' = [discarded EXCEPT ![c] = TRUE]
    ELSE UNCHANGED discarded

Start(k) ==
    /\ Step(k, "idle", "dial")
    /\ \E w \in BOOLEAN : wants' = [wants EXCEPT ![k] = w]
    /\ UNCHANGED <<err, ctx, done, conn, watch, connVars, netVars, config>>

\* No nonce, no valid request, no address or no connection.
DialFail(k) ==
    /\ Fail(k, "dial")
    /\ UNCHANGED <<wants, ctx, done, conn, watch, connVars,
                   netVars, config>>

\* What the dialer may hand out: a new connection or one of the pool's.
Available == {c \in Conns : place[c] \in {"fresh", "pooled"}}

\* The connection is had, discarded at once if it is for this call alone, and
\* the watcher is started.
Dial(k) ==
    /\ Step(k, "dial", "arm")
    /\ \E c \in Available :
          /\ conn' = [conn EXCEPT ![k] = c]
          /\ place' = [place EXCEPT ![c] = "used"]
          /\ IF wants[k] THEN Discarding(c) ELSE UNCHANGED discarded
    /\ watch' = [watch EXCEPT ![k] = "select"]
    /\ UNCHANGED <<wants, err, ctx, done, cut, torn, netVars, config>>

\* SetWriteDeadline and SetReadDeadline take away a deadline the watcher has
\* set; they fail on a closed connection.
Arm(k, from, to, way) ==
    /\ Step(k, from, to)
    /\ deadlines => Open(conn[k])
    /\ cut' = IF deadlines
              THEN [cut EXCEPT ![conn[k]] = @ \ {way}]
              ELSE cut
    /\ UNCHANGED <<callVars, watch, place, discarded, torn, netVars, config>>

ArmFail(k, from) ==
    /\ Fail(k, from)
    /\ deadlines /\ ~Open(conn[k])
    /\ UNCHANGED <<wants, ctx, done, conn, watch, connVars,
                   netVars, config>>

ArmWrite(k) == Arm(k, "arm", "write", "write") \/ ArmFail(k, "arm")
ArmRead(k)  == Arm(k, "expect", "read", "read") \/ ArmFail(k, "expect")

\* Seeded fault: the nonce that was drawn is not the one that is sent.
SentAsGiven(k) == IF k \in Nameless THEN NoNonce ELSE k

\* The nonce of the line: that of the request, or one drawn for it.
Sent(k) == k

\* The nonce ReadResponse compares with: that of the request, always.
Expected(k) == IF k \in Nameless THEN NoNonce ELSE k

\* The request is written.  A server that is still there and not confused by
\* what it got before will read it.
Write(k) ==
    /\ Step(k, "write", "expect")
    /\ Open(conn[k]) /\ "write" \notin cut[conn[k]]
    /\ IF gone[conn[k]] \/ torn[conn[k]]
       THEN UNCHANGED owed
       ELSE owed' = [owed EXCEPT ![conn[k]] = @ \cup {Sent(k)}]
    /\ UNCHANGED <<callVars, watch, connVars, lines, last, gone, config>>

\* What ends a write or a read before its time.
Broken(k, way) ==
    \/ way \in cut[conn[k]]
    \/ gone[conn[k]]
    \/ deadlines

\* Some of the line may have been sent.  Nothing is discarded here.
WriteFail(k) ==
    /\ Fail(k, "write")
    /\ Broken(k, "write")
    /\ UNCHANGED torn \/ torn' = [torn EXCEPT ![conn[k]] = TRUE]
    /\ UNCHANGED <<wants, ctx, done, conn, watch, place,
                   discarded, cut, netVars, config>>

\* Seeded fault: the nonce of the answer is not looked at.
MatchesAny(k, l) == TRUE

\* readResponse refuses the empty nonce, ReadResponse any other but that of
\* the request.
Matches(k, l) == l.nonce # NoNonce /\ l.nonce = Expected(k)

\* shouldClose, of a reply, whose protocol is taken for 1.1.
ShouldClose(h) == h = "close"

\* Seeded faults: a wrong nonce, or a reply that says close, spoils nothing.
SpoilsIfClose(k, l) == ShouldClose(l.header)
SpoilsIfOther(k, l) == ~Matches(k, l)

\* The line read makes the connection unfit for another call.
Spoils(k, l) == ~Matches(k, l) \/ ShouldClose(l.header)

\* ReadResponse: the first line is the response; what its buffer holds besides
\* is lost.  An error or a server that closes has the connection discarded.
ReadLine(k) ==
    /\ Step(k, "read", "leave")
    /\ Open(conn[k]) /\ "read" \notin cut[conn[k]]
    /\ lines[conn[k]] # <<>>
    /\ LET l == Head(lines[conn[k]]) IN
          /\ IF Matches(k, l)
             THEN UNCHANGED err
             ELSE err' = [err EXCEPT ![k] = TRUE]
          /\ IF Spoils(k, l) THEN Discarding(conn[k]) ELSE UNCHANGED discarded
    /\ \E i \in 2 .. Len(lines[conn[k]]) + 1 :
          lines' = [lines EXCEPT ![conn[k]] = SubSeq(@, i, Len(@))]
    /\ UNCHANGED <<wants, ctx, done, conn, watch, place, cut, torn,
                   owed, last, gone, config>>

ReadFail(k) ==
    /\ Fail(k, "read")
    /\ Broken(k, "read")
    /\ Discarding(conn[k])
    /\ UNCHANGED <<wants, ctx, done, conn, watch, place, cut,
                   torn, netVars, config>>

\* Seeded fault: only a call that succeeds ends its watcher.
ReleasesIfOk(k) == ~ctx[k] /\ ~err[k]

\* The deferred function closes done unless the context is done, in which case
\* the watcher needs no telling.
Releases(k) == ~ctx[k]

Leave(k) ==
    /\ Step(k, "leave", "returned")
    /\ IF Releases(k)
       THEN done' = [done EXCEPT ![k] = TRUE]
       ELSE UNCHANGED done
    /\ IF ctx[k]
       THEN err' = [err EXCEPT ![k] = TRUE]
       ELSE UNCHANGED err
    /\ UNCHANGED <<wants, ctx, conn, watch, connVars, netVars, config>>

\* The caller cancels, or its context expires.  Do and Get cancel it when
\* DoCtx has returned, in a race with the watcher; after that, it is of no
\* consequence.
Cancel(k) ==
    /\ pc[k] # "idle"
    /\ pc[k] # "returned" \/ watch[k] # "ended"
    /\ ~ctx[k]
    /\ ctx' = [ctx EXCEPT ![k] = TRUE]
    /\ UNCHANGED <<pc, wants, err, done, conn, watch, connVars,
                   netVars, config>>

-----------------------------------------------------------------------------
(* The watcher.                                                            *)

Watch(k, from, to) == watch[k] = from /\ watch' = [watch EXCEPT ![k] = to]

\* Seeded fault: the watcher does not listen to the context.
HearsDoneOnly(k) == FALSE

Hears(k) == ctx[k]

WatchCtx(k) ==
    /\ Watch(k, "select", "cut")
    /\ Hears(k)
    /\ UNCHANGED <<pc, callVars, connVars, netVars, config>>

WatchDone(k) ==
    /\ Watch(k, "select", "close")
    /\ done[k]
    /\ UNCHANGED <<pc, callVars, connVars, netVars, config>>

\* SetDeadline(aLongTimeAgo)
WatchCut(k) ==
    /\ Watch(k, "cut", "discard")
    /\ cut' = [cut EXCEPT ![conn[k]] = {"read", "write"}]
    /\ UNCHANGED <<pc, callVars, place, discarded, torn, netVars, config>>

\* Seeded fault: a connection cut off is not discarded.
WatchKeep(k) ==
    /\ Watch(k, "discard", "close")
    /\ UNCHANGED <<pc, callVars, connVars, netVars, config>>

WatchDiscard(k) ==
    /\ Watch(k, "discard", "close")
    /\ Discarding(conn[k])
    /\ UNCHANGED <<pc, callVars, place, cut, torn, netVars, config>>

\* The socket is closed, and nothing that was on it matters any more.
Closing(c) ==
    /\ place' = [place EXCEPT ![c] = "closed"]
    /\ discarded' = [discarded EXCEPT ![c] = FALSE]
    /\ cut' = [cut EXCEPT ![c] = {}]
    /\ torn' = [torn EXCEPT ![c] = FALSE]
    /\ owed' = [owed EXCEPT ![c] = {}]
    /\ lines' = [lines EXCEPT ![c] = <<>>]
    /\ last' = [last EXCEPT ![c] = "keep-alive"]
    /\ gone' = [gone EXCEPT ![c] = TRUE]

\* Back to the pool, which may have no room for it.
Pooling(c) ==
    /\ place' = [place EXCEPT ![c] = "pooled"]
    /\ UNCHANGED <<discarded, cut, torn, netVars>>

\* The deferred Close: of the socket, unless it belongs to a pool and was not
\* discarded.
WatchClose(k) ==
    /\ Watch(k, "close", "ended")
    /\ \/ Closing(conn[k])
       \/ pooling /\ ~discarded[conn[k]] /\ Pooling(conn[k])
    /\ UNCHANGED <<pc, callVars, config>>

\* The pool closes a connection that has been idle for long.
PoolDrop(c) ==
    /\ place[c] = "pooled"
    /\ Closing(c)
    /\ UNCHANGED <<pc, callVars, watch, config>>

-----------------------------------------------------------------------------
(* The server.                                                             *)

\* What the server reads in the request.  RequestConfig turns the field Close
\* into a Connection header, so it is what the client went by.
AsksClose(k) == wants[k]

\* generateResponse: the Connection header of a reply, from what the request
\* wants, whether keep-alives are on (and the protocol 1.1), whether a body is
\* allowed, and what the handler has set itself.
ReplyHeader(k, keepAlive, bodyAllowed, own) ==
    IF AsksClose(k) \/ ~keepAlive THEN "close"
    ELSE IF bodyAllowed /\ own = "none" THEN "keep-alive" ELSE own

\* closeAfterReply
ClosesAfter(h) == h # "keep-alive"

ServerReply(c) ==
    /\ ~gone[c]
    /\ Len(lines[c]) < MaxLines
    /\ \E k \in owed[c], keepAlive, bodyAllowed \in BOOLEAN, own \in Headers :
          LET h == ReplyHeader(k, keepAlive, bodyAllowed, own) IN
          /\ owed' = [owed EXCEPT ![c] = @ \ {k}]
          /\ lines' = [lines EXCEPT ![c] = Append(@, Reply(k, h))]
          /\ last' = [last EXCEPT ![c] = h]
    /\ UNCHANGED <<pc, callVars, watch, connVars, gone, config>>

\* A line that answers no request of this client: a launch of the server, or
\* the 400 it replies to a line it cannot read.
ServerStray(c) ==
    /\ place[c] \in {"used", "pooled"}
    /\ ~gone[c]
    /\ Len(lines[c]) < MaxLines
    /\ lines' = [lines EXCEPT ![c] = Append(@, NoReply)]
    /\ UNCHANGED <<pc, callVars, watch, connVars, owed, last, gone, config>>

\* The server closes: it said so, was told so, or for reasons of its own.
ServerClose(c) ==
    /\ place[c] \in {"used", "pooled"}
    /\ ~gone[c]
    /\ gone' = [gone EXCEPT ![c] = TRUE]
    /\ owed' = [owed EXCEPT ![c] = {}]
    /\ UNCHANGED <<pc, callVars, watch, connVars, lines, last, config>>

-----------------------------------------------------------------------------
Finished ==
    /\ \A k \in Calls : pc[k] = "returned" /\ watch[k] \in {"none", "ended"}
    /\ UNCHANGED vars

\* A call that finds no connection fails, so it never waits for nobody.
CallStep(k) ==
    \/ Start(k) \/ DialFail(k) \/ Dial(k) \/ ArmWrite(k)
    \/ Write(k) \/ WriteFail(k) \/ ArmRead(k) \/ ReadLine(k) \/ ReadFail(k)
    \/ Leave(k) \/ Cancel(k)

WatchStep(k) ==
    \/ WatchCtx(k) \/ WatchDone(k) \/ WatchCut(k) \/ WatchDiscard(k)
    \/ WatchClose(k)

ConnStep(c) == PoolDrop(c) \/ ServerReply(c) \/ ServerStray(c) \/ ServerClose(c)

Next ==
    \/ \E k \in Calls : CallStep(k) \/ WatchStep(k)
    \/ \E c \in Conns : ConnStep(c)
    \/ Finished

Spec == Init /\ [][Next]_vars

\* Goroutines are scheduled, dialling ends, and deadlines that are set pass.
\* Nothing is assumed of the server: a write may block and a read may find
\* nothing for ever.  Nor does a caller have to cancel.
CallRuns(k) ==
    \/ DialFail(k) \/ Dial(k) \/ ArmWrite(k) \/ WriteFail(k)
    \/ ArmRead(k) \/ ReadFail(k) \/ Leave(k)

Fairness ==
    \A k \in Calls : WF_vars(CallRuns(k)) /\ WF_vars(WatchStep(k))

FairSpec == Spec /\ Fairness

-----------------------------------------------------------------------------
(* Properties.                                                             *)

\* The call uses its connection, or its watcher still may.
Uses(k) ==
    \/ pc[k] \in {"arm", "write", "expect", "read"} /\ Open(conn[k])
    \/ watch[k] \in {"select", "cut", "discard", "close"}

\* A connection has one user at a time: nobody is given a connection while
\* the call that had it before, or its watcher, may still touch it.
OneUser ==
    \A k, j \in Calls :
        Uses(k) /\ Uses(j) /\ k # j => conn[k] # conn[j]

\* The pool holds no connection on which the answer to an earlier call may
\* still arrive, to be taken for that of a later one (client.go:129).
PoolOwesNothing ==
    \A c \in Conns : place[c] = "pooled" =>
        /\ owed[c] = {}
        /\ \A i \in 1 .. Len(lines[c]) : lines[c][i].nonce = NoNonce
        /\ cut[c] = {}

\* The pool holds a connection that the server closes after its reply only where
\* the two ends read that reply differently: the server closes unless it says
\* keep-alive (dataWriter.go:43), the client only if it says close
\* (func.go:244).  A reply without a body may have no Connection header, and a
\* handler may set a value of its own.
PoolKeptByServer ==
    \A c \in Conns : place[c] = "pooled" /\ ClosesAfter(last[c])
        => last[c] \in {"none", "other"}

\* The answer to a call is owed, or on its way.
Awaited(c, k) ==
    k \in owed[c] \/ \E i \in 1 .. Len(lines[c]) : lines[c][i].nonce = k

\* Calls keep what Rpc promises: what is taken for the answer to a call is one
\* the server owed to that call, which was written once.
CallPhase(k) ==
    CASE pc[k] \in {"idle", "returned"} -> "out"
      [] pc[k] = "dial"                 -> "admitted"
      [] pc[k] \in {"arm", "write"}     -> "asking"
      [] pc[k] \in {"expect", "read"}   -> "waiting"
      [] OTHER                          -> IF err[k] THEN "failed" ELSE "answered"
CallNonce(k) == IF watch[k] = "none" \/ pc[k] = "returned" THEN NoNonce ELSE k
Promise == INSTANCE Rpc
              WITH Callers <- Calls, Nonces <- Calls, gate <- "open",
                   phase <- [k \in Calls |-> CallPhase(k)],
                   nonce <- [k \in Calls |-> CallNonce(k)],
                   heard <- {k \in Calls : \E c \in Conns : Awaited(c, k)}
RpcSpec == Promise!Spec

\* A request made without a nonce gets one, but no response: its answer is
\* compared with the nonce it was made with (client.go:76).
NamelessFails ==
    \A k \in Nameless : pc[k] \in {"leave", "returned"} => err[k]

\* A cancelled call returns, even if the deadline set by the watcher was
\* replaced by that of the call.
CancelReturns ==
    \A k \in Calls : ctx[k] /\ pc[k] # "idle" ~> pc[k] = "returned"

\* A call that returns leaves no connection and no watcher behind.
ConnGivenBack ==
    \A k \in Calls : pc[k] = "returned" ~> watch[k] \in {"none", "ended"}

=============================================================================

------------------------------- MODULE Server -------------------------------
(***************************************************************************)
(* The server of viot (src/server.go): Serve loops accepting connections,  *)
(* goroutines that call Close, Shutdown and SetKeepAlivesEnabled, and the  *)
(* connections, each seen as ConnLife describes it.  A method that holds    *)
(* Server.mu throughout is one action, unless it uses something that       *)
(* changes without the mutex (inShutdown in trackListener, the states of   *)
(* the connections in closeIdleConns); what the code does without it       *)
(* (doneChan) is split where others may come between.  A panic ends the    *)
(* call it happens in.                                                     *)
(***************************************************************************)
EXTENDS Naturals, FiniteSets

CONSTANTS
    Serves,     \* goroutines that call Serve, each time with a new listener
    Conns,      \* connections that clients may open
    Closers     \* goroutines that call Close, Shutdown or
                \* SetKeepAlivesEnabled(false)

ASSUME ServerAssumption == IsFiniteSet(Closers)

VARIABLES
    spc,        \* where each Serve call is
    lsn,        \* its listener: "none" outside of a call, "open", "closed"
    listeners,  \* Server.listeners, by Serve call
    doneChan,   \* Server.doneChan: "nil", "open" or "closed"
    inShutdown, \* Server.inShutdown
    kpc,        \* where each of their calls is
    op,         \* which of the three it is, "none" outside of a call
    left,       \* closeIdleConns: connections it has not come to yet
    quiet,      \* closeIdleConns: quiescent, TRUE when nobody is in it
    cst,        \* state of each connection
    csock,      \* the server has not closed its socket
    activeConn  \* Server.activeConn

serveVars == <<spc, lsn, listeners>>
closeVars == <<kpc, op>>
sweepVars == <<left, quiet>>
connVars  == <<cst, csock, activeConn>>
vars == <<serveVars, doneChan, inShutdown, closeVars, sweepVars, connVars>>

Live == {"New", "Active", "Idle"}
InShutdownCall(k) == op[k] = "shutdown"

TypeOK ==
    /\ spc \in [Serves -> {"none", "track", "add", "init", "make", "accept",
                           "untrack"}]
    /\ lsn \in [Serves -> {"none", "open", "closed"}]
    /\ listeners \subseteq Serves
    /\ doneChan \in {"nil", "open", "closed"}
    /\ inShutdown \in Nat
    /\ kpc \in [Closers -> {"none", "check", "close", "conns", "listeners",
                            "poll", "sweep", "pause"}]
    /\ op \in [Closers -> {"none", "close", "shutdown", "keepalive"}]
    /\ left \subseteq Conns
    /\ quiet \in BOOLEAN
    /\ cst \in [Conns -> Live \cup {"Waiting", "Accepted", "Hijacked", "Closed"}]
    /\ csock \in [Conns -> BOOLEAN]
    /\ activeConn \subseteq Conns

ShuttingDown == inShutdown # 0

\* Server.mu: every method that takes it releases it in the same action, but
\* for trackListener between its check and its insertion, and closeIdleConns.
MuFree == /\ \A s \in Serves : spc[s] # "add"
          /\ \A k \in Closers : kpc[k] # "sweep"

Init ==
    /\ spc = [s \in Serves |-> "none"]
    /\ lsn = [s \in Serves |-> "none"]
    /\ listeners = {}
    /\ doneChan = "nil"
    /\ inShutdown = 0
    /\ kpc = [k \in Closers |-> "none"]
    /\ op = [k \in Closers |-> "none"]
    /\ left = {}
    /\ quiet = TRUE
    /\ cst = [c \in Conns |-> "Waiting"]
    /\ csock = [c \in Conns |-> TRUE]
    /\ activeConn = {}

-----------------------------------------------------------------------------
(* Serve.                                                                  *)

ServeAt(s, from, to) == spc[s] = from /\ spc' = [spc EXCEPT ![s] = to]

ServeCall(s) ==
    /\ ServeAt(s, "none", "track")
    /\ lsn' = [lsn EXCEPT ![s] = "open"]
    /\ UNCHANGED <<listeners, doneChan, inShutdown, closeVars, sweepVars,
                   connVars>>

\* Seeded fault: trackListener does not look at inShutdown.
MayAlwaysListen == TRUE

\* trackListener(add): refused when the server is shutting down.
MayListen == ~ShuttingDown

ServeTrack(s) ==
    /\ MuFree
    /\ MayListen
    /\ ServeAt(s, "track", "add")
    /\ UNCHANGED <<lsn, listeners, doneChan, inShutdown, closeVars, sweepVars,
                   connVars>>

ServeAdd(s) ==
    /\ ServeAt(s, "add", "init")
    /\ listeners' = listeners \cup {s}
    /\ UNCHANGED <<lsn, doneChan, inShutdown, closeVars, sweepVars,
                   connVars>>

ServeRefused(s) ==
    /\ MuFree
    /\ ~MayListen
    /\ ServeAt(s, "track", "none")
    /\ lsn' = [lsn EXCEPT ![s] = "none"]
    /\ UNCHANGED <<listeners, doneChan, inShutdown, closeVars, sweepVars,
                   connVars>>

\* init: doneChan is read ...
ServeInit(s) ==
    /\ ServeAt(s, "init", IF doneChan = "nil" THEN "make" ELSE "accept")
    /\ UNCHANGED <<lsn, listeners, doneChan, inShutdown, closeVars, sweepVars,
                   connVars>>

\* ... and written, with nothing to keep another goroutine out in between.
ServeMake(s) ==
    /\ ServeAt(s, "make", "accept")
    /\ doneChan' = "open"
    /\ UNCHANGED <<lsn, listeners, inShutdown, closeVars, sweepVars,
                   connVars>>

\* A connection; a goroutine is started for it.
ServeAccept(s, c) ==
    /\ spc[s] = "accept"
    /\ lsn[s] = "open"
    /\ cst[c] = "Waiting"
    /\ cst' = [cst EXCEPT ![c] = "Accepted"]
    /\ UNCHANGED <<serveVars, doneChan, inShutdown, closeVars, sweepVars, csock,
                   activeConn>>

\* Seeded fault: every error is retried until doneChan is closed.
ServeFailsWhenDone(s) ==
    /\ doneChan = "closed"
    /\ ServeAt(s, "accept", "untrack")
    /\ UNCHANGED <<lsn, listeners, doneChan, inShutdown, closeVars, sweepVars,
                   connVars>>

\* BaseContext returns nil, or Accept an error.  (A temporary error with doneChan
\* not closed changes nothing: the loop goes round.)
ServeFails(s) ==
    /\ ServeAt(s, "accept", "untrack")
    /\ UNCHANGED <<lsn, listeners, doneChan, inShutdown, closeVars, sweepVars,
                   connVars>>

\* Seeded fault: the listener stays in the map.
ListenersStill(s) == listeners

\* The deferred trackListener(remove) and Close of the listener.  doneChan is
\* dropped with the last listener if no connection is tracked.
ListenersWithout(s) == listeners \ {s}
DropsDoneChan(s) == ListenersWithout(s) = {} /\ activeConn = {}

ServeReturn(s) ==
    /\ MuFree
    /\ ServeAt(s, "untrack", "none")
    /\ listeners' = ListenersWithout(s)
    /\ doneChan' = IF DropsDoneChan(s) THEN "nil" ELSE doneChan
    /\ lsn' = [lsn EXCEPT ![s] = "none"]
    /\ UNCHANGED <<inShutdown, closeVars, sweepVars,
                   connVars>>

-----------------------------------------------------------------------------
(* Connections.  Those accepted are tracked by their own goroutine.        *)

ConnStep(c, from, to) ==
    /\ cst[c] \in from
    /\ cst' = [cst EXCEPT ![c] = to]
    /\ UNCHANGED <<serveVars, doneChan, inShutdown, closeVars, sweepVars>>

\* Seeded fault: setState never untracks.
ForgetNot(c) == MuFree /\ UNCHANGED activeConn

\* setState, as far as activeConn is concerned.  It stores curState right after,
\* which is read of connections in activeConn only: the two are one step.
Enter(c)  == MuFree /\ activeConn' = activeConn \cup {c}
Forget(c) == MuFree /\ activeConn' = activeConn \ {c}

ConnRefuse(c) ==
    /\ ConnStep(c, {"Accepted"}, "Closed")
    /\ csock' = [csock EXCEPT ![c] = FALSE]
    /\ UNCHANGED activeConn

ConnTrack(c) ==
    /\ ConnStep(c, {"Accepted"}, "New")
    /\ Enter(c)
    /\ UNCHANGED csock

ConnWork(c) ==
    /\ ConnStep(c, Live, "Active")
    /\ UNCHANGED <<csock, activeConn>>

ConnRest(c) ==
    /\ ConnStep(c, {"New", "Active"}, "Idle")
    /\ UNCHANGED <<csock, activeConn>>

ConnHijack(c) ==
    /\ ConnStep(c, {"Active"}, "Hijacked")
    /\ Forget(c)
    /\ UNCHANGED csock

\* conn.Close: the server forgets the connection, and its socket is closed next.
ConnLeave(c) ==
    /\ ConnStep(c, Live, "Closed")
    /\ Forget(c)
    /\ UNCHANGED csock

ConnShut(c) ==
    /\ ConnStep(c, {"Closed"}, "Closed")
    /\ csock' = [csock EXCEPT ![c] = FALSE]
    /\ UNCHANGED activeConn

-----------------------------------------------------------------------------
(* Close, Shutdown and SetKeepAlivesEnabled.                               *)

CloserAt(k, from, to) == kpc[k] = from /\ kpc' = [kpc EXCEPT ![k] = to]

CloseCall(k) ==
    /\ CloserAt(k, "none", "check")
    /\ op' = [op EXCEPT ![k] = "close"]
    /\ UNCHANGED <<serveVars, doneChan, inShutdown, sweepVars, connVars>>

ShutdownCall(k) ==
    /\ CloserAt(k, "none", "check")
    /\ op' = [op EXCEPT ![k] = "shutdown"]
    /\ inShutdown' = inShutdown + 1
    /\ UNCHANGED <<serveVars, doneChan, sweepVars, connVars>>

\* Seeded faults: Shutdown does not take its count back; Close does, too.
ReturnUncounted(k) ==
    /\ kpc' = [kpc EXCEPT ![k] = "none"]
    /\ op' = [op EXCEPT ![k] = "none"]
    /\ UNCHANGED inShutdown
ReturnCounted(k) ==
    /\ kpc' = [kpc EXCEPT ![k] = "none"]
    /\ op' = [op EXCEPT ![k] = "none"]
    /\ inShutdown' = inShutdown - 1

\* The call returns: in Shutdown, with the deferred decrement.
Return(k) ==
    /\ kpc' = [kpc EXCEPT ![k] = "none"]
    /\ op' = [op EXCEPT ![k] = "none"]
    /\ inShutdown' = IF op[k] = "shutdown" THEN inShutdown - 1 ELSE inShutdown

AfterChan(k) == IF op[k] = "close" THEN "conns" ELSE "listeners"

\* closeDoneChan: is it closed?  (A nil channel looks like an open one.)
ChanCheck(k) ==
    /\ CloserAt(k, "check", IF doneChan = "closed" THEN AfterChan(k) ELSE "close")
    /\ UNCHANGED <<serveVars, doneChan, inShutdown, op, sweepVars, connVars>>

\* If not, close it, without a lock since the check.
ChanClose(k) ==
    /\ CloserAt(k, "close", AfterChan(k))
    /\ doneChan = "open"
    /\ doneChan' = "closed"
    /\ UNCHANGED <<serveVars, inShutdown, op, sweepVars, connVars>>

\* Closing a nil or a closed channel panics.
ChanPanic(k) ==
    /\ kpc[k] = "close"
    /\ doneChan # "open"
    /\ Return(k)
    /\ UNCHANGED <<serveVars, doneChan, sweepVars, connVars>>

\* Seeded fault: connections are forgotten and not closed.
ForgetSockets(C) == activeConn' = activeConn \ C /\ UNCHANGED csock

CloseSockets(C) ==
    /\ csock' = [c \in Conns |-> csock[c] /\ c \notin C]
    /\ activeConn' = activeConn \ C

CloseConns(k) ==
    /\ MuFree
    /\ CloserAt(k, "conns", "listeners")
    /\ CloseSockets(activeConn)
    /\ UNCHANGED <<serveVars, doneChan, inShutdown, op, sweepVars, cst>>

\* closeListeners, after which Close returns and Shutdown starts polling.
CloseListeners(k) ==
    /\ MuFree
    /\ kpc[k] = "listeners"
    /\ lsn' = [s \in Serves |-> IF s \in listeners THEN "closed" ELSE lsn[s]]
    /\ listeners' = {}
    /\ IF op[k] = "close"
       THEN Return(k)
       ELSE CloserAt(k, "listeners", "poll") /\ UNCHANGED <<op, inShutdown>>
    /\ UNCHANGED <<spc, doneChan, sweepVars, connVars>>

\* closeIdleConns goes through activeConn under Server.mu, while the
\* connections go on.
SweepBegin(k, from) ==
    /\ MuFree
    /\ kpc[k] \in from
    /\ kpc' = [kpc EXCEPT ![k] = "sweep"]
    /\ left' = activeConn
    /\ UNCHANGED <<serveVars, doneChan, inShutdown, quiet, connVars>>

\* Shutdown calls it at once, then whenever its ticker ticks.
ShutdownPoll(k) == SweepBegin(k, {"poll", "pause"}) /\ UNCHANGED op

\* SetKeepAlivesEnabled(false) calls it, too.
KeepAlivesOff(k) ==
    /\ SweepBegin(k, {"none"})
    /\ op' = [op EXCEPT ![k] = "keepalive"]

\* Seeded fault: the connection looked at last decides.
StillQuietIfLast(c) == cst[c] = "Idle"

\* One turn of the loop: an idle connection is closed, another is remembered.
StillQuiet(c) == quiet /\ cst[c] = "Idle"

SweepConn(k, c) ==
    /\ kpc[k] = "sweep"
    /\ c \in left
    /\ left' = left \ {c}
    /\ quiet' = StillQuiet(c)
    /\ IF cst[c] = "Idle" THEN CloseSockets({c})
                          ELSE UNCHANGED <<csock, activeConn>>
    /\ UNCHANGED <<serveVars, doneChan, inShutdown, closeVars, cst>>

\* It is through with them.
SweepEnd(k) ==
    /\ kpc[k] = "sweep"
    /\ left = {}
    /\ quiet' = TRUE
    /\ UNCHANGED <<serveVars, doneChan, left, connVars>>

KeepAlivesDone(k) == SweepEnd(k) /\ op[k] = "keepalive" /\ Return(k)

\* If it found idle connections only, Shutdown returns; else it waits.
ShutdownDone(k) == SweepEnd(k) /\ op[k] = "shutdown" /\ quiet /\ Return(k)

ShutdownWait(k) ==
    /\ SweepEnd(k)
    /\ op[k] = "shutdown" /\ ~quiet
    /\ CloserAt(k, "sweep", "pause")
    /\ UNCHANGED <<op, inShutdown>>

\* Its context ends first.
ShutdownExpire(k) ==
    /\ kpc[k] = "pause"
    /\ Return(k)
    /\ UNCHANGED <<serveVars, doneChan, sweepVars, connVars>>

-----------------------------------------------------------------------------

ServeRuns(s) ==
    ServeTrack(s) \/ ServeAdd(s) \/ ServeRefused(s) \/ ServeInit(s)
      \/ ServeMake(s) \/ ServeReturn(s)

ServeStep(s) ==
    ServeCall(s) \/ ServeRuns(s) \/ ServeFails(s)
      \/ \E c \in Conns : ServeAccept(s, c)

ConnRuns(c) ==
    ConnRefuse(c) \/ ConnTrack(c) \/ ConnWork(c) \/ ConnRest(c)
      \/ ConnHijack(c) \/ ConnLeave(c) \/ ConnShut(c)

SweepStep(k) ==
    \/ \E c \in Conns : SweepConn(k, c)
    \/ KeepAlivesDone(k) \/ ShutdownDone(k) \/ ShutdownWait(k)

CloserRuns(k) ==
    ChanCheck(k) \/ ChanClose(k) \/ ChanPanic(k) \/ CloseConns(k)
      \/ CloseListeners(k) \/ ShutdownPoll(k) \/ SweepStep(k)
      \/ ShutdownExpire(k)

CloserStep(k) ==
    CloseCall(k) \/ ShutdownCall(k) \/ KeepAlivesOff(k) \/ CloserRuns(k)

Next ==
    \/ \E s \in Serves : ServeStep(s)
    \/ \E c \in Conns : ConnRuns(c)
    \/ \E k \in Closers : CloserStep(k)

Spec == Init /\ [][Next]_vars

\* Goroutines are scheduled, and get Server.mu even if others keep taking it (a
\* Go mutex hands over to a waiter that starves); whoever is in closeIdleConns
\* goes through it; Accept fails once its listener is closed.
Fairness ==
    /\ \A s \in Serves : SF_vars(ServeRuns(s))
                      /\ WF_vars(lsn[s] = "closed" /\ ServeFails(s))
    /\ \A k \in Closers : WF_vars(SweepStep(k))

FairSpec == Spec /\ Fairness

-----------------------------------------------------------------------------
(* Safety.                                                                 *)

\* inShutdown counts the Shutdown calls under way, on every way out of them:
\* a count left behind would make Serve refuse listeners for ever.
ShutdownCounted == inShutdown = Cardinality({k \in Closers : InShutdownCall(k)})

\* A listener that Close can reach is open and its Serve has not returned.
ListenersOwned ==
    \A s \in listeners : lsn[s] = "open" /\ spc[s] \notin {"none", "track", "add"}

\* A connection that is being served is in activeConn, where Close and
\* Shutdown look for it, until its socket is closed.
NoConnForgotten ==
    \A c \in Conns : cst[c] \in Live => c \in activeConn \/ ~csock[c]

\* While a Shutdown polls, no Serve has a listener: those there were are
\* closed, and none is added, not even by a Serve that checked in time.
Polling(k) == InShutdownCall(k) /\ kpc[k] \in {"poll", "sweep", "pause"}
ShutdownBars == \A k \in Closers : Polling(k) => listeners = {}

\* When a Shutdown returns nil, no connection is tracked and the socket of every
\* connection in service is closed: the loop of closeIdleConns has left out none
\* that was new or busy when it came to it, and none was tracked meanwhile.
CleanShutdown ==
    [][ \A k \in Closers :
          ShutdownDone(k) =>
             /\ activeConn = {}
             /\ \A c \in Conns : cst[c] \in Live => ~csock[c] ]_vars

\* Every connection lives the life ConnLife describes.
LifeState(c) == IF cst[c] = "Waiting" THEN "Accepted" ELSE cst[c]
Life(c) == INSTANCE ConnLife
              WITH state <- LifeState(c), tracked <- c \in activeConn,
                   open <- csock[c]
LifeSpec ==
    /\ \A c \in Conns : Life(c)!Init
    /\ [][\A c \in Conns : [Life(c)!Next]_(Life(c)!vars)]_vars

-----------------------------------------------------------------------------
(* Liveness.                                                               *)

\* When its listener has been closed, Serve returns.
ServeReturns == \A s \in Serves : lsn[s] = "closed" ~> spc[s] = "none"

-----------------------------------------------------------------------------
(* What the comments say and the code does not keep.                       *)

\* server.go:96: closing what is closed already is skipped; here, the close
\* of the channel never panics because the channel is closed.
AlreadyClosedIsSkipped ==
    [][\A k \in Closers : ChanPanic(k) => doneChan # "closed"]_vars

=============================================================================

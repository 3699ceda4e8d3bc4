---------------------------- MODULE ServerProofs ----------------------------
(***************************************************************************)
(* What Server promises for any number of Serve loops and connections, and *)
(* any finite number of goroutines that call Close, Shutdown or            *)
(* SetKeepAlivesEnabled.                                                   *)
(***************************************************************************)
EXTENDS Server, FiniteSetTheorems, TLAPS

Calls == {k \in Closers : InShutdownCall(k)}

\* Where a goroutine is and what it is in go together.
Callers ==
    \A k \in Closers :
        /\ kpc[k] = "none" <=> op[k] = "none"
        /\ kpc[k] \in {"poll", "pause"} => op[k] = "shutdown"
        /\ kpc[k] = "sweep" => op[k] \in {"shutdown", "keepalive"}
        /\ op[k] = "keepalive" => kpc[k] = "sweep"

\* The listener of a Serve that has not been refused is open until it is known.
Unlisted == \A s \in Serves : spc[s] \in {"track", "add"} => lsn[s] = "open"

\* Server.mu is held by one Serve in trackListener, or by one closer in
\* closeIdleConns.
Sweeping == \E k \in Closers : kpc[k] = "sweep"
OneHolder ==
    /\ \A k, j \in Closers : kpc[k] = "sweep" /\ kpc[j] = "sweep" => k = j
    /\ Sweeping => \A s \in Serves : spc[s] # "add"

\* The loop of closeIdleConns: what it has not come to is still in activeConn, and
\* nothing else is unless it has met a connection that is not idle.  Outside of
\* it, the flag is TRUE.
LoopInv ==
    IF Sweeping THEN left \subseteq activeConn /\ (quiet => activeConn \subseteq left)
                ELSE quiet

\* While a Shutdown polls, no Serve is about to add its listener, either.
Barred ==
    \A k \in Closers :
        Polling(k) => listeners = {} /\ \A s \in Serves : spc[s] # "add"

Types ==
    /\ spc \in [Serves -> {"none", "track", "add", "init", "make", "accept",
                           "untrack"}]
    /\ lsn \in [Serves -> {"none", "open", "closed"}]
    /\ listeners \subseteq Serves
    /\ doneChan \in {"nil", "open", "closed"}
    /\ kpc \in [Closers -> {"none", "check", "close", "conns", "listeners",
                            "poll", "sweep", "pause"}]
    /\ op \in [Closers -> {"none", "close", "shutdown", "keepalive"}]
    /\ left \subseteq Conns
    /\ quiet \in BOOLEAN
    /\ cst \in [Conns -> Live \cup {"Waiting", "Accepted", "Hijacked", "Closed"}]
    /\ csock \in [Conns -> BOOLEAN]
    /\ activeConn \subseteq Conns

\* What the steps of closeIdleConns take from the rest, and what they do not.
Mutex == Callers /\ OneHolder /\ LoopInv

Inv ==
    /\ Types /\ ShutdownCounted /\ Mutex /\ Unlisted /\ ListenersOwned
    /\ NoConnForgotten /\ Barred

-----------------------------------------------------------------------------
(* Counting the calls of Shutdown. *)

LEMMA CallsFinite == IsFiniteSet(Calls) /\ Cardinality(Calls) \in Nat
<1>1. Calls \in SUBSET Closers
  BY DEF Calls
<1> QED BY <1>1, ServerAssumption, FS_Subset, FS_CardinalityType

LEMMA SameCalls == ASSUME ShutdownCounted, UNCHANGED <<op, inShutdown>>
                   PROVE  ShutdownCounted'
BY DEF ShutdownCounted, InShutdownCall

\* A call that returns takes back what it counted, and nothing else.
LEMMA ReturnCounts ==
    ASSUME Types, ShutdownCounted, NEW k \in Closers, Return(k)
    PROVE  ShutdownCounted'
<1>1. Calls' = Calls \ {k}
  BY DEF Calls, InShutdownCall, Return, Types
<1>2. Cardinality(Calls') = IF k \in Calls THEN Cardinality(Calls) - 1
                                           ELSE Cardinality(Calls)
  BY <1>1, CallsFinite, FS_RemoveElement
<1>3. k \in Calls <=> op[k] = "shutdown"
  BY DEF Calls, InShutdownCall
<1>4. inShutdown = Cardinality(Calls)
  BY DEF ShutdownCounted, Calls
<1>5. inShutdown' = Cardinality(Calls')
  BY <1>2, <1>3, <1>4 DEF Return
<1> QED BY <1>5 DEF ShutdownCounted, Calls

\* Whoever is in a call of Shutdown is counted.
LEMMA CallCounts ==
    ASSUME ShutdownCounted, NEW k \in Closers, op[k] = "shutdown"
    PROVE  ShuttingDown
<1>1. k \in Calls
  BY DEF Calls, InShutdownCall
<1>2. Cardinality(Calls) # 0
  BY <1>1, CallsFinite, FS_EmptySet
<1> QED BY <1>2 DEF ShutdownCounted, Calls, ShuttingDown

-----------------------------------------------------------------------------
(* The steps of Serve, of the connections and of the closers. *)

LEMMA ServeKeeps ==
    ASSUME Inv, NEW s \in Serves, ServeStep(s)
    PROVE  Inv'
<1> USE DEF Inv, Mutex
<1>0. UNCHANGED <<inShutdown, closeVars, sweepVars, csock, activeConn>>
  BY DEF ServeStep, ServeRuns, ServeCall, ServeTrack, ServeAdd, ServeRefused,
     ServeInit, ServeMake, ServeReturn, ServeFails, ServeAccept, connVars
<1>1. ShutdownCounted' /\ Callers' /\ LoopInv'
  BY <1>0, SameCalls DEF closeVars, sweepVars, Callers, LoopInv, Sweeping
<1> USE <1>0, <1>1 DEF closeVars, sweepVars, connVars, Types, OneHolder, Sweeping,
        Unlisted, ListenersOwned, NoConnForgotten, Barred, Polling, InShutdownCall
<1>2. CASE ServeCall(s)
  BY <1>2 DEF ServeCall, ServeAt
<1>3. CASE ServeTrack(s)
  <2>1. \A k \in Closers : ~Polling(k)
    BY <1>3, CallCounts DEF ServeTrack, MayListen
  <2>2. \A k \in Closers : kpc[k] # "sweep"
    BY <1>3 DEF ServeTrack, MuFree
  <2> QED BY <1>3, <2>1, <2>2 DEF ServeTrack, ServeAt
<1>4. CASE ServeAdd(s)
  <2>1. \A k \in Closers : ~Polling(k)
    BY <1>4 DEF ServeAdd, ServeAt
  <2> QED BY <1>4, <2>1 DEF ServeAdd, ServeAt
<1>5. CASE ServeRefused(s) \/ ServeInit(s) \/ ServeMake(s) \/ ServeFails(s)
  BY <1>5 DEF ServeRefused, ServeInit, ServeMake, ServeFails, ServeAt
<1>6. CASE ServeReturn(s)
  BY <1>6 DEF ServeReturn, ListenersWithout, ServeAt
<1>7. ASSUME NEW c \in Conns, ServeAccept(s, c) PROVE Inv'
  BY <1>7 DEF ServeAccept, serveVars, Live
<1> QED BY <1>2, <1>3, <1>4, <1>5, <1>6, <1>7 DEF ServeStep, ServeRuns

LEMMA ConnKeeps ==
    ASSUME Inv, NEW c \in Conns, ConnRuns(c)
    PROVE  Inv'
<1> USE DEF Inv, Mutex
<1>1. UNCHANGED <<serveVars, doneChan, inShutdown, closeVars, sweepVars>>
  BY DEF ConnRuns, ConnRefuse, ConnTrack, ConnWork, ConnRest, ConnHijack, ConnLeave,
     ConnShut, ConnStep
<1>2. /\ ShutdownCounted' /\ Callers' /\ Unlisted' /\ ListenersOwned' /\ Barred'
      /\ OneHolder'
  BY <1>1, SameCalls DEF serveVars, closeVars, Callers, OneHolder, Sweeping, Unlisted,
     ListenersOwned, Barred, Polling, InShutdownCall
<1>3. LoopInv'
  <2>1. CASE Sweeping
    <3>1. ~MuFree
      BY <2>1 DEF Sweeping, MuFree
    <3>2. UNCHANGED activeConn
      BY <3>1 DEF ConnRuns, ConnRefuse, ConnTrack, ConnWork, ConnRest, ConnHijack,
         ConnLeave, ConnShut, Enter, Forget
    <3> QED BY <1>1, <3>2 DEF closeVars, sweepVars, LoopInv, Sweeping
  <2>2. CASE ~Sweeping
    BY <1>1, <2>2 DEF closeVars, sweepVars, LoopInv, Sweeping
  <2> QED BY <2>1, <2>2
<1> USE <1>1 DEF serveVars, closeVars, sweepVars, Types, NoConnForgotten, Live, ConnStep
<1>4. CASE ConnRefuse(c) \/ ConnWork(c) \/ ConnRest(c) \/ ConnShut(c)
  BY <1>2, <1>3, <1>4 DEF ConnRefuse, ConnWork, ConnRest, ConnShut
<1>5. CASE ConnTrack(c)
  BY <1>2, <1>3, <1>5 DEF ConnTrack, Enter
<1>6. CASE ConnHijack(c) \/ ConnLeave(c)
  BY <1>2, <1>3, <1>6 DEF ConnHijack, ConnLeave, Forget
<1> QED BY <1>4, <1>5, <1>6 DEF ConnRuns

\* Closing the sockets of connections, and forgetting them, loses none.
LEMMA SocketsKeep ==
    ASSUME Types, NoConnForgotten, NEW C, CloseSockets(C), UNCHANGED cst
    PROVE  /\ NoConnForgotten' /\ csock' \in [Conns -> BOOLEAN]
           /\ activeConn' \subseteq activeConn
BY DEF Types, NoConnForgotten, CloseSockets

\* A closer that was not, and is not, in closeIdleConns takes nothing from
\* whoever is.
LEMMA MutexKept ==
    ASSUME Types, OneHolder, LoopInv, NEW k \in Closers,
           UNCHANGED <<spc, left, quiet>>,
           UNCHANGED activeConn \/ MuFree,
           kpc[k] # "sweep", \A j \in Closers : j # k => kpc'[j] = kpc[j],
           kpc'[k] # "sweep"
    PROVE  OneHolder' /\ LoopInv'
<1>1. \A j \in Closers : kpc'[j] = "sweep" <=> kpc[j] = "sweep"
  OBVIOUS
<1>2. Sweeping' <=> Sweeping
  BY <1>1 DEF Sweeping
<1>3. LoopInv'
  BY <1>2 DEF LoopInv, Sweeping, MuFree
<1> QED BY <1>1, <1>2, <1>3 DEF OneHolder

\* Whoever is in closeIdleConns and leaves it was the only one there.
LEMMA MutexGiven ==
    ASSUME Types, OneHolder, NEW k \in Closers, kpc[k] = "sweep",
           UNCHANGED spc, quiet' = TRUE,
           \A j \in Closers : j # k => kpc'[j] = kpc[j], kpc'[k] # "sweep"
    PROVE  OneHolder' /\ LoopInv'
<1>1. \A j \in Closers : kpc'[j] # "sweep"
  BY DEF OneHolder
<1> QED BY <1>1 DEF OneHolder, LoopInv, Sweeping

LEMMA SweepKeeps ==
    ASSUME Inv, NEW k \in Closers,
           \/ ShutdownPoll(k) \/ KeepAlivesOff(k) \/ SweepStep(k)
    PROVE  Inv'
<1> USE DEF Inv, Mutex
<1>1. UNCHANGED serveVars
  BY DEF ShutdownPoll, KeepAlivesOff, SweepBegin, SweepStep, SweepConn, KeepAlivesDone,
     ShutdownDone, ShutdownWait, SweepEnd
<1>2. Unlisted' /\ ListenersOwned'
  BY <1>1 DEF serveVars, Unlisted, ListenersOwned
<1> USE <1>1 DEF serveVars, Types
<1>3. CASE ShutdownPoll(k)
  <2>1. OneHolder' /\ LoopInv'
    BY <1>3 DEF ShutdownPoll, SweepBegin, MuFree, OneHolder, LoopInv, Sweeping, connVars
  <2> QED
    BY <1>2, <1>3, <2>1, SameCalls DEF ShutdownPoll, SweepBegin, connVars, Callers,
       NoConnForgotten, Barred, Polling, InShutdownCall
<1>4. CASE KeepAlivesOff(k)
  <2>1. OneHolder' /\ LoopInv'
    BY <1>4 DEF KeepAlivesOff, SweepBegin, MuFree, OneHolder, LoopInv, Sweeping, connVars
  <2>2. op[k] = "none" /\ op' = [op EXCEPT ![k] = "keepalive"]
    BY <1>4 DEF KeepAlivesOff, SweepBegin, Callers
  <2>3. Calls' = Calls
    BY <2>2 DEF Calls, InShutdownCall
  <2>4. ShutdownCounted'
    BY <1>4, <2>3 DEF KeepAlivesOff, SweepBegin, ShutdownCounted, Calls
  <2> QED
    BY <1>2, <1>4, <2>1, <2>2, <2>4 DEF KeepAlivesOff, SweepBegin, connVars, Callers,
       NoConnForgotten, Barred, Polling, InShutdownCall
<1>5. ASSUME NEW c \in Conns, SweepConn(k, c) PROVE Inv'
  <2>1. /\ NoConnForgotten' /\ csock' \in [Conns -> BOOLEAN]
        /\ activeConn' \subseteq activeConn
    BY <1>5, SocketsKeep DEF SweepConn, NoConnForgotten
  <2>2. ShutdownCounted' /\ Callers' /\ OneHolder' /\ Barred'
    BY <1>5, SameCalls DEF SweepConn, closeVars, Callers, OneHolder, Sweeping, Barred,
       Polling, InShutdownCall
  <2>3. left' \subseteq activeConn' /\ (quiet' => activeConn' \subseteq left')
    BY <1>5 DEF SweepConn, StillQuiet, CloseSockets, LoopInv, Sweeping
  <2>4. Sweeping'
    BY <1>5 DEF SweepConn, closeVars, Sweeping
  <2>5. left' \subseteq Conns /\ quiet' \in BOOLEAN
    BY <1>5 DEF SweepConn, StillQuiet
  <2> QED
    BY <1>2, <1>5, <2>1, <2>2, <2>3, <2>4, <2>5 DEF SweepConn, closeVars, LoopInv
<1>6. CASE KeepAlivesDone(k) \/ ShutdownDone(k)
  <2>1. SweepEnd(k) /\ Return(k)
    BY <1>6 DEF KeepAlivesDone, ShutdownDone
  <2>2. OneHolder' /\ LoopInv'
    BY <2>1, MutexGiven DEF SweepEnd, Return
  <2> QED
    BY <1>2, <2>1, <2>2, ReturnCounts DEF SweepEnd, Return, connVars, Callers,
       NoConnForgotten, Barred, Polling, InShutdownCall
<1>7. CASE ShutdownWait(k)
  <2>1. OneHolder' /\ LoopInv'
    BY <1>7, MutexGiven DEF ShutdownWait, SweepEnd, CloserAt
  <2> QED
    BY <1>2, <1>7, <2>1, SameCalls DEF ShutdownWait, SweepEnd, CloserAt, connVars,
       Callers, NoConnForgotten, Barred, Polling, InShutdownCall
<1> QED BY <1>3, <1>4, <1>5, <1>6, <1>7 DEF SweepStep

LEMMA CloserKeeps ==
    ASSUME Inv, NEW k \in Closers, CloserStep(k)
    PROVE  Inv'
<1> USE DEF Inv, Mutex
<1>1. CASE CloseCall(k) \/ ShutdownCall(k)
  <2>1. /\ kpc[k] = "none" /\ op[k] = "none" /\ UNCHANGED <<serveVars, sweepVars, connVars>>
        /\ kpc' = [kpc EXCEPT ![k] = "check"]
    BY <1>1 DEF CloseCall, ShutdownCall, CloserAt, Callers
  <2>2. OneHolder' /\ LoopInv'
    BY <2>1, MutexKept DEF serveVars, sweepVars, connVars, Types
  <2>3. CASE CloseCall(k)
    <3>1. Calls' = Calls
      BY <2>1, <2>3 DEF CloseCall, Calls, InShutdownCall, Types
    <3>2. ShutdownCounted'
      BY <2>3, <3>1 DEF CloseCall, ShutdownCounted, Calls
    <3> QED
      BY <2>1, <2>2, <2>3, <3>2 DEF CloseCall, serveVars, sweepVars, connVars, Types,
         Callers, Unlisted, ListenersOwned, NoConnForgotten, Barred, Polling,
         InShutdownCall
  <2>4. CASE ShutdownCall(k)
    <3>1. Calls' = Calls \cup {k} /\ k \notin Calls
      BY <2>1, <2>4 DEF ShutdownCall, Calls, InShutdownCall, Types
    <3>2. Cardinality(Calls') = Cardinality(Calls) + 1
      BY <3>1, CallsFinite, FS_AddElement
    <3>3. ShutdownCounted'
      BY <2>4, <3>2 DEF ShutdownCall, ShutdownCounted, Calls
    <3> QED
      BY <2>1, <2>2, <2>4, <3>3 DEF ShutdownCall, serveVars, sweepVars, connVars, Types,
         Callers, Unlisted, ListenersOwned, NoConnForgotten, Barred, Polling,
         InShutdownCall
  <2> QED BY <1>1, <2>3, <2>4
<1>2. CASE ChanCheck(k) \/ ChanClose(k)
  <2>1. UNCHANGED <<serveVars, inShutdown, op, sweepVars, connVars>>
    BY <1>2 DEF ChanCheck, ChanClose
  <2>2. PICK pc \in {"close", "conns", "listeners"} :
            kpc[k] \in {"check", "close"} /\ kpc' = [kpc EXCEPT ![k] = pc]
    BY <1>2 DEF ChanCheck, ChanClose, CloserAt, AfterChan
  <2>3. doneChan' \in {"nil", "open", "closed"}
    BY <1>2 DEF ChanCheck, ChanClose, Types
  <2>4. OneHolder' /\ LoopInv'
    BY <2>1, <2>2, MutexKept DEF serveVars, sweepVars, connVars, Types
  <2> QED
    BY <2>1, <2>2, <2>3, <2>4, SameCalls DEF serveVars, sweepVars, connVars, Types,
       Callers, Unlisted, ListenersOwned, NoConnForgotten, Barred, Polling,
       InShutdownCall
<1>3. CASE ChanPanic(k) \/ ShutdownExpire(k)
  <2>1. /\ kpc[k] \in {"close", "pause"} /\ Return(k)
        /\ UNCHANGED <<serveVars, doneChan, sweepVars, connVars>>
    BY <1>3 DEF ChanPanic, ShutdownExpire
  <2>2. OneHolder' /\ LoopInv'
    BY <2>1, MutexKept DEF Return, serveVars, sweepVars, connVars, Types
  <2> QED
    BY <2>1, <2>2, ReturnCounts DEF Return, serveVars, sweepVars, connVars, Types,
       Callers, Unlisted, ListenersOwned, NoConnForgotten, Barred, Polling,
       InShutdownCall
<1>4. CASE CloseConns(k)
  <2>1. /\ NoConnForgotten' /\ csock' \in [Conns -> BOOLEAN]
        /\ activeConn' \subseteq activeConn
    BY <1>4, SocketsKeep DEF CloseConns
  <2>2. OneHolder' /\ LoopInv'
    BY <1>4, <2>1, MutexKept DEF CloseConns, CloserAt, serveVars, sweepVars, Types
  <2> QED
    BY <1>4, <2>1, <2>2, SameCalls DEF CloseConns, CloserAt, serveVars, sweepVars,
       Types, Callers, Unlisted, ListenersOwned, Barred, Polling, InShutdownCall
<1>5. CASE CloseListeners(k)
  <2>1. /\ Unlisted' /\ ListenersOwned' /\ NoConnForgotten' /\ listeners' = {}
        /\ \A s \in Serves : spc'[s] # "add"
    BY <1>5 DEF CloseListeners, connVars, Types, Unlisted, ListenersOwned,
       NoConnForgotten, MuFree
  <2>2. CASE Return(k)
    <3>1. OneHolder' /\ LoopInv'
      BY <1>5, <2>2, MutexKept DEF CloseListeners, Return, sweepVars, connVars, Types
    <3> QED
      BY <1>5, <2>1, <2>2, <3>1, ReturnCounts DEF CloseListeners, Return, sweepVars,
         connVars, Types, Callers, Barred
  <2>3. CASE op[k] = "shutdown" /\ CloserAt(k, "listeners", "poll") /\ UNCHANGED <<op, inShutdown>>
    <3>1. OneHolder' /\ LoopInv'
      BY <1>5, <2>3, MutexKept DEF CloseListeners, CloserAt, sweepVars, connVars, Types
    <3> QED
      BY <1>5, <2>1, <2>3, <3>1, SameCalls DEF CloseListeners, CloserAt, sweepVars,
         connVars, Types, Callers, Barred
  <2>4. op[k] \in {"close", "shutdown"}
    BY <1>5 DEF CloseListeners, Types, Callers
  <2> QED BY <1>5, <2>2, <2>3, <2>4 DEF CloseListeners
<1>6. CASE ShutdownPoll(k) \/ KeepAlivesOff(k) \/ SweepStep(k)
  BY <1>6, SweepKeeps
<1> QED BY <1>1, <1>2, <1>3, <1>4, <1>5, <1>6 DEF CloserStep, CloserRuns

LEMMA InvInductive == Spec => []Inv
<1>1. Init => Inv
  <2>1. Init => Calls = {}
    BY DEF Init, Calls, InShutdownCall
  <2>2. Init => ShutdownCounted
    BY <2>1, FS_EmptySet DEF Init, ShutdownCounted, Calls
  <2> QED
    BY <2>2 DEF Init, Inv, Mutex, Types, Callers, OneHolder, LoopInv, Sweeping, Unlisted,
       ListenersOwned, NoConnForgotten, Live, Barred, Polling
<1>2. Inv /\ [Next]_vars => Inv'
  <2>1. Inv /\ UNCHANGED vars => Inv'
    BY SameCalls DEF Inv, Mutex, vars, serveVars, closeVars, sweepVars, connVars, Types,
       Callers, OneHolder, LoopInv, Sweeping, Unlisted, ListenersOwned,
       NoConnForgotten, Barred, Polling, InShutdownCall
  <2> QED BY <2>1, ServeKeeps, ConnKeeps, CloserKeeps DEF Next
<1> QED BY <1>1, <1>2, PTL DEF Spec

-----------------------------------------------------------------------------
(* The theorems. *)

\* The fields of the server, and what its goroutines are at, keep their types.
THEOREM ServerTypes == Spec => []TypeOK
<1>1. Inv => TypeOK
  BY CallsFinite DEF Inv, Types, TypeOK, ShutdownCounted, Calls
<1> QED BY <1>1, InvInductive, PTL

\* inShutdown is the number of Shutdown calls under way, whichever way they end:
\* Serve is never refused for a Shutdown that is over.
THEOREM ShutdownsAreCounted == Spec => []ShutdownCounted
<1>1. Inv => ShutdownCounted
  BY DEF Inv
<1> QED BY <1>1, InvInductive, PTL

\* Every listener Close can reach is open, and belongs to a Serve that runs.
THEOREM ListenersAreOwned == Spec => []ListenersOwned
<1>1. Inv => ListenersOwned
  BY DEF Inv
<1> QED BY <1>1, InvInductive, PTL

\* Close and Shutdown miss no connection that is being served.
THEOREM NoConnIsForgotten == Spec => []NoConnForgotten
<1>1. Inv => NoConnForgotten
  BY DEF Inv
<1> QED BY <1>1, InvInductive, PTL

\* No Serve has a listener while a Shutdown polls.
THEOREM ShutdownBarsServe == Spec => []ShutdownBars
<1>1. Inv => ShutdownBars
  BY DEF Inv, Barred, ShutdownBars
<1> QED BY <1>1, InvInductive, PTL

\* A Shutdown that returns nil leaves no connection in service: the flag that the
\* loop of closeIdleConns carries is TRUE only if every connection it went through
\* was idle and was closed, and the mutex keeps others out until it ends.
THEOREM ShutdownIsClean == Spec => CleanShutdown
<1>1. Inv /\ [Next]_vars =>
        [\A k \in Closers :
            ShutdownDone(k) =>
               /\ activeConn = {}
               /\ \A c \in Conns : cst[c] \in Live => ~csock[c]]_vars
  <2> SUFFICES ASSUME Inv, NEW k \in Closers, ShutdownDone(k)
               PROVE  /\ activeConn = {}
                      /\ \A c \in Conns : cst[c] \in Live => ~csock[c]
    OBVIOUS
  <2>1. Sweeping /\ left = {} /\ quiet
    BY DEF ShutdownDone, SweepEnd, Sweeping
  <2>2. activeConn = {}
    BY <2>1 DEF Inv, Mutex, LoopInv
  <2> QED BY <2>2 DEF Inv, NoConnForgotten
<1> QED BY <1>1, InvInductive, PTL DEF Spec, CleanShutdown

-----------------------------------------------------------------------------
(* Every connection of the server lives the life of ConnLife. *)

LEMMA LifeInitially == Init => \A c \in Conns : Life(c)!Init
BY DEF Init, LifeState, Life!Init

\* Sockets that are closed are those of connections the server forgets.
LEMMA CutIsLife ==
    ASSUME Types, NEW C \in SUBSET activeConn, CloseSockets(C), UNCHANGED cst,
           NEW c \in Conns
    PROVE  [Life(c)!Next]_(Life(c)!vars)
<1>1. CASE c \in C
  <2>1. csock'[c] = FALSE /\ c \in activeConn /\ c \notin activeConn'
    BY <1>1, Zenon DEF CloseSockets
  <2>2. LifeState(c)' = LifeState(c)
    BY DEF LifeState
  <2> QED BY <2>1, <2>2 DEF Life!Next, Life!Cut
<1>2. CASE c \notin C
  <2>1. csock'[c] = csock[c]
    BY <1>2 DEF CloseSockets, Types
  <2> QED BY <1>2, <2>1 DEF CloseSockets, Life!vars, LifeState
<1> QED BY <1>1, <1>2

LEMMA ConnRunsIsLife ==
    ASSUME Types, NEW d \in Conns, ConnRuns(d), NEW c \in Conns
    PROVE  [Life(c)!Next]_(Life(c)!vars)
<1> USE DEF Types, ConnStep, LifeState, Live
<1>1. CASE ConnRefuse(d)
  BY <1>1 DEF ConnRefuse, Life!Next, Life!Refuse, Life!vars
<1>2. CASE ConnTrack(d)
  BY <1>2 DEF ConnTrack, Enter, Life!Next, Life!Track, Life!vars
<1>3. CASE ConnWork(d)
  BY <1>3 DEF ConnWork, Life!Next, Life!Work, Life!Live, Life!vars
<1>4. CASE ConnRest(d)
  BY <1>4 DEF ConnRest, Life!Next, Life!Rest, Life!Live, Life!vars
<1>5. CASE ConnHijack(d)
  BY <1>5 DEF ConnHijack, Forget, Life!Next, Life!Hijack, Life!vars
<1>6. CASE ConnLeave(d)
  BY <1>6 DEF ConnLeave, Forget, Life!Next, Life!Leave, Life!Live, Life!vars
<1>7. CASE ConnShut(d)
  BY <1>7 DEF ConnShut, Life!Next, Life!Shut, Life!vars
<1> QED BY <1>1, <1>2, <1>3, <1>4, <1>5, <1>6, <1>7 DEF ConnRuns

\* ConnLife is implemented by every connection of the server, however many there
\* are and whoever closes them.
THEOREM ConnsLive == Spec => LifeSpec
<1>1. Inv /\ [Next]_vars => [\A c \in Conns : [Life(c)!Next]_(Life(c)!vars)]_vars
  <2> SUFFICES ASSUME Inv, Next, NEW c \in Conns
               PROVE  [Life(c)!Next]_(Life(c)!vars)
    OBVIOUS
  <2>1. Types
    BY DEF Inv
  <2>2. CASE UNCHANGED connVars
    BY <2>2 DEF connVars, Life!vars, LifeState
  <2>3. ASSUME NEW s \in Serves, NEW d \in Conns, ServeAccept(s, d)
        PROVE  UNCHANGED Life(c)!vars
    BY <2>1, <2>3 DEF ServeAccept, Types, LifeState, Life!vars
  <2>4. ASSUME NEW s \in Serves, ServeRuns(s) \/ ServeCall(s) \/ ServeFails(s)
        PROVE  UNCHANGED connVars
    BY <2>4 DEF ServeRuns, ServeCall, ServeTrack, ServeAdd, ServeRefused, ServeInit,
       ServeMake, ServeReturn, ServeFails
  <2>5. ASSUME NEW k \in Closers, CloserStep(k)
        PROVE  \/ UNCHANGED connVars
               \/ \E C \in SUBSET activeConn : CloseSockets(C) /\ UNCHANGED cst
    <3>1. CASE CloseConns(k)
      BY <3>1 DEF CloseConns
    <3>2. ASSUME NEW d \in Conns, SweepConn(k, d)
          PROVE  \/ UNCHANGED connVars
                 \/ \E C \in SUBSET activeConn : CloseSockets(C) /\ UNCHANGED cst
      <4>1. {d} \in SUBSET activeConn
        BY <3>2 DEF Inv, Mutex, LoopInv, Sweeping, SweepConn
      <4> QED BY <3>2, <4>1 DEF SweepConn, connVars
    <3>3. CASE ~CloseConns(k) /\ \A d \in Conns : ~SweepConn(k, d)
      BY <2>5, <3>3 DEF CloserStep, CloserRuns, CloseCall, ShutdownCall, KeepAlivesOff,
         ChanCheck, ChanClose, ChanPanic, CloseListeners, ShutdownPoll, SweepBegin,
         SweepStep, SweepEnd, KeepAlivesDone, ShutdownDone, ShutdownWait, ShutdownExpire
    <3> QED BY <3>1, <3>2, <3>3
  <2>7. ASSUME NEW C \in SUBSET activeConn, CloseSockets(C), UNCHANGED cst
        PROVE  [Life(c)!Next]_(Life(c)!vars)
    BY <2>1, <2>7, CutIsLife
  <2>8. ASSUME NEW d \in Conns, ConnRuns(d)
        PROVE  [Life(c)!Next]_(Life(c)!vars)
    BY <2>1, <2>8, ConnRunsIsLife
  <2> QED BY <2>2, <2>3, <2>4, <2>5, <2>7, <2>8 DEF Next, ServeStep
<1> QED BY <1>1, LifeInitially, InvInductive, PTL DEF Spec, LifeSpec

-----------------------------------------------------------------------------
(* When closing twice is harmless. *)

\* It takes two goroutines to close doneChan twice: if only one ever calls Close
\* and Shutdown, however often, what is closed is skipped (server.go:92-101).
THEOREM OneCloserSkips ==
    ASSUME \A k, j \in Closers : k = j
    PROVE  Spec => AlreadyClosedIsSkipped
<1> DEFINE Checked == \A k \in Closers : kpc[k] = "close" => doneChan # "closed"
<1>1. Init => Checked
  BY DEF Init
<1>2. Inv /\ Checked /\ [Next]_vars => Checked'
  <2> SUFFICES ASSUME Inv, Checked, [Next]_vars PROVE Checked'
    OBVIOUS
  <2> USE DEF Inv, Types
  <2>1. ASSUME NEW s \in Serves, ServeStep(s) PROVE Checked'
    <3>1. UNCHANGED kpc /\ (doneChan' = doneChan \/ doneChan' \in {"open", "nil"})
      BY <2>1
         DEF ServeStep, ServeRuns, ServeCall, ServeTrack, ServeAdd, ServeRefused,
             ServeInit, ServeMake, ServeReturn, ServeFails, ServeAccept,
             closeVars
    <3> QED
      BY <3>1
  <2>2. ASSUME NEW c \in Conns, ConnRuns(c) PROVE Checked'
    BY <2>2 DEF ConnRuns, ConnRefuse, ConnTrack, ConnWork, ConnRest, ConnHijack,
                ConnLeave, ConnShut, ConnStep, closeVars
  <2>3. ASSUME NEW k \in Closers, CloserStep(k) PROVE Checked'
    <3>1. CASE CloseCall(k) \/ ShutdownCall(k) \/ CloseConns(k)
               \/ CloseListeners(k)
      BY <3>1 DEF CloseCall, ShutdownCall, CloseConns, CloseListeners, CloserAt,
                  Return
    <3>2. CASE ChanCheck(k) \/ ChanClose(k)
      <4>1. AfterChan(k) # "close"
        BY DEF AfterChan
      <4> QED
        BY <3>2, <4>1 DEF ChanCheck, ChanClose, CloserAt
    <3>3. CASE ChanPanic(k) \/ ShutdownPoll(k) \/ KeepAlivesOff(k) \/ SweepStep(k)
               \/ ShutdownExpire(k)
      BY <3>3 DEF ChanPanic, ShutdownPoll, KeepAlivesOff, SweepBegin, SweepStep,
                  SweepConn, SweepEnd, KeepAlivesDone, ShutdownDone, ShutdownWait,
                  ShutdownExpire, CloserAt, Return, closeVars
    <3> QED
      BY <2>3, <3>1, <3>2, <3>3 DEF CloserStep, CloserRuns
  <2>4. CASE UNCHANGED vars
    BY <2>4 DEF vars, closeVars
  <2> QED
    BY <2>1, <2>2, <2>3, <2>4 DEF Next
<1>3. Checked => [\A k \in Closers : ChanPanic(k) => doneChan # "closed"]_vars
  BY DEF ChanPanic
<1> QED
  BY <1>1, <1>2, <1>3, InvInductive, PTL DEF Spec, AlreadyClosedIsSkipped

=============================================================================

----------------------------- MODULE ClientInv ------------------------------
(***************************************************************************)
(* The inductive invariant of Client: who answers for a connection at each *)
(* moment.  TLC checks it as an invariant of MCClient; ClientProofs proves *)
(* it.                                                                     *)
(***************************************************************************)
EXTENDS Client

Watched(k) == watch[k] \in {"select", "cut", "discard", "close"}
Working(k) == pc[k] \in {"arm", "write", "expect", "read"}
Unfit(c)   == pooling => discarded[c]

\* A connection in use has a watcher to give it back, and no more than one.
OneWatcher ==
    /\ \A k \in Calls :
          Watched(k) => conn[k] \in Conns /\ place[conn[k]] = "used"
    /\ \A k, j \in Calls :
          Watched(k) /\ Watched(j) /\ conn[k] = conn[j] => k = j

\* A call works on a connection that is its own or that is closed.
WorksOnOwn ==
    \A k \in Calls :
        /\ pc[k] \in {"idle", "dial"} => watch[k] = "none"
        /\ Working(k) =>
              /\ conn[k] \in Conns
              /\ Watched(k) \/ (watch[k] = "ended" /\ ~Open(conn[k]))

\* A watcher that closes has been told to by a call that has returned, or has
\* discarded the connection.
ClosedInOrder ==
    \A k \in Calls :
        /\ done[k] => pc[k] = "returned"
        /\ watch[k] = "close" => done[k] \/ Unfit(conn[k])

\* It comes on the connection of that call, which waits for it, or has
\* discarded the connection.
AnswersHeld ==
    \A c \in Conns, k \in Calls : Awaited(c, k) =>
        /\ place[c] = "used" /\ conn[k] = c /\ Watched(k)
        /\ pc[k] \in {"expect", "read"}
           \/ (pc[k] \in {"leave", "returned"} /\ Unfit(c))

\* It comes once.
AnswersOnce ==
    \A c \in Conns, k \in Calls : \A i \in 1 .. Len(lines[c]) :
        lines[c][i].nonce = k =>
            /\ k \notin owed[c]
            /\ \A j \in 1 .. Len(lines[c]) : lines[c][j].nonce = k => j = i

\* A connection that was cut off is given up.
CutHeld ==
    \A c \in Conns : cut[c] # {} =>
        /\ place[c] = "used"
        /\ \E k \in Calls :
              /\ conn[k] = c
              /\ watch[k] = "discard" \/ (watch[k] = "close" /\ Unfit(c))

\* A reply that says close is still to be read, or has been heeded.
CloseHeeded ==
    \A c \in Conns : last[c] = "close" =>
        /\ place[c] = "used"
        /\ \/ Unfit(c)
           \/ \E i \in 1 .. Len(lines[c]) :
                 lines[c][i].nonce # NoNonce /\ lines[c][i].header = "close"

\* The discipline that keeps a connection with one call from the time it is
\* dialled to the time it is fit for another (client.go:109-162).
Custody ==
    /\ OneWatcher /\ WorksOnOwn /\ ClosedInOrder
    /\ AnswersHeld /\ AnswersOnce /\ CutHeld /\ CloseHeeded

IInv == TypeOK /\ Custody /\ PoolOwesNothing
=============================================================================

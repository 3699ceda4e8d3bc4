------------------------------ MODULE ConnLife ------------------------------
(***************************************************************************)
(* The life of one connection as the Server sees it: the state conn.setState*)
(* stores (src/conn.go:521-562), whether the connection is in activeConn,   *)
(* and whether its socket is closed.  Conn, the connection in detail, and   *)
(* Server, which has many, both implement this module.                      *)
(***************************************************************************)

VARIABLES
    state,      \* "Accepted" before the first setState, then conn.curState
    tracked,    \* in Server.activeConn
    open        \* the server has not closed the socket

vars == <<state, tracked, open>>

Live == {"New", "Active", "Idle"}

TypeOK ==
    /\ state \in Live \cup {"Accepted", "Hijacked", "Closed"}
    /\ tracked \in BOOLEAN
    /\ open \in BOOLEAN

Init ==
    /\ \/ state = "Accepted" /\ tracked = FALSE
       \/ state = "New" /\ tracked = TRUE
    /\ open = TRUE

\* ConnContext refuses the connection, or Serve's goroutine takes it.
Refuse == state = "Accepted" /\ state' = "Closed" /\ open' = FALSE
          /\ UNCHANGED tracked
Track  == state = "Accepted" /\ state' = "New" /\ tracked' = TRUE
          /\ UNCHANGED open

\* A request or an answer has come; the connection waits for the next line.
Work == state \in Live /\ state' = "Active" /\ UNCHANGED <<tracked, open>>
Rest == state \in Live /\ state' = "Idle" /\ UNCHANGED <<tracked, open>>

\* The handler takes the connection over, as it is.
Hijack ==
    /\ state = "Active"
    /\ state' = "Hijacked"
    /\ tracked' = FALSE
    /\ UNCHANGED open

\* serve returns: the server forgets the connection, then the socket is closed.
Leave ==
    /\ state \in Live
    /\ state' = "Closed"
    /\ tracked' = FALSE
    /\ UNCHANGED open
Shut == state = "Closed" /\ open' = FALSE /\ UNCHANGED <<state, tracked>>

\* The server closes the socket and forgets the connection, whose goroutine
\* will find out: when idle (closeIdleConns), or in any state (closeConns).
Cut ==
    /\ tracked
    /\ tracked' = FALSE
    /\ open' = FALSE
    /\ UNCHANGED state

Next == Refuse \/ Track \/ Work \/ Rest \/ Hijack \/ Leave \/ Shut \/ Cut

Spec == Init /\ [][Next]_vars

-----------------------------------------------------------------------------

\* A connection whose goroutine works for the server is either one the server
\* can still close, because it knows it, or already closed.
Reachable == state \in Live => tracked \/ ~open

\* The server knows no connection that has ended, was taken over or is closed.
TrackedIsLive == tracked => state \in Live /\ open

=============================================================================

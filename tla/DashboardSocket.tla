--------------------------- MODULE DashboardSocket --------------------------
(***************************************************************************)
(* Operations started from the dashboard (index, eval-generate, eval-run,  *)
(* eval-save): the page's WebSocket with its reconnections                 *)
(* (packages/virage-dashboard/src/context/WebSocketContext.tsx) and the    *)
(* server's single-operation guard (packages/virage-cli/src/cli/           *)
(* dashboard.ts).  Several pages are open.  A connection can be lost at    *)
(* any time; the page opens another one, and sends what it had to send.    *)
(***************************************************************************)
EXTENDS Naturals, Sequences, FiniteSets

CONSTANTS
    Pages,          \* open pages
    MaxSockets,     \* sockets a page opens
    MaxOps          \* operations a page starts

ASSUME SocketBounds == MaxSockets \in Nat \ {0} /\ MaxOps \in Nat

VARIABLES
    socket,     \* socket[p][n]: state of the n-th WebSocket of page p
    current,    \* wsRef: the page's current socket, 0 if none
    retry,      \* retryTimerRef: a reconnection is scheduled
    pending,    \* pendingMsgRef: a message waits for a connection
    running,    \* operationRunning: the page shows an operation
    carrier,    \* history: the socket that carried the page's operation, 0 if none
    started,    \* history: operations the page started
    toServer,   \* sockets with a message on its way to the server
    toPage,     \* terminal messages on their way to a page: <<page, socket, type>>
    operation   \* wsOperationRunning, with the socket it reports to

socketVars == <<socket, current, retry, pending, running, carrier, started,
                toServer, toPage, operation>>

Sockets == 1..MaxSockets
NoOp == <<>>

SocketInit ==
    /\ socket = [p \in Pages |-> [n \in Sockets |-> IF n = 1 THEN "connecting" ELSE "none"]]
    /\ current = [p \in Pages |-> 1]
    /\ retry = [p \in Pages |-> FALSE]
    /\ pending = [p \in Pages |-> FALSE]
    /\ running = [p \in Pages |-> FALSE]
    /\ carrier = [p \in Pages |-> 0]
    /\ started = [p \in Pages |-> 0]
    /\ toServer = {}
    /\ toPage = {}
    /\ operation = NoOp

IsOpen(p) == current[p] # 0 /\ socket[p][current[p]] = "open"

-----------------------------------------------------------------------------
(* The page.                                                               *)

\* connect(): nothing if the current socket is open; a socket that is still
\* connecting is replaced, and goes on by itself.
Connect(p) ==
    IF IsOpen(p)
    THEN UNCHANGED <<socket, current>>
    ELSE \E n \in Sockets :
            /\ socket[p][n] = "none"
            /\ socket' = [socket EXCEPT ![p][n] = "connecting"]
            /\ current' = [current EXCEPT ![p] = n]

Send(p, n) ==
    /\ toServer' = toServer \cup {<<p, n>>}
    /\ carrier' = [carrier EXCEPT ![p] = n]

\* startOp, from a button that is disabled while an operation is shown.
StartOp(p) ==
    /\ ~running[p]
    /\ started[p] < MaxOps
    /\ started' = [started EXCEPT ![p] = @ + 1]
    /\ running' = [running EXCEPT ![p] = TRUE]
    /\ \/ /\ IsOpen(p)
          /\ Send(p, current[p])
          /\ UNCHANGED <<socket, current, pending>>
       \/ /\ ~IsOpen(p)
          /\ pending' = [pending EXCEPT ![p] = TRUE]
          /\ Connect(p)
          /\ carrier' = [carrier EXCEPT ![p] = 0]
          /\ UNCHANGED toServer
    /\ UNCHANGED <<retry, toPage, operation>>

\* Faulty variant: the message that waited is lost.
OnOpenForgets(p, n) ==
    /\ socket[p][n] = "connecting"
    /\ socket' = [socket EXCEPT ![p][n] = "open"]
    /\ pending' = [pending EXCEPT ![p] = FALSE]
    /\ UNCHANGED <<current, retry, running, carrier, toServer, started, toPage, operation>>

\* ws.onopen sends the message that waits, on whichever socket opens first.
OnOpen(p, n) ==
    /\ socket[p][n] = "connecting"
    /\ socket' = [socket EXCEPT ![p][n] = "open"]
    /\ IF pending[p] THEN Send(p, n) ELSE UNCHANGED <<toServer, carrier>>
    /\ pending' = [pending EXCEPT ![p] = FALSE]
    /\ UNCHANGED <<current, retry, running, started, toPage, operation>>

\* ws.onmessage of a done, error or busy message.
OnTerminal(p, n) ==
    /\ \E t \in {"done", "error", "busy"} :
        /\ <<p, n, t>> \in toPage
        /\ toPage' = toPage \ {<<p, n, t>>}
    /\ running' = [running EXCEPT ![p] = FALSE]
    /\ UNCHANGED <<socket, current, retry, pending, carrier, started, toServer, operation>>

\* The connection is lost, with what was on it.  ws.onclose schedules a new one
\* unless another socket took over; it leaves operationRunning alone.
OnClose(p, n) ==
    /\ socket[p][n] \in {"connecting", "open"}
    /\ \E k \in Sockets : socket[p][k] = "none"
    /\ socket' = [socket EXCEPT ![p][n] = "closed"]
    /\ toServer' = toServer \ {<<p, n>>}
    /\ toPage' = {m \in toPage : m[1] # p \/ m[2] # n}
    /\ IF current[p] = n
       THEN /\ current' = [current EXCEPT ![p] = 0]
            /\ retry' = [retry EXCEPT ![p] = TRUE]
       ELSE UNCHANGED <<current, retry>>
    /\ UNCHANGED <<pending, running, carrier, started, operation>>

Reconnect(p) ==
    /\ retry[p]
    /\ retry' = [retry EXCEPT ![p] = FALSE]
    /\ \/ Connect(p)
       \/ /\ \A n \in Sockets : socket[p][n] # "none"   \* the bound
          /\ UNCHANGED <<socket, current>>
    /\ UNCHANGED <<pending, running, carrier, started, toServer, toPage, operation>>

-----------------------------------------------------------------------------
(* The server.                                                             *)

\* safeSend drops a message for a socket that is no longer open.
SafeSend(p, n, t) ==
    toPage' = IF socket[p][n] = "open" THEN toPage \cup {<<p, n, t>>} ELSE toPage

\* ws.on("message"): busy, or the operation takes the guard.
OnMessage(p, n) ==
    /\ <<p, n>> \in toServer
    /\ toServer' = toServer \ {<<p, n>>}
    /\ IF operation # NoOp
       THEN SafeSend(p, n, "busy") /\ UNCHANGED operation
       ELSE operation' = <<p, n>> /\ UNCHANGED toPage
    /\ UNCHANGED <<socket, current, retry, pending, running, carrier, started>>

\* handleWsOperation ends: done, or an error (no project, no configuration, no
\* dataset, an unknown operation, an exception); `finally` frees the guard.
HandleWsOperation ==
    /\ operation # NoOp
    /\ \E t \in {"done", "error"} : SafeSend(operation[1], operation[2], t)
    /\ operation' = NoOp
    /\ UNCHANGED <<socket, current, retry, pending, running, carrier, started, toServer>>

SocketNext ==
    \/ \E p \in Pages : StartOp(p) \/ Reconnect(p)
    \/ \E p \in Pages, n \in Sockets :
          OnOpen(p, n) \/ OnTerminal(p, n) \/ OnClose(p, n) \/ OnMessage(p, n)
    \/ HandleWsOperation

\* Sockets open or fail, timers fire, messages arrive and operations end.
SocketFairness ==
    /\ WF_socketVars(HandleWsOperation)
    /\ \A p \in Pages : WF_socketVars(Reconnect(p))
    /\ \A p \in Pages, n \in Sockets :
        /\ WF_socketVars(OnOpen(p, n))
        /\ WF_socketVars(OnTerminal(p, n))
        /\ WF_socketVars(OnMessage(p, n))

SocketSpec == SocketInit /\ [][SocketNext]_socketVars /\ SocketFairness

-----------------------------------------------------------------------------
(* Properties.                                                             *)

\* Types; and what is on its way is on an open socket.
SocketTypeOK ==
    /\ \A p \in Pages : current[p] \in 0..MaxSockets
    /\ \A m \in toServer \cup toPage : socket[m[1]][m[2]] = "open"
    /\ operation = NoOp \/ operation \in Pages \X Sockets

\* The places the page's operation can be: waiting for a connection, on its way,
\* in the server or on its way back.
Owed(p) ==
    \/ pending[p]
    \/ <<p, carrier[p]>> \in toServer
    \/ operation = <<p, carrier[p]>>
    \/ \E m \in toPage : m[1] = p /\ m[2] = carrier[p]

\* A page never sends an operation twice: what waited for a connection is sent
\* by one socket only, although several can be connecting.
SentOnce ==
    \A p \in Pages :
        Cardinality({n \in Sockets : <<p, n>> \in toServer}) + (IF pending[p] THEN 1 ELSE 0) <= 1

\* An operation that disables the page is at one place only, or the connection
\* that carried it broke: no interleaving of sockets that connect, close and
\* reconnect loses it or sends it twice.
OperationAccounted ==
    /\ SocketTypeOK /\ SentOnce
    /\ \A p \in Pages : running[p] =>
        Owed(p) \/ (carrier[p] # 0 /\ socket[p][carrier[p]] = "closed")

\* Every operation is answered and the page enabled again, or the socket that
\* carried it was lost.
OperationEnds ==
    \A p \in Pages :
        running[p] ~> (~running[p] \/ (carrier[p] # 0 /\ socket[p][carrier[p]] = "closed"))
=============================================================================

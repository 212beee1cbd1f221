----------------------------- MODULE MCServices -----------------------------
(***************************************************************************)
(* The long-running processes: the query daemon of the agent plugin, the   *)
(* dashboard's projects and its operations.  They share no state, so a     *)
(* behaviour follows one of them while the others stay where they began.   *)
(***************************************************************************)
EXTENDS QueryDaemon, DashboardProjects, DashboardSocket

VARIABLE focus

vars == <<focus, daemonVars, projectVars, socketVars>>

Parked == focus # "projects" => saved.list = <<Entry(CHOOSE r \in Roots : TRUE, 1)>>

Init ==
    /\ focus \in {"daemon", "projects", "socket"}
    /\ DaemonInit /\ ProjectsInit /\ SocketInit
    /\ Parked

Next ==
    \/ /\ focus = "daemon" /\ DaemonNext
       /\ UNCHANGED <<focus, projectVars, socketVars>>
    \/ /\ focus = "projects" /\ ProjectsNext
       /\ UNCHANGED <<focus, daemonVars, socketVars>>
    \/ /\ focus = "socket" /\ SocketNext
       /\ UNCHANGED <<focus, daemonVars, projectVars>>

\* The fairness of the process a behaviour follows: DaemonFairness,
\* ProjectsFairness or SocketFairness.
Fairness ==
    /\ \A r \in Calls :
        /\ WF_daemonVars(focus = "daemon" /\ Timeout(r))
        /\ WF_daemonVars(focus = "daemon" /\ OneShot(r))
    /\ WF_daemonVars(focus = "daemon" /\ OnLine)
    /\ WF_daemonVars(focus = "daemon" /\ OnExit)
    /\ WF_projectVars(focus = "projects" /\ SaveFile)
    /\ WF_projectVars(focus = "projects" /\ SetProjects)
    /\ WF_projectVars(focus = "projects" /\ StartPush)
    /\ \A p \in Pushes : WF_projectVars(focus = "projects" /\ EndPush(p))
    /\ WF_socketVars(focus = "socket" /\ HandleWsOperation)
    /\ \A p \in Pages : WF_socketVars(focus = "socket" /\ Reconnect(p))
    /\ \A p \in Pages, n \in Sockets :
        /\ WF_socketVars(focus = "socket" /\ OnOpen(p, n))
        /\ WF_socketVars(focus = "socket" /\ OnTerminal(p, n))
        /\ WF_socketVars(focus = "socket" /\ OnMessage(p, n))

Spec == Init /\ [][Next]_vars /\ Fairness

\* What a page of the dashboard shows does not stay behind: it comes to show the
\* active project, and an operation it waits for ends or loses its socket.
DashboardCatchesUp == PageCatchesUp /\ OperationEnds
=============================================================================

------------------------- MODULE DashboardProjects --------------------------
(***************************************************************************)
(* The dashboard server's projects (packages/virage-cli/src/cli/           *)
(* dashboard.ts): the list of recent projects kept in memory and in        *)
(* ~/.virage, the requests that add a project or switch to one, the cached *)
(* configuration of the active project, and the updates the server pushes  *)
(* to the open pages.  A request computes the next list before it awaits   *)
(* the write of the file, and a push reads the active project before it    *)
(* awaits the data, so requests and pushes overlap.                        *)
(***************************************************************************)
EXTENDS Naturals, Sequences, FiniteSets, SequencesExt

CONSTANTS
    Roots,          \* root directories of projects
    MAX_PROJECTS,   \* how many recent projects are kept
    Requests,       \* the add and switch requests of a session
    Pushes          \* pushes that can be under way at once

VARIABLES
    projects,   \* projectsState: the list, and the index of the active one
    saved,      \* the file with the recent projects
    request,    \* what each request is about to save
    clock,      \* Date.now()
    cache,      \* configCache: the project whose configuration is cached
    push,       \* the project each push is about
    page,       \* the project whose data the page shows
    asked,      \* history: the project the last request asked for
    raced       \* history: two requests were under way at once

projectVars == <<projects, saved, request, clock, cache, push, page, asked, raced>>

None == "none"
NoList == [list |-> <<>>, active |-> 0]

Entry(r, t) == [root |-> r, lastUsed |-> t]
IndexOf(list, r) == SelectInSeq(list, LAMBDA e : e.root = r)
ActiveProject(s) == IF s.active \in 1..Len(s.list) THEN s.list[s.active].root ELSE None

\* Faulty variant: the active index is kept over the sort.
RecentIndexKept(s) ==
    LET sorted == SortSeq(s.list, LAMBDA a, b : a.lastUsed > b.lastUsed)
    IN  [list |-> SubSeq(sorted, 1, IF Len(sorted) < MAX_PROJECTS THEN Len(sorted) ELSE MAX_PROJECTS),
         active |-> IF s.active <= MAX_PROJECTS THEN s.active ELSE 1]

\* saveRecentProjects: the newest MAX_PROJECTS entries, newest first; if the
\* active one is not among them the first one becomes active.
Recent(s) ==
    LET sorted == SortSeq(s.list, LAMBDA a, b : a.lastUsed > b.lastUsed)
        kept   == SubSeq(sorted, 1, IF Len(sorted) < MAX_PROJECTS THEN Len(sorted) ELSE MAX_PROJECTS)
        index  == IndexOf(kept, ActiveProject(s))
    IN  [list |-> kept, active |-> IF index = 0 THEN 1 ELSE index]

\* The project is replaced where it is, or put first; it becomes the active one.
WithProject(s, r, t) ==
    LET index == IndexOf(s.list, r)
    IN  IF index > 0
        THEN [list |-> [s.list EXCEPT ![index] = Entry(r, t)], active |-> index]
        ELSE [list |-> <<Entry(r, t)>> \o s.list, active |-> 1]

\* runDashboard opens the project it is started in, over the file of an
\* earlier session.
ProjectsInit ==
    /\ \E r \in Roots, old \in SUBSET Roots :
        /\ Cardinality(old) <= MAX_PROJECTS
        /\ \E order \in SetToSeqs(old) :
            projects = Recent(WithProject([list |-> [n \in 1..Len(order) |-> Entry(order[n], 0)],
                                           active |-> 1], r, 1))
    /\ saved = projects
    /\ request = [q \in Requests |-> [at |-> "idle", next |-> NoList]]
    /\ clock = 1
    /\ cache = None
    /\ push = [p \in Pushes |-> None]
    /\ page = None
    /\ asked = None
    /\ raced = FALSE

Busy == {q \in Requests : request[q].at \in {"write", "commit"}}

StartRequest(q, r) ==
    /\ request[q].at = "idle"
    /\ clock' = clock + 1
    /\ request' = [request EXCEPT
            ![q] = [at |-> "write", next |-> Recent(WithProject(projects, r, clock + 1))]]
    /\ asked' = r
    /\ raced' = (raced \/ Busy # {})
    /\ UNCHANGED <<projects, saved, cache, push, page>>

\* POST /api/projects/add, for a directory with virage data
AddProject == \E q \in Requests, r \in Roots : StartRequest(q, r)

\* POST /api/projects/switch, with the index of a project in the list
SwitchProject ==
    \E q \in Requests, n \in 1..Len(projects.list) : StartRequest(q, projects.list[n].root)

\* The file is written, then the list in memory is replaced.
SaveFile ==
    \E q \in Requests :
        /\ request[q].at = "write"
        /\ saved' = request[q].next
        /\ request' = [request EXCEPT ![q].at = "commit"]
        /\ UNCHANGED <<projects, clock, cache, push, page, asked, raced>>

SetProjects ==
    \E q \in Requests :
        /\ request[q].at = "commit"
        /\ projects' = request[q].next
        /\ cache' = None
        /\ request' = [request EXCEPT ![q].at = "done"]
        /\ UNCHANGED <<saved, clock, push, page, asked, raced>>

\* getCachedConfig for the active project, by a search, an operation or a push;
\* when the load ends, the result is cached under the path it was loaded from.
CacheConfig ==
    \E r \in Roots :
        /\ cache # r
        /\ r = ActiveProject(projects) \/ \E p \in Pushes : push[p] = r
        /\ cache' = r
        /\ UNCHANGED <<projects, saved, request, clock, push, page, asked, raced>>

\* Faulty variant: no push once the page shows something.
StartPushOnce ==
    \E p \in Pushes :
        /\ push[p] = None /\ page = None
        /\ push' = [push EXCEPT ![p] = ActiveProject(projects)]
        /\ UNCHANGED <<projects, saved, request, clock, cache, page, asked, raced>>

\* broadcastDashboardUpdate, on a connection, after an operation and every 10 s.
StartPush ==
    \E p \in Pushes :
        /\ push[p] = None
        /\ push' = [push EXCEPT ![p] = ActiveProject(projects)]
        /\ UNCHANGED <<projects, saved, request, clock, cache, page, asked, raced>>

EndPush(p) ==
    /\ push[p] # None
    /\ page' = push[p]
    /\ push' = [push EXCEPT ![p] = None]
    /\ UNCHANGED <<projects, saved, request, clock, cache, asked, raced>>

ProjectsNext ==
    \/ AddProject \/ SwitchProject \/ SaveFile \/ SetProjects \/ CacheConfig \/ StartPush
    \/ \E p \in Pushes : EndPush(p)

\* A request and a push end (their I/O does), and the timer starts pushes.
ProjectsFairness ==
    /\ WF_projectVars(SaveFile)
    /\ WF_projectVars(SetProjects)
    /\ WF_projectVars(StartPush)
    /\ \A p \in Pushes : WF_projectVars(EndPush(p))

ProjectsSpec == ProjectsInit /\ [][ProjectsNext]_projectVars /\ ProjectsFairness

-----------------------------------------------------------------------------
(* Properties.                                                             *)

ProjectsTypeOK ==
    /\ Len(projects.list) \in 1..MAX_PROJECTS
    /\ projects.active \in 1..Len(projects.list)
    /\ cache \in Roots \cup {None}
    /\ page \in Roots \cup {None}

\* A project is in the list once, also when requests overlap.
NoDuplicateProjects ==
    \A m, n \in 1..Len(projects.list) : projects.list[m].root = projects.list[n].root => m = n

\* When requests do not overlap, the project asked for last is the active one,
\* it survives the cut to MAX_PROJECTS, and the file says the same as the memory.
ActiveAsAsked ==
    (~raced /\ Busy = {}) =>
        /\ saved = projects
        /\ asked # None => ActiveProject(projects) = asked

\* The list of projects, in memory and on disk, is what the requests asked for.
ProjectsAsAsked == ProjectsTypeOK /\ NoDuplicateProjects /\ ActiveAsAsked

\* After the last add or switch the page ends up showing the active project for
\* good, although a push that began before it can be delivered after it.
PageCatchesUp == <>[](asked # None => page = ActiveProject(projects))
=============================================================================

---------------------------- MODULE QueryDaemon ----------------------------
(***************************************************************************)
(* The search tool of packages/virage-agent-claude: server.ts sends a      *)
(* query to a warm `virage query-serve` process through the DaemonHandle   *)
(* of query-daemon.ts and falls back to a one-shot `virage query`.         *)
(*                                                                         *)
(* Requests and answers travel over the two pipes of the process without   *)
(* an identifier: the answer that arrives is given to the request at the   *)
(* head of the handle's queue. Rows are named by the request they answer.  *)
(* The engine side is cmd_query_serve of the engine crate.                 *)
(***************************************************************************)
EXTENDS Naturals, Sequences, FiniteSets, SequencesExt

CONSTANTS
  Calls,     \* the calls of the search tool
  NoRows,       \* no rows were returned
  MaxTimeouts,  \* bound: requests whose timer fires
  MaxSpawns     \* bound: query-serve processes started

ASSUME DaemonBounds == MaxTimeouts \in Nat /\ MaxSpawns \in Nat

VARIABLES
  call,      \* where the handler of each call stands
  answer,    \* the request whose rows the call returned
  queue,     \* DaemonHandle.queue
  dead,      \* DaemonHandle.dead (TRUE as well before the first handle)
  proc,      \* the query-serve process: "none", "cold", "warm" or "gone"
  stdin,     \* requests written to the process and not read by it
  stdout,    \* answer lines not yet delivered to the "line" callback
  timeouts,  \* timers that have fired
  spawns     \* processes started

daemonVars == <<call, answer, queue, dead, proc, stdin, stdout, timeouts, spawns>>

Lines == [req : Calls, ok : BOOLEAN]

DaemonInit ==
  /\ call = [r \in Calls |-> "idle"]
  /\ answer = [r \in Calls |-> NoRows]
  /\ queue = <<>> /\ dead = TRUE
  /\ proc = "none" /\ stdin = <<>> /\ stdout = <<>>
  /\ timeouts = 0 /\ spawns = 0

(***************************************************************************)
(* daemonSearch: the handle is replaced when it is missing or dead, then   *)
(* DaemonHandle.query queues the request and writes it, in one tick. What  *)
(* is written to a process that is gone is never read, if it can be        *)
(* written.                                                                *)
(***************************************************************************)
SendToNew(r) ==
  /\ dead /\ spawns < MaxSpawns
  /\ queue' = <<r>> /\ stdin' = <<r>> /\ stdout' = <<>>
  /\ dead' = FALSE /\ proc' = "cold"
  /\ spawns' = spawns + 1

SendToWarm(r) ==
  /\ ~dead
  /\ queue' = Append(queue, r) /\ stdin' = Append(stdin, r)
  /\ UNCHANGED <<stdout, dead, proc, spawns>>

(***************************************************************************)
(* The process has died and its "exit" event is still to come: the write   *)
(* fails with EPIPE. Nothing listens to "error" of the process's stdin, so *)
(* the server ends, and with it every call it has. The agent starts the    *)
(* server again for the next call.                                         *)
(***************************************************************************)
SendToGone(r) ==
  /\ call[r] = "idle"
  /\ ~dead /\ proc = "gone"
  /\ call' = [q \in Calls |-> IF q = r \/ call[q] \in {"daemon", "oneshot"}
                             THEN "lost" ELSE call[q]]
  /\ dead' = TRUE
  /\ queue' = <<>> /\ stdin' = <<>> /\ stdout' = <<>>
  /\ UNCHANGED <<answer, proc, timeouts, spawns>>

Search(r) ==
  /\ call[r] = "idle"
  /\ SendToNew(r) \/ SendToWarm(r)
  /\ call' = [call EXCEPT ![r] = "daemon"]
  /\ UNCHANGED <<answer, timeouts>>

\* Faulty variant: the newest request is answered.
OnLineLast ==
  /\ stdout # <<>> /\ queue # <<>>
  /\ stdout' = Tail(stdout)
  /\ queue' = Front(queue)
  /\ call' = [call EXCEPT ![Last(queue)] = "rows"]
  /\ answer' = [answer EXCEPT ![Last(queue)] = Head(stdout).req]
  /\ UNCHANGED <<dead, proc, stdin, timeouts, spawns>>

(***************************************************************************)
(* The "line" callback: shift the queue; rows resolve the request, an      *)
(* error object or an unparsable line rejects it, which sends server.ts to *)
(* its one-shot path. A line nobody waits for is dropped.                  *)
(***************************************************************************)
OnLine ==
  /\ stdout # <<>>
  /\ stdout' = Tail(stdout)
  /\ \/ /\ queue = <<>>
        /\ UNCHANGED <<queue, call, answer>>
     \/ /\ queue # <<>>
        /\ queue' = Tail(queue)
        /\ LET r == Head(queue) l == Head(stdout) IN
             IF l.ok
             THEN /\ call' = [call EXCEPT ![r] = "rows"]
                  /\ answer' = [answer EXCEPT ![r] = l.req]
             ELSE /\ call' = [call EXCEPT ![r] = "oneshot"]
                  /\ UNCHANGED answer
  /\ UNCHANGED <<dead, proc, stdin, timeouts, spawns>>

\* Faulty variants: the request stays in the queue; the timer never fires.
TimeoutStaysQueued(r) ==
  /\ timeouts < MaxTimeouts
  /\ call[r] = "daemon"
  /\ timeouts' = timeouts + 1
  /\ call' = [call EXCEPT ![r] = "oneshot"]
  /\ UNCHANGED <<answer, queue, dead, proc, stdin, stdout, spawns>>
TimeoutNever(r) == FALSE /\ UNCHANGED daemonVars

(* The timer of a pending request fires: splice it out and reject it.      *)
Timeout(r) ==
  /\ timeouts < MaxTimeouts
  /\ call[r] = "daemon"
  /\ timeouts' = timeouts + 1
  /\ queue' = RemoveFirst(queue, r)
  /\ call' = [call EXCEPT ![r] = "oneshot"]
  /\ UNCHANGED <<answer, dead, proc, stdin, stdout, spawns>>

(* killAllPending, on the "exit" or the "error" event of the process.      *)
OnExit ==
  /\ proc = "gone" /\ ~dead
  /\ dead' = TRUE
  /\ queue' = <<>>
  /\ call' = [r \in Calls |->
                IF Contains(queue, r) THEN "oneshot" ELSE call[r]]
  /\ UNCHANGED <<answer, proc, stdin, stdout, timeouts, spawns>>

(* resolve_engine: the embedder, the reranker and the store are ready.     *)
EngineWarm ==
  /\ proc = "cold"
  /\ proc' = "warm"
  /\ UNCHANGED <<call, answer, queue, dead, stdin, stdout, timeouts, spawns>>

(* One turn of cmd_query_serve: one line read, one line written.           *)
Serve ==
  /\ proc = "warm" /\ stdin # <<>>
  /\ stdin' = Tail(stdin)
  /\ \E ok \in BOOLEAN :
       stdout' = Append(stdout, [req |-> Head(stdin), ok |-> ok])
  /\ UNCHANGED <<call, answer, queue, dead, proc, timeouts, spawns>>

(* The process could not be started, has no query-serve, failed to resolve *)
(* its engine, or was killed.                                              *)
ProcessEnds ==
  /\ proc \in {"cold", "warm"}
  /\ proc' = "gone"
  /\ UNCHANGED <<call, answer, queue, dead, stdin, stdout, timeouts, spawns>>

(* The fallback: a one-shot subprocess with its own time limit, whose      *)
(* failure is answered with a text.                                        *)
OneShot(r) ==
  /\ call[r] = "oneshot"
  /\ \/ /\ call' = [call EXCEPT ![r] = "rows"]
        /\ answer' = [answer EXCEPT ![r] = r]
     \/ /\ call' = [call EXCEPT ![r] = "failed"]
        /\ UNCHANGED answer
  /\ UNCHANGED <<queue, dead, proc, stdin, stdout, timeouts, spawns>>

DaemonNext ==
  \/ \E r \in Calls : Search(r) \/ SendToGone(r) \/ Timeout(r) \/ OneShot(r)
  \/ OnLine \/ OnExit
  \/ EngineWarm \/ Serve \/ ProcessEnds

(***************************************************************************)
(* Fairness: timers, pending exit events, delivered lines and the one-shot *)
(* process with its 30 s limit. None of the query-serve process itself,    *)
(* which may hang.                                                         *)
(***************************************************************************)
DaemonFairness ==
  /\ \A r \in Calls : WF_daemonVars(Timeout(r)) /\ WF_daemonVars(OneShot(r))
  /\ WF_daemonVars(OnLine) /\ WF_daemonVars(OnExit)

DaemonSpec == DaemonInit /\ [][DaemonNext]_daemonVars /\ DaemonFairness

-----------------------------------------------------------------------------
DaemonTypeOK ==
  /\ call \in [Calls -> {"idle", "daemon", "oneshot", "rows", "failed", "lost"}]
  /\ answer \in [Calls -> Calls \cup {NoRows}]
  /\ queue \in Seq(Calls) /\ stdin \in Seq(Calls)
  /\ stdout \in Seq(Lines)
  /\ dead \in BOOLEAN /\ proc \in {"none", "cold", "warm", "gone"}
  /\ timeouts \in 0..MaxTimeouts /\ spawns \in 0..MaxSpawns

(* The requests whose answer the handle still has coming, in order.        *)
Outstanding == [i \in 1..Len(stdout) |-> stdout[i].req] \o stdin

SubsequenceOf(s, t) ==
  \E f \in [1..Len(s) -> 1..Len(t)] :
    /\ \A i, j \in 1..Len(s) : i < j => f[i] < f[j]
    /\ \A i \in 1..Len(s) : s[i] = t[f[i]]

(***************************************************************************)
(* Every call that waits for the daemon is in the queue of the live handle *)
(* exactly once, and the queue is a subsequence of the answers that are    *)
(* still to come: no exit, timeout, respawn or late line leaves a caller   *)
(* waiting for an answer nobody will send, and nobody is answered twice.   *)
(***************************************************************************)
WaitersAreOwed ==
  /\ DaemonTypeOK
  /\ \A r \in Calls : (call[r] = "daemon") <=> Contains(queue, r)
  /\ Cardinality(ToSet(queue)) = Len(queue)
  /\ ~dead => SubsequenceOf(queue, Outstanding)
  /\ dead => queue = <<>>

(* The abstract state: a call waits for the handle or retries on its own;  *)
(* the handle is in step when no answer to a request that left the queue   *)
(* is still to come.                                                       *)
StatusOf(c) ==
  CASE c = "daemon" -> "waiting"
    [] c = "oneshot" -> "retrying"
    [] OTHER -> c
Status == [r \in Calls |-> StatusOf(call[r])]
InStep == dead \/ Len(Outstanding) = Len(queue)

(***************************************************************************)
(* The handle gives each caller the rows of its own query as long as no    *)
(* answer to a request that has timed out is still to come; the daemon     *)
(* with its queue, timers, deaths and respawns implements SearchService.   *)
(***************************************************************************)
Service == INSTANCE SearchService WITH
  Requests <- Calls,
  status <- Status,
  inStep <- InStep

ImplementsService == Service!Spec

(***************************************************************************)
(* Every search returns: the timer, the exit event or the answer moves the *)
(* call on, and the one-shot process is bounded, even when query-serve     *)
(* hangs or dies. The exception is a call that is lost with the server,    *)
(* when a request is written to a query-serve that has died and whose exit *)
(* the handle has not seen; query-daemon.ts, 13-16, has that call fall     *)
(* back as well.                                                           *)
(***************************************************************************)
EverySearchReturns ==
  \A r \in Calls :
    (call[r] = "daemon") ~> (call[r] \in {"rows", "failed", "lost"})
=============================================================================

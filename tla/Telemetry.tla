------------------------------ MODULE Telemetry ------------------------------
(***************************************************************************)
(* Telemetry of the TypeScript packages: the sessions MCP servers and CLI  *)
(* commands record in the telemetry tables of virage.db (core/telemetry,   *)
(* virage-mcp/src/cli.ts and tools.ts, virage-cli/src/cli-telemetry.ts),   *)
(* the TelemetryFlusher that posts a session's summary, and the commands   *)
(* `virage telemetry on, off, init, flush`. Every process loads its        *)
(* configuration once, when it starts; its session is opened by a later    *)
(* step, and other processes act in between.                               *)
(*                                                                         *)
(* Of the five event tables the model keeps which sessions have rows in them; their          *)
(* `flushed` columns are written and never read. A configuration without   *)
(* an endpoint behaves as one whose endpoint never answers. A step ends at *)
(* an await: a payload is built in one step, the endpoint gets it in       *)
(* another, the answer is handled in a third.                              *)
(***************************************************************************)
EXTENDS Naturals, FiniteSets

CONSTANTS
  Servers,    \* processes that are MCP servers
  Commands,   \* processes that are commands of the CLI
  MaxFlights  \* bound: payloads being posted at the same time

\* A session is named by the process that may open it.
Sessions == Servers \cup Commands

VARIABLES
  enabled,   \* telemetry.enabled of virage.config.json
  proc,      \* session -> its process
  row,       \* session -> its telemetry_sessions row
  events,    \* the sessions with rows in the event tables
  flights,   \* payloads being posted
  received,  \* session -> the rows of it that the endpoint has
  wipe,      \* where `virage telemetry off` stands
  optedOut,  \* history: sessions whose row an opt-out deleted
  ended,     \* history: sessions that were over when their rows were cleared
  late       \* history: sessions that recorded rows when they were flagged
             \* or when a summary of theirs was on its way
             \* (of a session whose row is deleted, received and late
             \* forget everything)

history == <<optedOut, ended>>
vars == <<enabled, proc, row, events, flights, received, wipe, history,
          late>>

Loops == {"loop", "timer", "end"}
\* A process in one of these states has opened no session yet.
NotYet == {"none", "loaded"}
\* ... and in one of these it writes to its session.
Writing == {"up", "closing", "command"}

NotStarted == [state |-> "none", enabled |-> FALSE, retry |-> {}]
Gone == [NotStarted EXCEPT !.state = "gone"]

Init ==
  /\ enabled = TRUE
  /\ proc = [s \in Sessions |-> NotStarted]
  /\ row = [s \in Sessions |-> "absent"]
  /\ events = {} /\ flights = {}
  /\ received = [s \in Sessions |-> "none"]
  /\ wipe = "idle" /\ optedOut = {} /\ ended = {}
  /\ late = {}

(* getUnflushedSessions.                                                   *)
Unflushed == {s \in Sessions : row[s] = "pending"}

WithRows == {s \in Sessions : row[s] # "absent" \/ s \in events}

(* insertTelemetrySession, markTelemetryFlushed and the inserts into the   *)
(* five event tables.                                                      *)
Inserted(s) == [row EXCEPT ![s] = "pending"]
Flagged(s) == [row EXCEPT ![s] = IF @ = "absent" THEN @ ELSE "flushed"]
Recorded(s) == events \cup {s}

(* buildSessionSummaryPayload: null for a session without a row.           *)
HasPayload(s) == row[s] # "absent"

-----------------------------------------------------------------------------
Posting(b, via) == \E f \in flights : f.by = b /\ f.via = via

\* Faulty variant: a session without a row is posted too.
PostAnyway(b, via, t, on) ==
  /\ ~Posting(b, via) /\ Cardinality(flights) < MaxFlights
  /\ flights' = IF on
                THEN flights \cup {[by |-> b, via |-> via, of |-> t,
                                    stage |-> "posted", whole |-> TRUE]}
                ELSE flights

(* flush(t) by process b up to its await: nothing without an endpoint, and *)
(* nothing for a session that has no row (the payload is null). The retry  *)
(* loop and the shutdown await their flush, and the hour between two turns *)
(* of the timer is longer than the 5 s a post may take. What is posted is  *)
(* whole until the session records more.                                   *)
Post(b, via, t, on) ==
  /\ ~Posting(b, via) /\ Cardinality(flights) < MaxFlights
  /\ flights' = IF on /\ HasPayload(t)
                THEN flights \cup {[by |-> b, via |-> via, of |-> t,
                                    stage |-> "posted", whole |-> TRUE]}
                ELSE flights

(* The five inserts: rows go to the event tables whatever became of the    *)
(* session's row and of the summaries on their way.                        *)
Recording(s) ==
  /\ events' = Recorded(s)
  /\ flights' = {[f EXCEPT !.whole = @ /\ f.of # s] : f \in flights}
  /\ received' = [received EXCEPT ![s] = IF @ = "all" THEN "some" ELSE @]
  /\ late' = IF \/ row[s] = "flushed"
                \/ row[s] = "pending" /\ \E f \in flights : f.of = s
             THEN late \cup {s} ELSE late

(* A process loads its configuration: an MCP server before it initialises  *)
(* its store, a command before CliTelemetry.start, `telemetry flush`       *)
(* before it opens the database. Which of them it is shows when it goes on.*)
LoadConfig(s) ==
  /\ proc[s].state = "none"
  /\ proc' = [proc EXCEPT ![s] =
                [state |-> "loaded", enabled |-> enabled, retry |-> {}]]
  /\ UNCHANGED <<enabled, row, events, flights, received, wipe, history,
                 late>>

(***************************************************************************)
(* Start of an MCP server, its store initialised: TelemetrySession inserts *)
(* the session's row if telemetry was enabled in the configuration that    *)
(* was loaded; retryPending reads the sessions that are not flushed and    *)
(* young enough, and goes through them one at a time.                      *)
(***************************************************************************)
StartServer(s) ==
  /\ proc[s].state = "loaded"
  /\ row' = IF proc[s].enabled THEN Inserted(s) ELSE row
  /\ \E young \in SUBSET Unflushed :
       proc' = [proc EXCEPT ![s].state = "up",
                            ![s].retry = IF proc[s].enabled
                                         THEN young \cup {s} ELSE {}]
  /\ UNCHANGED <<enabled, events, flights, received, wipe, history, late>>

(* The next turn of the loop in retryPending or in runTelemetryFlush.      *)
RetryNext(s) ==
  /\ \E t \in proc[s].retry :
       /\ proc' = [proc EXCEPT ![s].retry = @ \ {t}]
       /\ Post(s, "loop", t, proc[s].enabled)
  /\ UNCHANGED <<enabled, row, events, received, wipe, history,
                 late>>

(* recordSearch, recordLatency, recordError, recordCacheStats and          *)
(* recordFeedback of a server; the update of total_searches finds the      *)
(* session's row or not.                                                   *)
Record(s) ==
  /\ proc[s].state \in {"up", "closing"} /\ proc[s].enabled
  /\ Recording(s)
  /\ UNCHANGED <<enabled, proc, row, wipe, history>>

(* The interval of startPeriodicFlush.                                     *)
PeriodicFlush(s) ==
  /\ proc[s].state = "up"
  /\ Post(s, "timer", s, proc[s].enabled)
  /\ UNCHANGED <<enabled, proc, row, events, received, wipe, history,
                 late>>

(* SIGINT or SIGTERM: shutdown up to the await of its flush.               *)
Shutdown(s) ==
  /\ proc[s].state = "up"
  /\ proc' = [proc EXCEPT ![s].state = "closing"]
  /\ Post(s, "end", s, proc[s].enabled)
  /\ UNCHANGED <<enabled, row, events, received, wipe, history,
                 late>>

\* Faulty variant: the shutdown waits for an answer that may not come.
ExitWhenAnswered(s) ==
  /\ proc[s].state = "closing"
  /\ proc[s].enabled => row[s] # "pending"
  /\ proc' = [proc EXCEPT ![s] = Gone]
  /\ flights' = {f \in flights : f.by # s}
  /\ UNCHANGED <<enabled, row, events, received, wipe, history,
                 late>>

(* ... and after it: close the database and exit.                          *)
Exit(s) ==
  /\ proc[s].state = "closing"
  /\ ~Posting(s, "end")
  /\ proc' = [proc EXCEPT ![s] = Gone]
  /\ flights' = {f \in flights : f.by # s}
  /\ UNCHANGED <<enabled, row, events, received, wipe, history,
                 late>>

Kill(s) ==
  /\ proc[s].state \notin {"none", "gone"}
  /\ proc' = [proc EXCEPT ![s] = Gone]
  /\ flights' = {f \in flights : f.by # s}
  /\ UNCHANGED <<enabled, row, events, received, wipe, history,
                 late>>

(* CliTelemetry.start of a command (index, check, validate, quality): a    *)
(* session is opened before the command runs. A database that cannot be    *)
(* opened costs only the telemetry, as a killed process does.              *)
CliStart(s) ==
  /\ proc[s].state = "loaded" /\ proc[s].enabled
  /\ proc' = [proc EXCEPT ![s].state = "command"]
  /\ row' = Inserted(s)
  /\ UNCHANGED <<enabled, events, flights, received, wipe, history, late>>

(* record writes a latency row after the command, and an error row when it *)
(* failed, and ends the session.                                           *)
CliRecord(s) ==
  /\ proc[s].state = "command"
  /\ proc' = [proc EXCEPT ![s] = Gone]
  /\ Recording(s)
  /\ UNCHANGED <<enabled, row, wipe, history>>

-----------------------------------------------------------------------------
(* The endpoint stores a summary under its session's id.                   *)
Arrive(f) ==
  /\ f.stage = "posted"
  /\ flights' = (flights \ {f}) \cup {[f EXCEPT !.stage = "arrived"]}
  /\ received' = IF row[f.of] = "absent" THEN received
                 ELSE [received EXCEPT ![f.of] =
                         IF f.whole THEN "all" ELSE IF @ = "all" THEN @
                         ELSE "some"]
  /\ UNCHANGED <<enabled, proc, row, events, wipe, history, late>>

(* The answer is a success: markTelemetryFlushed.                          *)
Succeed(f) ==
  /\ f.stage = "arrived"
  /\ flights' = flights \ {f}
  /\ row' = Flagged(f.of)
  /\ UNCHANGED <<enabled, proc, events, received, wipe, history,
                 late>>

\* Faulty variant: an aborted post counts as sent.
FailFlags(f) ==
  /\ flights' = flights \ {f}
  /\ row' = Flagged(f.of)
  /\ UNCHANGED <<enabled, proc, events, received, wipe, history,
                 late>>

(* An HTTP error, a network error, or the 5 s abort: the answer may have   *)
(* been on its way.                                                        *)
Fail(f) ==
  /\ flights' = flights \ {f}
  /\ UNCHANGED <<enabled, proc, row, events, received, wipe, history,
                 late>>

-----------------------------------------------------------------------------
(* telemetry on, telemetry init.                                           *)
TelemetryOn ==
  /\ enabled' = TRUE
  /\ UNCHANGED <<proc, row, events, flights, received, wipe, history,
                 late>>

(* telemetry off: the configuration, then clearTelemetryData: the five     *)
(* event tables, then the sessions, each its own DELETE.                   *)
OffConfig ==
  /\ wipe = "idle"
  /\ enabled' = FALSE
  /\ wipe' = "events"
  /\ UNCHANGED <<proc, row, events, flights, received, history,
                 late>>

ClearEvents ==
  /\ wipe = "events"
  /\ events' = {}
  /\ ended' = ended \cup {s \in WithRows : proc[s].state = "gone"}
  /\ wipe' = "sessions"
  /\ UNCHANGED <<enabled, proc, row, flights, received, optedOut, late>>

ClearSessions ==
  /\ wipe = "sessions"
  /\ row' = [s \in Sessions |-> "absent"]
  /\ optedOut' = optedOut \cup {s \in Sessions : row[s] # "absent"}
  /\ wipe' = "idle"
  /\ received' = [s \in Sessions |-> "none"] /\ late' = {}
  /\ UNCHANGED <<enabled, proc, events, flights, ended>>

(* The database cannot be opened, or one of the six DELETEs throws, after  *)
(* those before it were done: only a warning, and "Telemetry disabled."    *)
ClearFails ==
  /\ wipe # "idle"
  /\ events' \in IF wipe = "events" THEN SUBSET events ELSE {events}
  /\ wipe' = "idle"
  /\ UNCHANGED <<enabled, proc, row, flights, received, history, late>>

(* telemetry flush: a process without a session of its own that flushes    *)
(* the sessions that are not flushed, of any age, ...                      *)
FlushCommand(s) ==
  /\ proc[s].state = "loaded"
  /\ proc' = [proc EXCEPT ![s].state = "flushing", ![s].retry = Unflushed]
  /\ UNCHANGED <<enabled, row, events, flights, received, wipe, history,
                 late>>

(* ... and exits.                                                          *)
FlushDone(s) ==
  /\ proc[s].state = "flushing" /\ proc[s].retry = {} /\ ~Posting(s, "loop")
  /\ proc' = [proc EXCEPT ![s] = Gone]
  /\ UNCHANGED <<enabled, row, events, flights, received, wipe, history,
                 late>>

Next ==
  \/ \E s \in Sessions : LoadConfig(s) \/ RetryNext(s) \/ Kill(s)
  \/ \E s \in Servers :
       \/ StartServer(s) \/ Record(s)
       \/ PeriodicFlush(s) \/ Shutdown(s) \/ Exit(s)
  \/ \E s \in Commands :
       \/ CliStart(s) \/ CliRecord(s)
       \/ FlushCommand(s) \/ FlushDone(s)
  \/ \E f \in flights : Arrive(f) \/ Succeed(f) \/ Fail(f)
  \/ TelemetryOn
  \/ OffConfig \/ ClearEvents \/ ClearSessions \/ ClearFails

(* The abort timer bounds a post; a shutdown that is not waiting goes on.  *)
Fairness ==
  /\ \A b \in Sessions, via \in Loops :
       WF_vars(\E f \in flights : f.by = b /\ f.via = via /\ Fail(f))
  /\ \A s \in Sessions : WF_vars(Exit(s))

Spec == Init /\ [][Next]_vars /\ Fairness

-----------------------------------------------------------------------------
TypeOK ==
  /\ enabled \in BOOLEAN
  /\ proc \in [Sessions -> [state : NotYet \cup Writing
                                     \cup {"flushing", "gone"},
                            enabled : BOOLEAN, retry : SUBSET Sessions]]
  /\ row \in [Sessions -> {"absent", "pending", "flushed"}]
  /\ flights \subseteq [by : Sessions, via : Loops, of : Sessions,
                        stage : {"posted", "arrived"}, whole : BOOLEAN]
  /\ events \subseteq Sessions
  /\ received \in [Sessions -> {"none", "some", "all"}]
  /\ optedOut \subseteq Sessions /\ ended \subseteq Sessions
  /\ late \subseteq Sessions
  /\ wipe \in {"idle", "events", "sessions"}

(* The payloads that a step builds: only a new one is posted and whole.    *)
Built == {f \in flights' \ flights : f.stage = "posted" /\ f.whole}

(***************************************************************************)
(* Once `virage telemetry off` has cleared the sessions, no payload is     *)
(* built for a session that had its row then, although servers that loaded    *)
(* the old configuration keep recording, keep their timers, shut down with *)
(* a flush and may be in the middle of retryPending: flush finds no        *)
(* session row. Two cases are excepted, and the code does post in them: an *)
(* off whose clearing failed (it warns and reports success all the same),  *)
(* and a process that had loaded the old configuration but opened its      *)
(* session only after the sessions were cleared. A payload that was on its *)
(* way may still arrive.                                                   *)
(***************************************************************************)
OptOutHolds == [][\A f \in Built : f.of \notin optedOut]_vars

(***************************************************************************)
(* A session is flagged flushed only when the endpoint has a summary of    *)
(* it, whichever of the overlapping flushes of servers and commands set    *)
(* the flag, with aborted posts and killed processes in between.           *)
(***************************************************************************)
FlaggedWasReceived ==
  \A s \in Sessions : row[s] = "flushed" => received[s] # "none"

(***************************************************************************)
(* A flagged session has rows that were never sent (and that no retry will *)
(* look at) only when it recorded some while a summary of it was on its    *)
(* way or after it had been flagged: the last flush of a server is at its  *)
(* shutdown, but it may be killed, and a command has none.                 *)
(***************************************************************************)
UnsentWereLate ==
  \A s \in Sessions : row[s] = "flushed" => received[s] = "all" \/ s \in late

(***************************************************************************)
(* Rows without a session row, which no flush finds, belong only to        *)
(* processes that were running when the sessions were cleared: of a        *)
(* session that had ended before the clearing nothing is left.             *)
(***************************************************************************)
StrayRowsOutliveOptOut ==
  \A s \in events :
    row[s] # "absent" \/ s \in optedOut \ ended

(***************************************************************************)
(* Every telemetry row is accounted for: it belongs to a session that a    *)
(* flush can still send, or to one whose rows the endpoint has, or it was  *)
(* recorded late, or its writer outlived an opt-out.                       *)
(***************************************************************************)
RowsAccounted ==
  /\ TypeOK /\ FlaggedWasReceived
  /\ UnsentWereLate /\ StrayRowsOutliveOptOut

(***************************************************************************)
(* A server that is told to stop exits, even when the endpoint never       *)
(* answers its last flush.                                                 *)
(***************************************************************************)
ShutdownEnds ==
  \A s \in Sessions : (proc[s].state = "closing") ~> (proc[s].state = "gone")
=============================================================================

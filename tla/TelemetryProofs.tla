--------------------------- MODULE TelemetryProofs ---------------------------
(***************************************************************************)
(* Proofs about Telemetry for any servers, commands and number of posts     *)
(* under way: every telemetry row is accounted for, and an opt-out holds.  *)
(***************************************************************************)
EXTENDS Telemetry, TLAPS

(* An answer is on its way only for a summary that the endpoint stored,    *)
(* all of the rows when nothing was recorded since it was built.           *)
ArrivedIsReceived ==
  \A f \in flights :
    f.stage = "arrived" /\ row[f.of] # "absent"
      => received[f.of] # "none" /\ (f.whole => received[f.of] = "all")

(* What a summary on its way does not have was recorded late.              *)
MissingIsLate ==
  \A f \in flights : ~f.whole => row[f.of] = "absent" \/ f.of \in late

(* A process that records has a session row, unless an opt-out took it.    *)
WritersHaveRows ==
  \A s \in Sessions :
    proc[s].state \in Writing /\ proc[s].enabled
      => row[s] # "absent" \/ s \in optedOut

(* A session that was over when an opt-out began writes no more.           *)
EndedIsSilent ==
  /\ \A s \in ended : proc[s].state = "gone"
  /\ events \cap ended = {}

(* A process that has opened no session has no rows and no summaries.      *)
OnlyOpened ==
  \A s \in Sessions : proc[s].state \in NotYet =>
    /\ row[s] = "absent" /\ s \notin events /\ s \notin optedOut
    /\ \A f \in flights : f.of # s

(* Only a command that wanted telemetry runs with a session.               *)
CommandsAreEnabled ==
  \A s \in Sessions : proc[s].state = "command" => proc[s].enabled

(* No session row survives the opt-out of its session, or comes back.      *)
OptedOutHasNoRow ==
  \A s \in optedOut : row[s] = "absent"

IInv ==
  /\ TypeOK /\ FlaggedWasReceived /\ UnsentWereLate /\ StrayRowsOutliveOptOut
  /\ ArrivedIsReceived /\ MissingIsLate /\ WritersHaveRows /\ EndedIsSilent
  /\ OnlyOpened /\ CommandsAreEnabled /\ OptedOutHasNoRow

-----------------------------------------------------------------------------
(* The summaries that can be on their way.                                 *)
Summaries == [by : Sessions, via : Loops, of : Sessions,
              stage : {"posted", "arrived"}, whole : BOOLEAN]
Processes == [state : NotYet \cup Writing \cup {"flushing", "gone"},
              enabled : BOOLEAN, retry : SUBSET Sessions]

(* A post keeps the types, ...                                             *)
LEMMA PostTypes ==
  ASSUME TypeOK, NEW b \in Sessions, NEW via \in Loops, NEW t \in Sessions,
         NEW on, Post(b, via, t, on)
  PROVE  flights' \subseteq Summaries
<1> DEFINE new == [by |-> b, via |-> via, of |-> t, stage |-> "posted",
                   whole |-> TRUE]
<1>1. new \in Summaries
  BY DEF Summaries
<1>2. flights' \subseteq flights \cup {new}
  BY DEF Post
<1>3. flights \subseteq Summaries
  BY DEF TypeOK, Summaries
<1> QED
  BY <1>1, <1>2, <1>3

(* ... and so does recording, ...                                          *)
LEMMA RecordingTypes ==
  ASSUME TypeOK, NEW s \in Sessions, Recording(s)
  PROVE  /\ flights' \subseteq Summaries
         /\ events' \subseteq Sessions /\ late' \subseteq Sessions
         /\ received' \in [Sessions -> {"none", "some", "all"}]
<1>1. ASSUME NEW f \in flights
      PROVE  [f EXCEPT !.whole = @ /\ f.of # s] \in Summaries
  <2>1. f \in Summaries
    BY DEF TypeOK, Summaries
  <2>2. (f.whole /\ f.of # s) \in BOOLEAN
    OBVIOUS
  <2> QED
    BY <2>1, <2>2 DEF Summaries
<1>2. flights' \subseteq Summaries
  BY <1>1 DEF Recording
<1>3. events' \subseteq Sessions /\ late' \subseteq Sessions
  BY DEF Recording, Recorded, TypeOK
<1>4. received' \in [Sessions -> {"none", "some", "all"}]
  BY DEF Recording, TypeOK
<1> QED
  BY <1>2, <1>3, <1>4

(* ... and a new state of a process.                                       *)
LEMMA ProcessTypes ==
  ASSUME TypeOK, NEW s \in Sessions, NEW p \in Processes,
         proc' = [proc EXCEPT ![s] = p]
  PROVE  proc' \in [Sessions -> Processes]
BY DEF TypeOK, Processes

(* Every step keeps the types.                                             *)
LEMMA TypeStep ==
  ASSUME TypeOK, [Next]_vars
  PROVE  TypeOK'
<1>1. /\ enabled \in BOOLEAN
      /\ proc \in [Sessions -> Processes]
      /\ row \in [Sessions -> {"absent", "pending", "flushed"}]
      /\ flights \subseteq Summaries
      /\ events \subseteq Sessions
      /\ received \in [Sessions -> {"none", "some", "all"}]
      /\ optedOut \subseteq Sessions /\ ended \subseteq Sessions
      /\ late \subseteq Sessions /\ wipe \in {"idle", "events", "sessions"}
  BY DEF TypeOK, Processes, Summaries
<1>2. SUFFICES
        /\ enabled' \in BOOLEAN
        /\ proc' \in [Sessions -> Processes]
        /\ row' \in [Sessions -> {"absent", "pending", "flushed"}]
        /\ flights' \subseteq Summaries
        /\ events' \subseteq Sessions
        /\ received' \in [Sessions -> {"none", "some", "all"}]
        /\ optedOut' \subseteq Sessions /\ ended' \subseteq Sessions
        /\ late' \subseteq Sessions /\ wipe' \in {"idle", "events", "sessions"}
  BY DEF TypeOK, Processes, Summaries
<1> DEFINE Goal == /\ enabled' \in BOOLEAN
                   /\ proc' \in [Sessions -> Processes]
                   /\ row' \in [Sessions -> {"absent", "pending", "flushed"}]
                   /\ flights' \subseteq Summaries
                   /\ events' \subseteq Sessions
                   /\ received' \in [Sessions -> {"none", "some", "all"}]
                   /\ optedOut' \subseteq Sessions /\ ended' \subseteq Sessions
                   /\ late' \subseteq Sessions
                   /\ wipe' \in {"idle", "events", "sessions"}
<1> USE DEF history
<1>3. Gone \in Processes
  BY DEF Gone, NotStarted, Processes
<1>4. ASSUME NEW s \in Sessions, LoadConfig(s) PROVE Goal
  <2>1. [state |-> "loaded", enabled |-> enabled, retry |-> {}] \in Processes
    BY <1>1 DEF Processes, NotYet
  <2>2. proc' \in [Sessions -> Processes]
    BY <2>1, <1>1, <1>4 DEF LoadConfig
  <2> QED
    BY <2>2, <1>1, <1>4 DEF LoadConfig
<1>5. ASSUME NEW s \in Sessions, StartServer(s) PROVE Goal
  <2>1. PICK young \in SUBSET Unflushed :
          proc' = [proc EXCEPT ![s].state = "up",
                               ![s].retry = IF proc[s].enabled
                                            THEN young \cup {s} ELSE {}]
    BY <1>5 DEF StartServer
  <2>2. young \subseteq Sessions
    BY DEF Unflushed
  <2>3. proc' \in [Sessions -> Processes]
    <3> DEFINE next == IF proc[s].enabled THEN young \cup {s} ELSE {}
    <3>1. proc[s] \in Processes /\ next \in SUBSET Sessions
      BY <2>2, <1>1
    <3> HIDE DEF next
    <3>2. [[proc[s] EXCEPT !.state = "up"] EXCEPT !.retry = next] \in Processes
      BY <3>1 DEF Processes, Writing
    <3>3. proc' = [proc EXCEPT ![s] =
                     [[proc[s] EXCEPT !.state = "up"] EXCEPT !.retry = next]]
      BY <2>1, <1>1 DEF next
    <3> QED
      BY <3>2, <3>3, <1>1
  <2> QED
    BY <2>3, <1>1, <1>5 DEF StartServer, Inserted
<1>6. ASSUME NEW s \in Sessions, RetryNext(s) PROVE Goal
  <2>1. PICK t \in proc[s].retry :
          /\ proc' = [proc EXCEPT ![s].retry = @ \ {t}]
          /\ Post(s, "loop", t, proc[s].enabled)
    BY <1>6 DEF RetryNext
  <2>2. t \in Sessions
    BY <1>1 DEF Processes
  <2>3. flights' \subseteq Summaries
    BY <2>1, <2>2, PostTypes DEF Loops
  <2>4. proc' \in [Sessions -> Processes]
    BY <2>1, <1>1 DEF Processes
  <2> QED
    BY <2>3, <2>4, <1>1, <1>6 DEF RetryNext
<1>7. ASSUME NEW s \in Sessions, Record(s) PROVE Goal
  BY <1>1, <1>7, RecordingTypes DEF Record
<1>8. ASSUME NEW s \in Sessions, PeriodicFlush(s) PROVE Goal
  <2>1. flights' \subseteq Summaries
    BY <1>8, PostTypes DEF PeriodicFlush, Loops
  <2> QED
    BY <2>1, <1>1, <1>8 DEF PeriodicFlush
<1>9. ASSUME NEW s \in Sessions, Shutdown(s) PROVE Goal
  <2>1. flights' \subseteq Summaries
    BY <1>9, PostTypes DEF Shutdown, Loops
  <2>2. proc' \in [Sessions -> Processes]
    BY <1>1, <1>9 DEF Shutdown, Processes, Writing
  <2> QED
    BY <2>1, <2>2, <1>1, <1>9 DEF Shutdown
<1>10. ASSUME NEW s \in Sessions, Exit(s) \/ Kill(s) PROVE Goal
  BY <1>1, <1>3, <1>10 DEF Exit, Kill
<1>11. ASSUME NEW s \in Sessions, CliStart(s) PROVE Goal
  <2>1. proc' \in [Sessions -> Processes]
    BY <1>1, <1>11 DEF CliStart, Processes, Writing
  <2> QED
    BY <2>1, <1>1, <1>11 DEF CliStart, Inserted
<1>12. ASSUME NEW s \in Sessions, CliRecord(s) PROVE Goal
  BY <1>1, <1>3, <1>12, RecordingTypes DEF CliRecord
<1>13. ASSUME NEW s \in Sessions, FlushCommand(s) PROVE Goal
  <2>2. Unflushed \in SUBSET Sessions /\ proc[s] \in Processes
    BY <1>1 DEF Unflushed
  <2>5. \A p \in Processes, u \in SUBSET Sessions :
          [[p EXCEPT !.state = "flushing"] EXCEPT !.retry = u] \in Processes
    BY DEF Processes
  <2>3. [[proc[s] EXCEPT !.state = "flushing"] EXCEPT !.retry = Unflushed]
          \in Processes
    BY <2>2, <2>5
  <2>4. proc' = [proc EXCEPT ![s] =
                   [[proc[s] EXCEPT !.state = "flushing"]
                      EXCEPT !.retry = Unflushed]]
    BY <1>1, <1>13 DEF FlushCommand
  <2>1. proc' \in [Sessions -> Processes]
    BY <2>3, <2>4, <1>1
  <2> QED
    BY <2>1, <1>1, <1>13 DEF FlushCommand
<1>14. ASSUME NEW s \in Sessions, FlushDone(s) PROVE Goal
  BY <1>1, <1>3, <1>14 DEF FlushDone
<1>15. ASSUME NEW f \in flights, Arrive(f) PROVE Goal
  <2>1. f \in Summaries
    BY <1>1
  <2>2. [f EXCEPT !.stage = "arrived"] \in Summaries
    BY <2>1 DEF Summaries
  <2>3. received' \in [Sessions -> {"none", "some", "all"}]
    BY <1>1, <1>15 DEF Arrive
  <2> QED
    BY <2>2, <2>3, <1>1, <1>15 DEF Arrive
<1>16. ASSUME NEW f \in flights, Succeed(f) PROVE Goal
  BY <1>1, <1>16 DEF Succeed, Flagged
<1>17. ASSUME NEW f \in flights, Fail(f) PROVE Goal
  BY <1>1, <1>17 DEF Fail
<1>18. CASE TelemetryOn \/ OffConfig
  BY <1>1, <1>18 DEF TelemetryOn, OffConfig
<1>19. CASE ClearEvents
  BY <1>1, <1>19 DEF ClearEvents, WithRows
<1>20. CASE ClearSessions
  BY <1>1, <1>20 DEF ClearSessions
<1>21. CASE ClearFails
  BY <1>1, <1>21 DEF ClearFails
<1>22. CASE UNCHANGED vars
  BY <1>1, <1>22 DEF vars
<1> QED
  BY <1>4, <1>5, <1>6, <1>7, <1>8, <1>9, <1>10, <1>11, <1>12, <1>13, <1>14,
     <1>15, <1>16, <1>17, <1>18, <1>19, <1>20, <1>21, <1>22 DEF Next, Sessions

(***************************************************************************)
(* The invariant holds initially.                                          *)
(***************************************************************************)
LEMMA IInvInit == Init => IInv
BY DEF Init, NotStarted, IInv, TypeOK, FlaggedWasReceived,
       UnsentWereLate, MissingIsLate, StrayRowsOutliveOptOut,
       ArrivedIsReceived, WritersHaveRows,
       EndedIsSilent, OnlyOpened, CommandsAreEnabled, OptedOutHasNoRow,
       NotYet, Writing

(***************************************************************************)
(* A payload is built only for a session that has its row.                 *)
(***************************************************************************)
LEMMA PostedHasRow ==
  ASSUME NEW b, NEW via, NEW t, NEW on, Post(b, via, t, on),
         NEW f \in flights' \ flights
  PROVE  f.of = t /\ row[t] # "absent" /\ f.stage = "posted" /\ f.whole
BY DEF Post, HasPayload

(* A session with its row has been opened.                                 *)
LEMMA RowIsOpened ==
  ASSUME IInv, NEW s \in Sessions, row[s] # "absent"
  PROVE  proc[s].state \notin NotYet
BY DEF IInv, OnlyOpened

(* A post that changes only what its process has still to do or whether it *)
(* is closing keeps the invariant.                                         *)
LEMMA PostKeeps ==
  ASSUME IInv, TypeOK', NEW s \in Sessions, NEW via, NEW t \in Sessions,
         NEW on, Post(s, via, t, on),
         UNCHANGED <<row, events, received, history, late>>,
         \A x \in Sessions :
           /\ proc'[x].enabled = proc[x].enabled
           /\ \/ proc'[x].state = proc[x].state
              \/ proc[x].state = "up" /\ proc'[x].state = "closing"
  PROVE  IInv'
<1> USE DEF history
<1>1. \A f \in flights' :
        \/ f \in flights
        \/ f.of = t /\ row[t] # "absent" /\ f.stage = "posted" /\ f.whole
  BY PostedHasRow
<1>2. (ArrivedIsReceived /\ MissingIsLate)'
  BY <1>1 DEF IInv, ArrivedIsReceived, MissingIsLate
<1>3. \A x \in Sessions :
        /\ proc'[x].state \in NotYet <=> proc[x].state \in NotYet
        /\ proc'[x].state \in Writing <=> proc[x].state \in Writing
        /\ proc'[x].state = "gone" <=> proc[x].state = "gone"
        /\ proc'[x].state = "command" => proc[x].state = "command"
  BY DEF NotYet, Writing
<1>4. OnlyOpened'
  <2> SUFFICES ASSUME NEW x \in Sessions, proc'[x].state \in NotYet,
                      NEW f \in flights'
               PROVE  f.of # x
    BY <1>3 DEF IInv, OnlyOpened
  <2>1. proc[x].state \in NotYet
    BY <1>3
  <2>2. CASE f \in flights
    BY <2>1, <2>2 DEF IInv, OnlyOpened
  <2>3. CASE f.of = t /\ row[t] # "absent"
    BY <2>1, <2>3, RowIsOpened
  <2> QED
    BY <1>1, <2>2, <2>3
<1>5. (WritersHaveRows /\ CommandsAreEnabled)'
  BY <1>3 DEF IInv, WritersHaveRows, CommandsAreEnabled
<1>6. EndedIsSilent'
  BY <1>3 DEF IInv, EndedIsSilent, TypeOK
<1> QED
  BY <1>2, <1>4, <1>5, <1>6 DEF IInv, FlaggedWasReceived, UnsentWereLate,
     StrayRowsOutliveOptOut, OptedOutHasNoRow

(* Recording by a process that writes keeps the invariant, when its        *)
(* process stays or ends.                                                  *)
LEMMA RecordingKeeps ==
  ASSUME IInv, TypeOK', NEW s \in Sessions, Recording(s),
         proc[s].state \in Writing, proc[s].enabled,
         proc' = proc \/ proc' = [proc EXCEPT ![s] = Gone],
         UNCHANGED <<row, history>>
  PROVE  IInv'
<1> USE DEF history
<1> TypeOK
  BY DEF IInv
<1>1. ASSUME NEW f \in flights'
      PROVE  \E g \in flights : /\ f.of = g.of /\ f.stage = g.stage
                                /\ f.whole => g.whole /\ f.of # s
                                /\ ~f.whole => ~g.whole \/ f.of = s
  <2>1. PICK g \in flights : f = [g EXCEPT !.whole = @ /\ g.of # s]
    BY DEF Recording
  <2>2. g \in Summaries
    BY DEF TypeOK, Summaries
  <2>3. f.of = g.of /\ f.stage = g.stage /\ f.whole = (g.whole /\ g.of # s)
    BY <2>1, <2>2 DEF Summaries
  <2> QED
    BY <2>3
<1>2. /\ s \notin ended
      /\ row[s] # "absent" \/ s \in optedOut
  BY DEF IInv, EndedIsSilent, WritersHaveRows, Writing
<1>3. \A x \in Sessions :
        /\ proc'[x].state \in NotYet => proc[x].state \in NotYet
        /\ proc'[x].state \in Writing
             => proc'[x] = proc[x] /\ proc[x].state \in Writing
        /\ proc[x].state = "gone" => proc'[x].state = "gone"
  BY DEF NotYet, Writing, Gone, NotStarted, TypeOK
<1>4. FlaggedWasReceived'
  BY DEF IInv, FlaggedWasReceived, Recording, TypeOK
<1>5. UnsentWereLate'
  BY DEF IInv, UnsentWereLate, Recording, TypeOK
<1>6. (StrayRowsOutliveOptOut /\ EndedIsSilent)'
  BY <1>2, <1>3 DEF IInv, StrayRowsOutliveOptOut, EndedIsSilent, Recording,
     Recorded, TypeOK
<1>7. ArrivedIsReceived'
  <2> SUFFICES ASSUME NEW f \in flights', f.stage = "arrived",
                      row[f.of] # "absent"
               PROVE  received'[f.of] # "none"
                        /\ (f.whole => received'[f.of] = "all")
    BY DEF ArrivedIsReceived
  <2>1. PICK g \in flights : /\ f.of = g.of /\ f.stage = g.stage
                             /\ f.whole => g.whole /\ f.of # s
    BY <1>1
  <2>2. received[f.of] # "none" /\ (g.whole => received[f.of] = "all")
    BY <2>1 DEF IInv, ArrivedIsReceived
  <2>3. f.of \in Sessions
    BY <2>1 DEF TypeOK
  <2>4. /\ received'[f.of] # "none"
        /\ f.of # s => received'[f.of] = received[f.of]
    BY <2>2, <2>3 DEF Recording, TypeOK
  <2> QED
    BY <2>1, <2>2, <2>4
<1>8. MissingIsLate'
  <2> SUFFICES ASSUME NEW f \in flights', ~f.whole, row[f.of] # "absent"
               PROVE  f.of \in late'
    BY DEF MissingIsLate
  <2>1. PICK g \in flights : /\ f.of = g.of
                             /\ ~g.whole \/ f.of = s
    BY <1>1
  <2>2. CASE ~g.whole
    BY <2>1, <2>2 DEF IInv, MissingIsLate, Recording
  <2>3. CASE f.of = s
    BY <2>1, <2>3 DEF Recording, TypeOK
  <2> QED
    BY <2>1, <2>2, <2>3
<1>9. OnlyOpened'
  <2> SUFFICES ASSUME NEW x \in Sessions, proc'[x].state \in NotYet
               PROVE  /\ row[x] = "absent" /\ x \notin events'
                      /\ x \notin optedOut /\ \A f \in flights' : f.of # x
    BY DEF OnlyOpened
  <2>1. proc[x].state \in NotYet
    BY <1>3
  <2>2. x # s
    BY <2>1 DEF NotYet, Writing
  <2> QED
    BY <1>1, <2>1, <2>2 DEF IInv, OnlyOpened, Recording, Recorded
<1>10. (WritersHaveRows /\ CommandsAreEnabled)'
  BY <1>3 DEF IInv, WritersHaveRows, CommandsAreEnabled, Writing
<1> QED
  BY <1>4, <1>5, <1>6, <1>7, <1>8, <1>9, <1>10
     DEF IInv, OptedOutHasNoRow

(***************************************************************************)
(* Every step keeps the invariant.                                         *)
(***************************************************************************)
LEMMA IInvStep ==
  ASSUME IInv, [Next]_vars
  PROVE  IInv'
<1> TypeOK /\ TypeOK'
  BY TypeStep DEF IInv
<1>2. ASSUME NEW s \in Sessions, RetryNext(s) PROVE IInv'
  <2>1. PICK u \in proc[s].retry :
          /\ proc' = [proc EXCEPT ![s].retry = @ \ {u}]
          /\ Post(s, "loop", u, proc[s].enabled)
    BY <1>2 DEF RetryNext
  <2>2. u \in Sessions
    BY DEF TypeOK
  <2>3. \A x \in Sessions : /\ proc'[x].enabled = proc[x].enabled
                            /\ proc'[x].state = proc[x].state
    BY <2>1 DEF TypeOK
  <2> QED
    BY <1>2, <2>1, <2>2, <2>3, PostKeeps DEF RetryNext
<1>3. ASSUME NEW s \in Sessions, Record(s) PROVE IInv'
  <2>1. proc[s].state \in Writing
    BY <1>3 DEF Record, Writing
  <2> QED
    BY <1>3, <2>1, RecordingKeeps DEF Record, history
<1>4. ASSUME NEW s \in Sessions, PeriodicFlush(s) PROVE IInv'
  BY <1>4, PostKeeps DEF PeriodicFlush
<1>5. ASSUME NEW s \in Sessions, Shutdown(s) PROVE IInv'
  <2>1. \A x \in Sessions :
          /\ proc'[x].enabled = proc[x].enabled
          /\ \/ proc'[x].state = proc[x].state
             \/ proc[x].state = "up" /\ proc'[x].state = "closing"
    BY <1>5 DEF Shutdown, TypeOK
  <2> QED
    BY <1>5, <2>1, PostKeeps DEF Shutdown
<1>20. ASSUME NEW s \in Sessions, CliRecord(s) PROVE IInv'
  <2>1. proc[s].state \in Writing /\ proc[s].enabled
    BY <1>20 DEF CliRecord, Writing, IInv, CommandsAreEnabled
  <2> QED
    BY <1>20, <2>1, RecordingKeeps DEF CliRecord, history
<1> USE DEF TypeOK, IInv, FlaggedWasReceived, UnsentWereLate,
            MissingIsLate, StrayRowsOutliveOptOut,
            ArrivedIsReceived, WritersHaveRows, EndedIsSilent, OnlyOpened,
            CommandsAreEnabled, OptedOutHasNoRow, NotYet, Writing, history
<1>1. ASSUME NEW s \in Sessions, StartServer(s) PROVE IInv'
  BY <1>1 DEF StartServer, Inserted
<1>6. ASSUME NEW s \in Sessions, Exit(s) PROVE IInv'
  BY <1>6 DEF Exit, Gone, NotStarted
<1>7. ASSUME NEW s \in Sessions, Kill(s) PROVE IInv'
  BY <1>7 DEF Kill, Gone, NotStarted
<1>8. ASSUME NEW s \in Sessions, CliStart(s) PROVE IInv'
  BY <1>8 DEF CliStart, Inserted
<1>21. ASSUME NEW s \in Sessions, LoadConfig(s) PROVE IInv'
  BY <1>21 DEF LoadConfig
<1>9. ASSUME NEW s \in Sessions, FlushCommand(s) PROVE IInv'
  BY <1>9 DEF FlushCommand
<1>10. ASSUME NEW s \in Sessions, FlushDone(s) PROVE IInv'
  BY <1>10 DEF FlushDone, Gone, NotStarted
<1>11. ASSUME NEW f \in flights, Arrive(f) PROVE IInv'
  BY <1>11 DEF Arrive
<1>12. ASSUME NEW f \in flights, Succeed(f) PROVE IInv'
  BY <1>12 DEF Succeed, Flagged
<1>13. ASSUME NEW f \in flights, Fail(f) PROVE IInv'
  BY <1>13 DEF Fail
<1>14. CASE TelemetryOn
  BY <1>14 DEF TelemetryOn
<1>15. CASE OffConfig
  BY <1>15 DEF OffConfig
<1>16. CASE ClearEvents
  BY <1>16 DEF ClearEvents
<1>17. CASE ClearSessions
  BY <1>17 DEF ClearSessions
<1>18. CASE ClearFails
  BY <1>18 DEF ClearFails
<1>19. CASE UNCHANGED vars
  BY <1>19 DEF vars, history
<1> QED
  BY <1>1, <1>2, <1>3, <1>4, <1>5, <1>6, <1>7, <1>8, <1>9, <1>10, <1>11,
     <1>12, <1>13, <1>14, <1>15, <1>16, <1>17, <1>18, <1>19, <1>20, <1>21
     DEF Next, Sessions

(***************************************************************************)
(* Recording builds no payload: it only takes `whole` from some.           *)
(***************************************************************************)
LEMMA RecordingBuildsNone ==
  ASSUME TypeOK, NEW s \in Sessions, Recording(s)
  PROVE  Built = {}
<1>1. SUFFICES ASSUME NEW f \in flights', f \notin flights, f.whole
               PROVE  FALSE
  BY DEF Built
<1>2. PICK g \in flights : f = [g EXCEPT !.whole = @ /\ g.of # s]
  BY <1>1 DEF Recording
<1>3. g \in [by : Sessions, via : Loops, of : Sessions,
             stage : {"posted", "arrived"}, whole : BOOLEAN]
  BY DEF TypeOK
<1>4. CASE g.of = s
  <2>1. ~f.whole
    BY <1>2, <1>3, <1>4
  <2> QED
    BY <2>1, <1>1
<1>5. CASE g.of # s
  <2>1. f = g
    BY <1>2, <1>3, <1>5
  <2> QED
    BY <2>1, <1>1
<1> QED
  BY <1>4, <1>5

(***************************************************************************)
(* No step builds a payload for a session that has been opted out.         *)
(***************************************************************************)
LEMMA OptOutStep ==
  ASSUME IInv, [Next]_vars, NEW f \in Built
  PROVE  f.of \notin optedOut
<1>1. SUFFICES row[f.of] # "absent"
  BY DEF IInv, OptedOutHasNoRow
<1> /\ f \in flights' \ flights
    /\ f.stage = "posted"
  BY DEF Built
<1>2. ASSUME NEW s \in Sessions,
             RetryNext(s) \/ PeriodicFlush(s) \/ Shutdown(s)
      PROVE  row[f.of] # "absent"
  BY <1>2, PostedHasRow DEF RetryNext, PeriodicFlush, Shutdown
<1>3. ASSUME NEW s \in Sessions,
             \/ LoadConfig(s) \/ StartServer(s) \/ Exit(s) \/ Kill(s)
             \/ CliStart(s) \/ FlushCommand(s) \/ FlushDone(s)
      PROVE  flights' \subseteq flights
  BY <1>3 DEF LoadConfig, StartServer, Exit, Kill, CliStart, FlushCommand,
              FlushDone
<1>4. ASSUME NEW s \in Sessions, Record(s) \/ CliRecord(s)
      PROVE  Built = {}
  BY <1>4, RecordingBuildsNone DEF Record, CliRecord, IInv
<1>5. ASSUME NEW g \in flights, Arrive(g)
      PROVE  f.stage = "arrived"
  BY <1>5 DEF Arrive, IInv, TypeOK
<1>6. ASSUME NEW g \in flights, Succeed(g) \/ Fail(g)
      PROVE  flights' \subseteq flights
  BY <1>6 DEF Succeed, Fail
<1>7. CASE \/ TelemetryOn \/ OffConfig \/ ClearEvents \/ ClearSessions
           \/ ClearFails \/ UNCHANGED vars
  BY <1>7 DEF TelemetryOn, OffConfig, ClearEvents, ClearSessions,
              ClearFails, vars
<1> QED
  BY <1>2, <1>3, <1>4, <1>5, <1>6, <1>7 DEF Next, Sessions

-----------------------------------------------------------------------------
(* The inductive invariant, from which the theorems follow.                *)
LEMMA Inductive == Spec => []IInv
<1>1. IInv /\ [Next]_vars => IInv'
  BY IInvStep
<1> QED
  BY IInvInit, <1>1, PTL DEF Spec

(***************************************************************************)
(* Every telemetry row is accounted for, whatever starts, commands,        *)
(* flushes, answers, aborts, crashes, opt-outs and failed opt-outs come in *)
(* which order: markTelemetryFlushed flags a session only when the         *)
(* endpoint has a summary of it; rows of a flagged session that were never *)
(* sent were recorded after the flag or during a post; and rows without a  *)
(* session are only those of a process that outlived an opt-out.           *)
(***************************************************************************)
THEOREM EveryRowIsAccounted == Spec => []RowsAccounted
<1>1. IInv => RowsAccounted
  BY DEF IInv, RowsAccounted
<1> QED
  BY Inductive, <1>1, PTL

(***************************************************************************)
(* After `virage telemetry off` has cleared the sessions no flush builds a *)
(* payload for one of those, in any process, on any of the three paths     *)
(* (retry loop, timer, shutdown) that call flush. An off whose clearing    *)
(* failed and a session opened later under an old configuration are not    *)
(* covered: there the code posts.                                          *)
(***************************************************************************)
THEOREM NothingPostedAfterOptOut == Spec => OptOutHolds
<1>1. IInv /\ [Next]_vars
        => [\A f \in Built : f.of \notin optedOut]_vars
  BY OptOutStep
<1> QED
  BY Inductive, <1>1, PTL DEF Spec, OptOutHolds
=============================================================================

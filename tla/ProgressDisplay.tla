-------------------------- MODULE ProgressDisplay ---------------------------
(***************************************************************************)
(* The live display of `virage index' (packages/virage-cli/src:            *)
(* progress/progress-bar.ts, fed by runOnce and MultiBarLogger of          *)
(* bin/virage.ts).  Messages scroll by above a section that is redrawn in  *)
(* place: one line while files are scanned and the model is loaded, then a *)
(* table.  A timer draws what changed; only the number of rows drawn last  *)
(* tells where the table begins, so a miscount erases messages or leaves   *)
(* parts of an old table behind.                                           *)
(*                                                                         *)
(* The terminal is the rows above the cursor and the cursor's row; its     *)
(* width does not change, and a text that is wider takes two rows.  A text *)
(* is its kind and the counts it shows; spinner and elapsed time, which    *)
(* change only what a row says, are left out.  Fatal messages do not pass  *)
(* through the display.                                                    *)
(***************************************************************************)
EXTENDS Naturals, Sequences, FiniteSets, SequencesExt

CONSTANTS
    Bars,       \* the bars, in their order: chunk, embed, upload
    MaxCount,   \* bound of every counter shown
    MaxLogs,    \* bound of the messages logged
    MaxLeft,    \* bound of the rows that a single line that wraps leaves on ticks
    Wraps       \* the sets of kinds of rows that may be wider than the terminal

VARIABLES
    tty,        \* standard output is a terminal
    wide,       \* the kinds of rows that are wider than it
    view,       \* what the renderer was told: phase, scan, model, bars, stats
    screen,     \* the terminal, and what the renderer keeps of it
    logBuffer,  \* messages not written yet
    dirty, timer,
    hidden,     \* the cursor is hidden
    logged,     \* history: messages logged, numbered
    ended       \* "no", "stopped" (renderer.stop) or "interrupted" (SIGINT, SIGTERM)

displayVars == <<tty, wide, view, screen, logBuffer, dirty, timer, hidden, logged, ended>>

NoText == <<"blank">>
Count == [value : 0..MaxCount, total : 0..MaxCount]
Part  == {c \in Count : c.value <= c.total}
Zero  == [value |-> 0, total |-> 0]
Larger2(a, b) == IF a >= b THEN a ELSE b

DisplayInit ==
    /\ tty \in BOOLEAN
    /\ IF tty THEN wide \in Wraps ELSE wide = {}
    /\ view = [phase |-> "idle", scan |-> Zero, model |-> Zero,
               bars |-> [b \in Range(Bars) |-> Zero], stats |-> FALSE]
    /\ screen = [above |-> <<>>, line |-> NoText, ephemeralLines |-> 0, lastPhaseStr |-> <<>>]
    /\ logBuffer = <<>> /\ dirty = FALSE /\ timer = TRUE
    /\ hidden = tty
    /\ logged = 0 /\ ended = "no"

-----------------------------------------------------------------------------
(* The terminal.                                                           *)

Rows(text)     == IF text[1] \in wide THEN <<text, text>> ELSE <<text>>
RowsOf(texts)  == FlattenSeq([n \in 1..Len(texts) |-> Rows(texts[n])])

\* A text and a line feed; after something on the same row they run together.
WriteLn(s, text) ==
    [s EXCEPT !.above = @ \o IF s.line = NoText THEN Rows(text) ELSE <<<<"mixed">>>>, !.line = NoText]
WriteAll(s, texts) == FoldLeft(WriteLn, s, texts)
LineFeed(s)        == [s EXCEPT !.above = Append(@, s.line), !.line = NoText]

\* Carriage return, the text, erase to the end of the line.  The carriage returns
\* to the start of the last row only: each time a text that wraps is written, its
\* first row goes below that of the time before.
Overwrite(s, text) == [s EXCEPT !.above = @ \o Front(Rows(text)), !.line = Last(Rows(text))]

\* Cursor up n rows, erase to the end of the screen.
EraseUp(s, n) ==
    [s EXCEPT !.above = SubSeq(@, 1, Len(@) - n), !.line = NoText, !.ephemeralLines = 0]

-----------------------------------------------------------------------------
(* Drawing.                                                                *)

SingleLine(v) == v.phase \in {"scanning", "model"}
Logs(ids)     == [n \in 1..Len(ids) |-> <<"log", ids[n]>>]

BuildScanning(v) == <<<<"scanning", v.scan>>>>
BuildModel(v)    == <<<<"model", v.model>>>>

\* Header, a row per bar, elapsed time, and the throughput once it is known.
BuildPipeline(v) ==
    <<<<"header">>>>
    \o [n \in 1..Len(Bars) |-> <<"bar", Bars[n], v.bars[Bars[n]]>>]
    \o <<<<"footer">>>>
    \o IF v.stats THEN <<<<"throughput">>>> ELSE <<>>

BuildPhase(v) ==
    CASE v.phase = "scanning" -> BuildScanning(v)
      [] v.phase = "model"    -> BuildModel(v)
      [] v.phase = "pipeline" -> BuildPipeline(v)
      [] OTHER                -> <<>>

\* The one line is overwritten, after the messages if there are any.
DrawLine(s, v) ==
    LET text   == BuildPhase(v)[1]
        logs   == WriteAll([s EXCEPT !.line = NoText], Logs(logBuffer))
        before == IF logBuffer = <<>> THEN s ELSE logs
    IN  [Overwrite(before, text) EXCEPT !.ephemeralLines = 1, !.lastPhaseStr = BuildPhase(v)]

\* Faulty variant: rows are counted as lines of text, wrapped or not.
DrawTableLines(s, v) ==
    LET erased == IF s.ephemeralLines > 0 THEN EraseUp(s, s.ephemeralLines) ELSE s
        drawn  == WriteAll(WriteAll(erased, Logs(logBuffer)), BuildPhase(v))
    IN  [drawn EXCEPT !.ephemeralLines = Len(BuildPhase(v)), !.lastPhaseStr = BuildPhase(v)]

\* The old table is erased, the messages and the new table are written, and the
\* rows it takes are counted.
DrawTable(s, v) ==
    LET erased == IF s.ephemeralLines > 0 THEN EraseUp(s, s.ephemeralLines) ELSE s
        drawn  == WriteAll(WriteAll(erased, Logs(logBuffer)), BuildPhase(v))
    IN  [drawn EXCEPT !.ephemeralLines = Len(RowsOf(BuildPhase(v))), !.lastPhaseStr = BuildPhase(v)]

\* doRender.  Nothing is drawn when nothing changed; output that is no terminal
\* gets the messages alone.
DoRender(s, v) ==
    IF ~tty THEN WriteAll(s, Logs(logBuffer))
    ELSE IF logBuffer = <<>> /\ BuildPhase(v) = s.lastPhaseStr THEN s
    ELSE IF SingleLine(v) THEN DrawLine(s, v) ELSE DrawTable(s, v)

\* The interval of 80 ms.  A single line is drawn on every tick, for its spinner,
\* and the table on every twelfth, for its footer.
Tick ==
    /\ timer
    /\ SingleLine(view) => Len(SelectSeq(screen.above, LAMBDA row : row[1] \in wide)) < MaxLeft
    /\ dirty \/ view.phase # "idle"
    /\ screen' = DoRender(screen, view) /\ logBuffer' = <<>> /\ dirty' = FALSE
    /\ UNCHANGED <<tty, wide, view, timer, hidden, logged, ended>>

-----------------------------------------------------------------------------
(* What the run reports.                                                   *)

Live == ended = "no"
Told(v) ==
    /\ Live
    /\ view' = v /\ dirty' = TRUE
    /\ UNCHANGED <<tty, wide, timer, hidden, logged, ended>>

Log ==
    /\ Live /\ logged < MaxLogs
    /\ logged' = logged + 1
    /\ logBuffer' = Append(logBuffer, logged')
    /\ dirty' = TRUE
    /\ UNCHANGED <<tty, wide, view, screen, timer, hidden, ended>>

\* onScanProgress: startScanning and updateScanning.
UpdateScanning ==
    /\ view.phase \in {"idle", "scanning"}
    /\ \E c \in Part : Told([view EXCEPT !.scan = c, !.phase = "scanning"])
    /\ UNCHANGED <<screen, logBuffer>>

\* The line of the scan stays where it is.
StartModelLoading ==
    /\ view.phase \in {"idle", "scanning"}
    /\ Told([view EXCEPT !.phase = "model"])
    /\ screen' = IF view.phase = "scanning" /\ screen.ephemeralLines > 0
                 THEN [LineFeed(screen) EXCEPT !.ephemeralLines = 0] ELSE screen
    /\ UNCHANGED logBuffer

UpdateModelProgress ==
    /\ view.phase = "model"
    /\ \E c \in Part : Told([view EXCEPT !.model = c])
    /\ UNCHANGED <<screen, logBuffer>>

\* Faulty variant: the line of the phase before is not ended.
StartPipelineInPlace ==
    /\ view.phase \in {"idle", "scanning", "model"}
    /\ Told([view EXCEPT !.phase = "pipeline"])
    /\ screen' = [screen EXCEPT !.ephemeralLines = 0]
    /\ UNCHANGED logBuffer

\* The model line is drawn complete; the line stays and the table begins below.
StartPipeline ==
    /\ view.phase \in {"idle", "scanning", "model"}
    /\ LET loaded == [view EXCEPT !.model.value = view.model.total]
           full   == view.phase = "model" /\ view.model.total > 0
           drawn  == IF full THEN DoRender(screen, loaded) ELSE screen
       IN  /\ Told([(IF full THEN loaded ELSE view) EXCEPT !.phase = "pipeline"])
           /\ logBuffer' = IF full THEN <<>> ELSE logBuffer
           /\ screen' = [(IF SingleLine(view) /\ drawn.ephemeralLines > 0 THEN LineFeed(drawn) ELSE drawn)
                         EXCEPT !.ephemeralLines = 0]

\* updateChunk, updateEmbed, updateUpload: values never go back, nor do the totals
\* of the last two, whose callers count differently.
UpdateBar(b) ==
    /\ view.phase = "pipeline"
    /\ \E c \in Count :
        Told([view EXCEPT !.bars[b] = [value |-> Larger2(@.value, c.value),
                                       total |-> IF b = "chunk" THEN c.total ELSE Larger2(@.total, c.total)]])
    /\ UNCHANGED <<screen, logBuffer>>

\* setChunkingStats, setEmbeddingStats: the table gets another row.
SetStats ==
    /\ view.phase = "pipeline"
    /\ Told([view EXCEPT !.stats = TRUE])
    /\ UNCHANGED <<screen, logBuffer>>

\* stop: the timer ends, the table is drawn a last time with the messages that
\* wait.  In the phases of one line they are not written, then or later.
Stop ==
    /\ Live
    /\ timer' = FALSE /\ ended' = "stopped" /\ hidden' = FALSE
    /\ IF SingleLine(view)
       THEN /\ screen' = IF screen.ephemeralLines > 0 THEN LineFeed(screen) ELSE screen
            /\ UNCHANGED logBuffer
       ELSE /\ screen' = IF tty THEN DoRender([(IF screen.ephemeralLines > 0
                                                THEN EraseUp(screen, screen.ephemeralLines) ELSE screen)
                                               EXCEPT !.lastPhaseStr = <<>>], view)
                         ELSE WriteAll(WriteAll(screen, Logs(logBuffer)), BuildPhase(view))
            /\ logBuffer' = <<>>
    /\ UNCHANGED <<tty, wide, view, dirty, logged>>

\* SIGINT or SIGTERM: the cursor is restored and the process exits.
Interrupt ==
    /\ Live
    /\ timer' = FALSE /\ ended' = "interrupted" /\ hidden' = FALSE
    /\ UNCHANGED <<tty, wide, view, screen, logBuffer, dirty, logged>>

DisplayNext ==
    \/ Tick \/ Log \/ UpdateScanning \/ StartModelLoading \/ UpdateModelProgress
    \/ StartPipeline \/ SetStats \/ Stop \/ Interrupt
    \/ \E b \in Range(Bars) : UpdateBar(b)

DisplaySpec == DisplayInit /\ [][DisplayNext]_displayVars

-----------------------------------------------------------------------------
(* Properties.                                                             *)

Kinds == {"scanning", "model", "header", "bar", "footer", "throughput", "log"}
DisplayTypeOK ==
    /\ view.phase \in {"idle", "scanning", "model", "pipeline"}
    /\ screen.line[1] \in {"blank", "scanning", "model"}
    /\ \A n \in DOMAIN screen.above : screen.above[n][1] \in Kinds
    /\ screen.ephemeralLines <= Len(screen.above) + 1

LogRows     == SelectSeq(screen.above, LAMBDA r : r[1] = "log")
AllMessages == [n \in 1..logged |-> <<"log", n>>]

\* Messages are written once, in their order, and none that was written is erased
\* again, however the table grows and whatever rows wrap; when a run that showed
\* its table stops, or one that had not begun, all of them are written.  Two ends
\* lose the messages that came after the last tick, though messages are said to
\* appear above the live section (bin/virage.ts, 83-84): a stop while one line is
\* shown, which is how a run ends that fails before its table, and an interrupt.
MessagesKept ==
    /\ LogRows \o Logs(logBuffer) = AllMessages
    /\ ended = "stopped" /\ ~SingleLine(view) => logBuffer = <<>>

\* The rows of a table are those of the last one drawn, at the bottom; above it the
\* phases of one line have left at most one row each.  A line that wraps is the
\* exception: it leaves a row whenever it is drawn again, on every tick.
Bottom     == SubSeq(screen.above, Len(screen.above) - screen.ephemeralLines + 1, Len(screen.above))
Permanent  == SubSeq(screen.above, 1, Len(screen.above) - screen.ephemeralLines)
NoLeftovers ==
    LET old == IF tty /\ ~SingleLine(view) THEN Permanent ELSE screen.above
        ofKind(k) == {n \in DOMAIN old : old[n][1] = k}
    IN  /\ tty => \A n \in DOMAIN old : old[n][1] \in {"log", "scanning", "model"}
        /\ \A k \in {"scanning", "model"} \ wide : Cardinality(ofKind(k)) <= 1
        /\ tty /\ view.phase = "pipeline" /\ screen.ephemeralLines > 0 => Bottom = RowsOf(screen.lastPhaseStr)

\* A run that ends leaves the cursor visible; when it was stopped what is printed
\* next begins on a line of its own, below the final table with the final counts.
EndsClean ==
    /\ ended # "no" => ~hidden
    /\ ended = "stopped" =>
        /\ screen.line = NoText
        /\ view.phase = "pipeline" =>
             LET table == RowsOf(BuildPipeline(view))
             IN  SubSeq(screen.above, Len(screen.above) - Len(table) + 1, Len(screen.above)) = table

\* The terminal shows what the run reported, apart from the messages and the rows
\* named above.
DisplaySound == DisplayTypeOK /\ MessagesKept /\ NoLeftovers /\ EndsClean
=============================================================================

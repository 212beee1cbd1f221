------------------------------ MODULE Pipeline ------------------------------
(***************************************************************************)
(* One call of run_pipeline (crates/virage-engine/src/pipeline/            *)
(* coordinator.rs) with its tasks: the coordinator, which detects changes, *)
(* deletes the rows of removed files, then collects results and upserts    *)
(* them in batches; the feeder, which sends the changed files down a       *)
(* bounded channel; and the workers (worker.rs), which pull files under    *)
(* the throttle of a concurrency strategy, chunk and embed them, and send  *)
(* the chunks back in micro-batches over a second bounded channel.         *)
(*                                                                         *)
(* A source item is a number, its place in the listing.  A WorkResult's    *)
(* chunk vector is the slice from+1..upto of its item's artifacts.  The    *)
(* item number in a WorkResult stands for its path: the coordinator only   *)
(* ever uses Path[item].                                                   *)
(***************************************************************************)
EXTENDS Concurrency, Sequences, FiniteSets

CONSTANTS
  NItems,          \* number of items all groups list
  Path,            \* item -> its path
  Key,             \* item -> its revision key: the path, or source:path
  Chunks,          \* item -> the ids of its artifacts, in order
  Rev,             \* key -> its current revision, or NoRev
  NoRev,           \* file_revisions omitted the path
  Ids,             \* chunk ids: hashes of the dense text
  NoRow,           \* no row of the store has this id
  Starts,          \* the possible [known, rows] a run is called with
  ConfigWorkers,   \* PipelineConfig::workers
  Strategy,        \* the concurrency strategy of the run
  Memory,          \* the amounts of available memory it may sample
  CapPerWorker,    \* channel slots per worker: 4 in the code
  MicroBatch,      \* EMBED_MICRO_BATCH_SIZE: 16 in the code
  LowMicroBatch,   \* LOW_MEMORY_MICRO_BATCH_SIZE: 4 in the code
  UploadBatchSize, \* PipelineConfig::upload_batch_size
  SkipUpload,      \* PipelineConfig::skip_upload
  Panicky          \* items on which a chunker or the embedder may panic

Items == 1..NItems

Workers == 0..(Larger(ConfigWorkers, 1) - 1)

\* Capacity of each of the two channels.
Cap == Larger(ConfigWorkers, 1) * CapPerWorker

Sources == {Path[i] : i \in Items}
           \cup UNION {DOMAIN s.known : s \in Starts}
           \cup UNION {{s.rows[c].src : c \in {d \in Ids : s.rows[d] # NoRow}} :
                         s \in Starts}

\* The revision a work item carries: "" when the source has none for its key.
RevOf(i) == IF Rev[Key[i]] = NoRev THEN "" ELSE Rev[Key[i]]

Revs == {RevOf(i) : i \in Items}
        \cup UNION {{s.rows[c].rev : c \in {d \in Ids : s.rows[d] # NoRow}} :
                      s \in Starts}

Rows == [src : Sources, rev : Revs] \cup {NoRow}

Docs == [id : Ids, src : Sources, rev : Revs]

Slices == [item : 0..NItems, from : Nat, upto : Nat]

WorkResults == [item : Items, from : Nat, upto : Nat, is_final : BOOLEAN]

NoWorker == -1

ASSUME SizesAssumption ==
  /\ NItems \in Nat
  /\ ConfigWorkers \in Nat
  /\ CapPerWorker \in Nat \ {0}
  /\ MicroBatch \in Nat \ {0}
  /\ LowMicroBatch \in Nat \ {0}
  /\ UploadBatchSize \in Nat
  /\ SkipUpload \in BOOLEAN

ASSUME StrategyAssumption == Strategy \in Strategies /\ Memory \subseteq Nat

ASSUME ListingAssumption ==
  /\ Chunks \in [Items -> Seq(Ids)]
  /\ NoRow \notin [src : Sources, rev : Revs]
  /\ \A s \in Starts : s.rows \in [Ids -> Rows]

VARIABLES
  phase,     \* how far the coordinator is; "ok" and "err" are its two returns
  known,     \* known_revisions: key -> revision
  store,     \* the vector store: id -> row
  todo,      \* to_process
  unfed,     \* the items of to_process the feeder has not sent
  feeder,    \* "off", "feeding", "flagged" (feeder_done is set), "closed"
  work,      \* the work channel
  rx,        \* the worker that holds the mutex around work_rx
  wpc,       \* worker -> where it is
  witem,     \* worker -> the item it holds, 0 if none
  wsent,     \* worker -> how many artifacts of the item it has sent
  wsize,     \* worker -> the micro-batch size chosen for the item
  poisoned,  \* a worker panicked while it held the embedder's mutex
  results,   \* the result channel
  pending,   \* the part of the received WorkResult not yet in the batch
  batch,     \* VectorDocuments waiting for the next upsert
  finished,  \* items whose final marker has been received
  rejected,  \* items whose matching chunker failed: Ok with no artifacts
  failed,    \* items a worker gave up
  done       \* ProgressCounters::done

coordVars == <<phase, known, todo, pending, batch, finished>>
feedVars == <<unfed, feeder>>
localVars == <<wpc, witem, wsent, wsize>>
outcomeVars == <<poisoned, rejected, failed>>
vars == <<coordVars, store, feedVars, work, rx, localVars, outcomeVars,
          results, done>>

----------------------------------------------------------------------------
(* Change detection *)

Unchanged(i) == Key[i] \in DOMAIN known /\ known[Key[i]] = RevOf(i)

ToProcess == {i \in Items : ~Unchanged(i)}

ToDelete == DOMAIN known \ {Key[i] : i \in Items}

\* to_process_keys: the last item inserted for a path decides its key.
ToProcessKey(i) ==
  LET last == CHOOSE j \in todo : /\ Path[j] = Path[i]
                                  /\ \A k \in todo : Path[k] = Path[i] => k <= j
  IN  Key[last]

\* processed_revisions, as the set of its keys (their values are Rev).
Processed == {k \in {ToProcessKey(i) : i \in finished} : Rev[k] # NoRev}

----------------------------------------------------------------------------
(* The store: rows are overlaid by id *)

\* delete_by_source
WithoutSources(rows, sources) ==
  [c \in Ids |-> IF rows[c] # NoRow /\ rows[c].src \in sources
                 THEN NoRow ELSE rows[c]]

DocOf(i, k) == [id |-> Chunks[i][k], src |-> Path[i], rev |-> RevOf(i)]

IdsOf(docs) == {docs[n].id : n \in DOMAIN docs}

\* dedup_by_id: the first document of the batch with this id.
FirstDoc(docs, c) ==
  docs[CHOOSE n \in DOMAIN docs : /\ docs[n].id = c
                                  /\ \A m \in 1..(n - 1) : docs[m].id # c]

\* upsert of the documents of docs whose ids are in ids.
Upserted(rows, docs, ids) ==
  [c \in Ids |-> IF c \in ids
                 THEN [src |-> FirstDoc(docs, c).src, rev |-> FirstDoc(docs, c).rev]
                 ELSE rows[c]]

----------------------------------------------------------------------------
Init ==
  /\ \E s \in Starts : known = s.known /\ store = s.rows
  /\ phase = "start"
  /\ todo = {} /\ finished = {} /\ rejected = {} /\ failed = {}
  /\ unfed = {} /\ feeder = "off"
  /\ work = <<>> /\ results = <<>> /\ batch = <<>>
  /\ pending = [item |-> 0, from |-> 0, upto |-> 0]
  /\ rx = NoWorker
  /\ wpc = [w \in Workers |-> "off"]
  /\ witem = [w \in Workers |-> 0]
  /\ wsent = [w \in Workers |-> 0]
  /\ wsize = [w \in Workers |-> MicroBatch]
  /\ poisoned = FALSE
  /\ done = 0

----------------------------------------------------------------------------
(* The coordinator before the tasks are spawned *)

\* store.initialize, list_all and file_revisions succeed; changes are detected.
DetectChanges ==
  /\ phase = "start"
  /\ phase' = "delete"
  /\ todo' = ToProcess
  /\ UNCHANGED <<known, pending, batch, finished, store, feedVars, work, rx,
                 localVars, outcomeVars, results, done>>

\* One of those three calls fails and run_pipeline returns its error.
SetupFails ==
  /\ phase = "start"
  /\ phase' = "err"
  /\ UNCHANGED <<known, todo, pending, batch, finished, store, feedVars, work,
                 rx, localVars, outcomeVars, results, done>>

\* Removed files are deleted from the store; with nothing to process the run
\* returns, otherwise workers and feeder are spawned.
DeleteRemoved ==
  /\ phase = "delete"
  /\ store' = WithoutSources(store, ToDelete)
  /\ IF todo = {}
     THEN phase' = "ok" /\ UNCHANGED <<unfed, feeder, wpc>>
     ELSE /\ phase' = "collect"
          /\ unfed' = todo
          /\ feeder' = "feeding"
          /\ wpc' = [w \in Workers |-> "gate"]
  /\ UNCHANGED <<known, todo, pending, batch, finished, work, rx, witem, wsent,
                 wsize, outcomeVars, results, done>>

\* delete_by_source fails, after having removed any part of the rows.
DeleteFails ==
  /\ phase = "delete"
  /\ ToDelete # {}
  /\ \E gone \in SUBSET ToDelete : store' = WithoutSources(store, gone)
  /\ phase' = "err"
  /\ UNCHANGED <<known, todo, pending, batch, finished, feedVars, work, rx,
                 localVars, outcomeVars, results, done>>

----------------------------------------------------------------------------
(* The feeder *)

Stopped(w) == wpc[w] \in {"exit", "panic"}

Returned == phase \in {"ok", "err"}

\* work_rx is shared by the workers and by run_pipeline itself.
WorkRxDropped == Returned /\ \A w \in Workers : Stopped(w)

Feed ==
  /\ feeder = "feeding"
  /\ ~WorkRxDropped
  /\ Len(work) < Cap
  /\ \E i \in unfed : /\ \A j \in unfed : i <= j
                      /\ work' = Append(work, i)
                      /\ unfed' = unfed \ {i}
  /\ UNCHANGED <<coordVars, store, feeder, rx, localVars, outcomeVars, results,
                 done>>

\* Every item is sent, or a send failed: feeder_done is stored ...
FeederDone ==
  /\ feeder = "feeding"
  /\ unfed = {} \/ WorkRxDropped
  /\ feeder' = "flagged"
  /\ UNCHANGED <<coordVars, store, unfed, work, rx, localVars, outcomeVars,
                 results, done>>

\* ... and work_tx is dropped when the task ends after that.
CloseWork ==
  /\ feeder = "flagged"
  /\ feeder' = "closed"
  /\ UNCHANGED <<coordVars, store, unfed, work, rx, localVars, outcomeVars,
                 results, done>>

feeder_done == feeder \in {"flagged", "closed"}

----------------------------------------------------------------------------
(* The workers *)

\* The counts strategy.current_workers() may answer at this moment.
Samples == {CurrentWorkers(Strategy, mb) : mb \in Memory}

\* Between items: a worker below the sampled count goes on to pull work; at or
\* above it the worker sleeps, or leaves if feeder_done is set.
Gate(w) ==
  /\ wpc[w] = "gate"
  /\ \E n \in Samples :
       wpc' = [wpc EXCEPT ![w] = IF w < n THEN "lock"
                                 ELSE IF feeder_done THEN "exit" ELSE "sleep"]
  /\ UNCHANGED <<coordVars, store, feedVars, work, rx, witem, wsent, wsize,
                 outcomeVars, results, done>>

\* CONCURRENCY_SAMPLE_INTERVAL is over: the gated worker samples again.
Wake(w) ==
  /\ wpc[w] = "sleep"
  /\ wpc' = [wpc EXCEPT ![w] = "gate"]
  /\ UNCHANGED <<coordVars, store, feedVars, work, rx, witem, wsent, wsize,
                 outcomeVars, results, done>>

\* work_rx.lock(): the mutex stays held while recv() waits.
Lock(w) ==
  /\ wpc[w] = "lock"
  /\ rx = NoWorker
  /\ rx' = w
  /\ wpc' = [wpc EXCEPT ![w] = "recv"]
  /\ UNCHANGED <<coordVars, store, feedVars, work, witem, wsent, wsize,
                 outcomeVars, results, done>>

Recv(w) ==
  /\ wpc[w] = "recv"
  /\ work # <<>>
  /\ witem' = [witem EXCEPT ![w] = Head(work)]
  /\ work' = Tail(work)
  /\ rx' = NoWorker
  /\ wsent' = [wsent EXCEPT ![w] = 0]
  /\ wpc' = [wpc EXCEPT ![w] = "parse"]
  /\ UNCHANGED <<coordVars, store, feedVars, wsize, outcomeVars, results, done>>

\* Faulty variant: the worker loops on a closed channel.
RecvNoneLoops(w) ==
  /\ wpc[w] = "recv"
  /\ work = <<>>
  /\ feeder = "closed"
  /\ rx' = NoWorker
  /\ wpc' = [wpc EXCEPT ![w] = "gate"]
  /\ UNCHANGED <<coordVars, store, feedVars, work, witem, wsent, wsize,
                 outcomeVars, results, done>>

\* recv() answers None: the channel is closed and empty.
RecvNone(w) ==
  /\ wpc[w] = "recv"
  /\ work = <<>>
  /\ feeder = "closed"
  /\ rx' = NoWorker
  /\ wpc' = [wpc EXCEPT ![w] = "exit"]
  /\ UNCHANGED <<coordVars, store, feedVars, work, witem, wsent, wsize,
                 outcomeVars, results, done>>

\* parse_and_chunk succeeds; the micro-batch size is sampled once per file.
ParseOk(w) ==
  /\ wpc[w] = "parse"
  /\ IF Chunks[witem[w]] = <<>>
     THEN wpc' = [wpc EXCEPT ![w] = "final"] /\ UNCHANGED wsize
     ELSE /\ wpc' = [wpc EXCEPT ![w] = "embed"]
          /\ \E n \in Samples :
               wsize' = [wsize EXCEPT ![w] = IF n <= 1 THEN LowMicroBatch
                                                       ELSE MicroBatch]
  /\ UNCHANGED <<coordVars, store, feedVars, work, rx, witem, wsent,
                 outcomeVars, results, done>>

\* The matching chunker's parse fails: Ok with no artifacts, so the file goes
\* straight to its final marker.
ChunkerRejects(w) ==
  /\ wpc[w] = "parse"
  /\ rejected' = rejected \cup {witem[w]}
  /\ wpc' = [wpc EXCEPT ![w] = "final"]
  /\ UNCHANGED <<coordVars, store, feedVars, work, rx, witem, wsent, wsize,
                 poisoned, failed, results, done>>

\* Faulty variant: a file given up still gets its final marker.
GiveUpWithMarker(w) ==
  /\ failed' = failed \cup {witem[w]}
  /\ wpc' = [wpc EXCEPT ![w] = "final"]
  /\ UNCHANGED <<coordVars, store, feedVars, work, rx, witem, wsent, wsize,
                 poisoned, rejected, results, done>>

\* The worker gives the file up: inc_done, no final marker, next item.
GiveUp(w) ==
  /\ failed' = failed \cup {witem[w]}
  /\ done' = done + 1
  /\ witem' = [witem EXCEPT ![w] = 0]
  /\ wpc' = [wpc EXCEPT ![w] = "gate"]
  /\ UNCHANGED <<coordVars, store, feedVars, work, rx, wsent, wsize, poisoned,
                 rejected, results>>

\* read_content fails.
ReadFails(w) == wpc[w] = "parse" /\ GiveUp(w)

\* The embedder fails on this micro-batch, or its mutex is poisoned.
EmbedFails(w) == wpc[w] = "embed" /\ GiveUp(w)

EmbedOk(w) ==
  /\ wpc[w] = "embed"
  /\ ~poisoned
  /\ wpc' = [wpc EXCEPT ![w] = "send"]
  /\ UNCHANGED <<coordVars, store, feedVars, work, rx, witem, wsent, wsize,
                 outcomeVars, results, done>>

\* A panic of a chunker or of the embedder ends the task; the join reports it.
\* The embedder's std mutex is poisoned when its holder panics.
Panics(w) ==
  /\ witem[w] \in Panicky
  /\ wpc[w] = "parse" \/ (wpc[w] = "embed" /\ ~poisoned)
  /\ poisoned' = (poisoned \/ wpc[w] = "embed")
  /\ wpc' = [wpc EXCEPT ![w] = "panic"]
  /\ UNCHANGED <<coordVars, store, feedVars, work, rx, witem, wsent, wsize,
                 rejected, failed, results, done>>

\* The slice of artifacts the next data-carrying WorkResult holds ends here.
MicroBatchEnd(w) == Smaller(wsent[w] + wsize[w], Len(Chunks[witem[w]]))

\* A micro-batch is sent once the result channel has room for it.
Send(w) ==
  /\ wpc[w] = "send"
  /\ ~Returned
  /\ Len(results) < Cap
  /\ results' = Append(results, [item |-> witem[w], from |-> wsent[w],
                                 upto |-> MicroBatchEnd(w), is_final |-> FALSE])
  /\ wsent' = [wsent EXCEPT ![w] = MicroBatchEnd(w)]
  /\ wpc' = [wpc EXCEPT ![w] = IF MicroBatchEnd(w) = Len(Chunks[witem[w]])
                               THEN "final" ELSE "embed"]
  /\ UNCHANGED <<coordVars, store, feedVars, work, rx, witem, wsize,
                 outcomeVars, done>>

\* The empty final marker ends the file.
SendFinal(w) ==
  /\ wpc[w] = "final"
  /\ ~Returned
  /\ Len(results) < Cap
  /\ results' = Append(results, [item |-> witem[w], from |-> wsent[w],
                                 upto |-> wsent[w], is_final |-> TRUE])
  /\ witem' = [witem EXCEPT ![w] = 0]
  /\ wpc' = [wpc EXCEPT ![w] = "gate"]
  /\ UNCHANGED <<coordVars, store, feedVars, work, rx, wsent, wsize,
                 outcomeVars, done>>

\* SendFailed: run_pipeline has returned and dropped result_rx.
SendFails(w) ==
  /\ wpc[w] \in {"send", "final"}
  /\ Returned
  /\ wpc' = [wpc EXCEPT ![w] = "exit"]
  /\ UNCHANGED <<coordVars, store, feedVars, work, rx, witem, wsent, wsize,
                 outcomeVars, results, done>>

----------------------------------------------------------------------------
(* The coordinator while it collects *)

NothingPending == pending.from >= pending.upto

\* A result is received; a final marker counts its file as processed.
RecvResult ==
  /\ phase = "collect"
  /\ NothingPending
  /\ results # <<>>
  /\ results' = Tail(results)
  /\ pending' = [item |-> Head(results).item, from |-> Head(results).from,
                 upto |-> Head(results).upto]
  /\ IF Head(results).is_final
     THEN finished' = finished \cup {Head(results).item} /\ done' = done + 1
     ELSE UNCHANGED <<finished, done>>
  /\ UNCHANGED <<phase, known, todo, batch, store, feedVars, work, rx, localVars,
                 outcomeVars>>

\* The batch with the next chunk of the received result.
Pushed == Append(batch, DocOf(pending.item, pending.from + 1))

Advanced == [pending EXCEPT !.from = pending.from + 1]

\* Faulty variant: the batch may grow to upload_batch_size.
PushChunkOffByOne ==
  /\ phase = "collect"
  /\ ~NothingPending
  /\ Len(Pushed) <= UploadBatchSize
  /\ batch' = Pushed
  /\ pending' = Advanced
  /\ UNCHANGED <<phase, known, todo, finished, store, feedVars, work, rx,
                 localVars, outcomeVars, results, done>>

\* The next chunk joins the batch, which stays below upload_batch_size.
PushChunk ==
  /\ phase = "collect"
  /\ ~NothingPending
  /\ Len(Pushed) < UploadBatchSize
  /\ batch' = Pushed
  /\ pending' = Advanced
  /\ UNCHANGED <<phase, known, todo, finished, store, feedVars, work, rx,
                 localVars, outcomeVars, results, done>>

\* The next chunk fills the batch, which is upserted.
PushAndUpsert ==
  /\ phase = "collect"
  /\ ~NothingPending
  /\ Len(Pushed) >= UploadBatchSize
  /\ batch' = <<>>
  /\ pending' = Advanced
  /\ store' = IF SkipUpload THEN store ELSE Upserted(store, Pushed, IdsOf(Pushed))
  /\ UNCHANGED <<phase, known, todo, finished, feedVars, work, rx, localVars,
                 outcomeVars, results, done>>

\* That upsert fails, after having written any part of the rows.
PushUpsertFails ==
  /\ phase = "collect"
  /\ ~NothingPending
  /\ Len(Pushed) >= UploadBatchSize
  /\ ~SkipUpload
  /\ \E part \in SUBSET IdsOf(Pushed) : store' = Upserted(store, Pushed, part)
  /\ phase' = "err"
  /\ batch' = <<>>
  /\ UNCHANGED <<known, todo, pending, finished, feedVars, work, rx, localVars,
                 outcomeVars, results, done>>

\* recv() answers None: every worker has dropped its sender.
ResultsClosed ==
  /\ phase = "collect"
  /\ NothingPending
  /\ results = <<>>
  /\ \A w \in Workers : Stopped(w)

\* Faulty variant: the last, partial batch is dropped.
FlushRestForgotten ==
  /\ ResultsClosed
  /\ phase' = "join"
  /\ batch' = <<>>
  /\ UNCHANGED <<known, todo, pending, finished, store, feedVars, work, rx,
                 localVars, outcomeVars, results, done>>

\* The rest of the batch is upserted and the handles are awaited next.
FlushRest ==
  /\ ResultsClosed
  /\ phase' = "join"
  /\ batch' = <<>>
  /\ store' = IF SkipUpload THEN store ELSE Upserted(store, batch, IdsOf(batch))
  /\ UNCHANGED <<known, todo, pending, finished, feedVars, work, rx, localVars,
                 outcomeVars, results, done>>

FlushRestFails ==
  /\ ResultsClosed
  /\ batch # <<>> /\ ~SkipUpload
  /\ \E part \in SUBSET IdsOf(batch) : store' = Upserted(store, batch, part)
  /\ phase' = "err"
  /\ batch' = <<>>
  /\ UNCHANGED <<known, todo, pending, finished, feedVars, work, rx, localVars,
                 outcomeVars, results, done>>

\* h.await??: the run succeeds unless a worker panicked.
Join ==
  /\ phase = "join"
  /\ phase' = IF \E w \in Workers : wpc[w] = "panic" THEN "err" ELSE "ok"
  /\ UNCHANGED <<known, todo, pending, batch, finished, store, feedVars, work,
                 rx, localVars, outcomeVars, results, done>>

----------------------------------------------------------------------------
\* Everything has ended: the only state the run may rest in.
Quiet ==
  /\ Returned
  /\ \A w \in Workers : wpc[w] \in {"off", "exit", "panic"}
  /\ feeder \in {"off", "closed"}

Rest == Quiet /\ UNCHANGED vars

Setup == DetectChanges \/ SetupFails \/ DeleteRemoved \/ DeleteFails

Feeding == Feed \/ FeederDone \/ CloseWork

Worker(w) ==
  \/ Gate(w) \/ Wake(w) \/ Lock(w) \/ Recv(w) \/ RecvNone(w)
  \/ ParseOk(w) \/ ChunkerRejects(w) \/ ReadFails(w)
  \/ EmbedOk(w) \/ EmbedFails(w) \/ Panics(w)
  \/ Send(w) \/ SendFinal(w) \/ SendFails(w)

Collect ==
  \/ RecvResult \/ PushChunk \/ PushAndUpsert \/ PushUpsertFails
  \/ FlushRest \/ FlushRestFails \/ Join

Next == Setup \/ Feeding \/ (\E w \in Workers : Worker(w)) \/ Collect \/ Rest

Spec == Init /\ [][Next]_vars

\* Tokio polls every runnable task again: each task that stays able to move
\* moves.  No sample of the memory and no outcome of a call is assumed fair:
\* a gated worker may sleep and wake for ever.
FairSpec ==
  /\ Spec
  /\ WF_vars(Setup)
  /\ WF_vars(Feeding)
  /\ WF_vars(Collect)
  /\ \A w \in Workers : WF_vars(Worker(w))

----------------------------------------------------------------------------
(* Properties *)

\* Every variable has its type; the batch never outgrows upload_batch_size,
\* and neither channel its capacity.
TypeOK ==
  /\ phase \in {"start", "delete", "collect", "join", "ok", "err"}
  /\ \E s \in Starts : known = s.known
  /\ store \in [Ids -> Rows]
  /\ todo \subseteq Items /\ unfed \subseteq Items
  /\ feeder \in {"off", "feeding", "flagged", "closed"}
  /\ work \in Seq(Items) /\ Len(work) <= Cap
  /\ results \in Seq(WorkResults) /\ Len(results) <= Cap
  /\ rx \in Workers \cup {NoWorker}
  /\ wpc \in [Workers -> {"off", "gate", "sleep", "lock", "recv", "parse",
                          "embed", "send", "final", "exit", "panic"}]
  /\ witem \in [Workers -> 0..NItems]
  /\ wsent \in [Workers -> Nat]
  /\ wsize \in [Workers -> {MicroBatch, LowMicroBatch}]
  /\ pending \in Slices
  /\ batch \in Seq(Docs) /\ Len(batch) < Larger(UploadBatchSize, 1)
  /\ finished \subseteq Items /\ rejected \subseteq Items /\ failed \subseteq Items
  /\ poisoned \in BOOLEAN /\ done \in Nat

\* A successful run reports a file as processed only when every chunk of an
\* item recorded under its key is in the store, or its chunker rejected it:
\* final markers never overtake their chunks, and no batch is left behind.
ProcessedStored ==
  phase = "ok" /\ ~SkipUpload =>
    \A key \in Processed : \E i \in finished :
      /\ ToProcessKey(i) = key
      /\ \/ i \in rejected
         \/ \A k \in DOMAIN Chunks[i] : store[Chunks[i][k]] # NoRow

\* PipelineStats::processed_revisions: a file whose embedding failed partway
\* through must not have its revision recorded.
FailedNotRecorded ==
  phase = "ok" => \A i \in failed : ToProcessKey(i) \notin Processed

\* Every file queued for processing is counted done exactly once, by the
\* worker that gave it up or by its final marker: a successful run leaves no
\* file in a channel, whatever workers the throttle sent home early.
EveryFileCountedOnce ==
  /\ done <= Cardinality(todo)
  /\ phase = "ok" => /\ done = Cardinality(todo)
                     /\ finished \cup failed = todo

\* The one way not to end: worker 0, which no sample can gate, panicked or met
\* a coordinator that had returned, while the feeder waits for room and every
\* other worker is gated. A gated worker leaves only when feeder_done is set,
\* so as long as the memory stays low nothing moves.
Stalled ==
  /\ Stopped(0)
  /\ feeder = "feeding" /\ unfed # {} /\ Len(work) = Cap
  /\ \A w \in Workers : wpc[w] \in {"gate", "sleep", "panic", "exit"}

\* run_pipeline returns and, whatever failed, its detached tasks end too: no
\* worker waits for an item, a lock or a slot for ever. Excepted is the stall
\* with worker 0 gone, the other workers gated for ever by low memory and more
\* files than the channel holds: after a panic run_pipeline then never returns,
\* after its early return the other tasks outlive it.
EventuallyQuiet == <>[]Quiet \/ <>[]Stalled

----------------------------------------------------------------------------
(* Where a streamed chunk is: the inductive invariant behind ProcessedStored *)

InStoreOrBatch(c) == SkipUpload \/ store[c] # NoRow \/ c \in IdsOf(batch)

Holds(slice, i, k) == slice.item = i /\ slice.from < k /\ k <= slice.upto

\* Chunk k of item i has reached the coordinator or is among the first n results.
Arrived(i, k, n) ==
  \/ InStoreOrBatch(Chunks[i][k])
  \/ Holds(pending, i, k)
  \/ \E q \in 1..n : Holds(results[q], i, k)

AllArrived(i, n) ==
  i \in rejected \/ \A k \in DOMAIN Chunks[i] : Arrived(i, k, n)

\* A worker's sent chunks have arrived; at "final" there are no others.
WorkersStream ==
  \A w \in Workers :
    /\ wpc[w] \in {"parse", "embed", "send", "final"} =>
         \A k \in DOMAIN Chunks[witem[w]] :
           k <= wsent[w] => Arrived(witem[w], k, Len(results))
    /\ wpc[w] = "final" => AllArrived(witem[w], Len(results))

\* The chunks of a file precede its final marker in the channel.
MarkersFollow ==
  \A p \in DOMAIN results :
    results[p].is_final => AllArrived(results[p].item, p - 1)

FinishedArrived == \A i \in finished : AllArrived(i, 0)

\* A busy worker has an item, and every slice lies within its artifacts.
SlicesFit ==
  /\ \A p \in DOMAIN results : results[p].upto <= Len(Chunks[results[p].item])
  /\ ~NothingPending => /\ pending.item \in Items
                        /\ pending.upto <= Len(Chunks[pending.item])
  /\ \A w \in Workers : wpc[w] \in {"parse", "embed", "send", "final"} =>
       witem[w] \in Items /\ wsent[w] <= Len(Chunks[witem[w]])

NothingLeft == phase \in {"join", "ok"} => batch = <<>> /\ NothingPending

BeforeSpawn ==
  phase \in {"start", "delete"} =>
    /\ finished = {} /\ results = <<>> /\ batch = <<>> /\ NothingPending
    /\ \A w \in Workers : wpc[w] = "off"

Streaming ==
  /\ TypeOK
  /\ SlicesFit
  /\ BeforeSpawn
  /\ phase # "err" => /\ WorkersStream
                      /\ MarkersFollow
                      /\ FinishedArrived
                      /\ NothingLeft

=============================================================================

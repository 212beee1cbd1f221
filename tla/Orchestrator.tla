---------------------------- MODULE Orchestrator ----------------------------
(***************************************************************************)
(* The TypeScript pipeline (packages/virage-core/src/core/orchestrator.ts) *)
(* with its Uploader, its EmbedderProcessor, the Semaphore and the worker  *)
(* pool of utils.ts, the staging tables of VirageDb and the LanceDB store. *)
(* Successive Orchestrator.run() calls work on a tree and a configuration  *)
(* that change between them.                                               *)
(*                                                                         *)
(* Inside a run the chunk workers take files in the order of the scan,     *)
(* chunk them and, holding a permit of the semaphore, append them to the   *)
(* embed chain; the chain stages a file in SQLite, embeds and uploads in   *)
(* batches and gives the permit back. A step ends at an await; the process *)
(* may be killed between two steps (Crash) and inside one (Killed). A call *)
(* that withRetry repeats is one step: every call repeated is idempotent,  *)
(* so only the outcome of the last attempt is seen.                        *)
(* A revision is a git blob hash, so it is the content here.               *)
(***************************************************************************)
EXTENDS Naturals, Sequences, FiniteSets, SequencesExt

CONSTANTS
  Order,             \* the files a scan may find, in the order it sorts them
  Versions,          \* file -> the contents it may have
  ChunksOf,          \* content -> the sequence of its denseTextHashes
  Absent,            \* the file is not in the tree
  NoRev,             \* no revision
  NoRow,             \* no row has this hash
  NoVector,          \* dense_vector IS NULL
  NoMeta,            \* the meta table is empty
  Configs,           \* the configurations: [model, store]
  Modes,             \* how run() is called
  StartTrees,        \* the trees before the first run
  Edits,             \* the edits that happen: <<file, content, new content>>
  HasOrphanCleanup,  \* the store has deleteOrphanedChunks
  HasExistingHashes, \* the store has existingHashes
  ChunkConcurrency,  \* opts.chunkConcurrency
  MaxPendingFiles,   \* opts.maxPendingFiles
  MinEmbedBatch,     \* opts.minEmbeddingBatchSize
  MinUploadBatch,    \* opts.minUploadingBatchSize
  MassDeletion,      \* deletions from which the safety guard looks (10)
  MaxEdits,          \* bound: changes of the tree
  MaxSwitches,       \* bound: changes of the configuration
  MaxFaults          \* bound: failing calls and crashes

Files == Range(Order)

Contents == UNION {Versions[f] : f \in Files}

Hashes == UNION {Range(ChunksOf[v]) : v \in Contents}

ModelNames == {c.model : c \in Configs}

StoreNames == {c.store : c \in Configs}

Workers == 1..ChunkConcurrency

ASSUME SizesAssumption ==
  /\ ChunkConcurrency \in Nat \ {0} /\ MaxPendingFiles \in Nat \ {0}
  /\ MinEmbedBatch \in Nat \ {0} /\ MinUploadBatch \in Nat \ {0}
  /\ MassDeletion \in Nat
  /\ MaxEdits \in Nat /\ MaxSwitches \in Nat /\ MaxFaults \in Nat

ASSUME ChoicesAssumption ==
  /\ Modes \subseteq {"normal", "force", "no_upload", "dry_run"}
  /\ HasOrphanCleanup \in BOOLEAN /\ HasExistingHashes \in BOOLEAN
  /\ StartTrees \subseteq [Files -> Contents \cup {Absent}]
  /\ \A t \in StartTrees, f \in Files : t[f] \in Versions[f] \cup {Absent}
  /\ Edits \subseteq Files \X (Contents \cup {Absent}) \X (Contents \cup {Absent})

ASSUME ContentsAssumption ==
  /\ Order \in Seq(Files)
  /\ \A v \in Contents : ChunksOf[v] \in Seq(Hashes)
  /\ IsFiniteSet(Hashes)

VARIABLES
  tree,      \* the working tree: file -> content
  cfg,       \* the configuration the next run reads
  staged,    \* SQLite, table chunks: hash -> [src, rev, vec]
  revs,      \* SQLite, table file_revisions: file -> revision
  meta,      \* SQLite, table meta: the configuration of the last embedding
  stores,    \* the vector stores: name -> hash -> [src, rev, model]
  phase,     \* where run() is; "idle" between runs
  mode,      \* the options of the run
  force,     \* effectiveForce
  todo,      \* the chunk tasks no worker has taken yet
  toDelete,  \* the files whose rows and staged chunks go
  busy,      \* worker -> the file it chunks, <<>> when it is free
  waiters,   \* semaphore: the jobs waiting for a permit, first in first out
  permits,   \* semaphore: free permits
  chain,     \* the embed chain: jobs in order, the running one first
  step,      \* what the chain, or the final flush, does
  pendingEmbed, pendingUpload,  \* the in-memory queues
  newHashes, \* fileNewHashes: file -> the hashes it has now
  failed,    \* firstEmbedError is set
  outcome,   \* how the last run ended, "none" after a change of the world
  dropped,   \* the files that were last staged without some of their chunks
  edits, switches, faults

env == <<tree, cfg>>

sqlite == <<staged, revs, meta>>

pool == <<todo, busy, waiters, permits, chain>>

queues == <<pendingEmbed, pendingUpload>>

history == <<outcome, dropped>>

counters == <<edits, switches, faults>>

vars == <<env, sqlite, stores, phase, mode, force, pool, toDelete, step,
          queues, newHashes, failed, history, counters>>

StagedRow(f, v, vec) == [src |-> f, rev |-> v, vec |-> vec]

StoreRow(f, v, m) == [src |-> f, rev |-> v, model |-> m]

StagedRows == [src : Files, rev : Contents, vec : ModelNames \cup {NoVector}]

StoreRows == [src : Files, rev : Contents, model : ModelNames]

ASSUME ValuesAssumption ==
  /\ Absent \notin Contents /\ NoRev \notin Contents
  /\ NoVector \notin ModelNames /\ NoMeta \notin Configs
  /\ NoRow \notin StagedRows /\ NoRow \notin StoreRows

\* A chunk in memory; its model is NoVector until it is embedded.
Chunk(c, f, v, m) == [id |-> c, src |-> f, rev |-> v, model |-> m]

ToEmbed == [id : Hashes, src : Files, rev : Contents, model : {NoVector}]

ToUpload == [id : Hashes, src : Files, rev : Contents, model : ModelNames]

EmptyTable == [c \in Hashes |-> NoRow]

NoRevs == [f \in Files |-> NoRev]

rows == stores[cfg.store]

Init ==
  /\ tree \in StartTrees
  /\ cfg \in Configs
  /\ staged = EmptyTable
  /\ revs = NoRevs
  /\ meta = NoMeta
  /\ stores = [s \in StoreNames |-> EmptyTable]
  /\ phase = "idle" /\ mode = "normal" /\ force = FALSE
  /\ todo = <<>> /\ toDelete = {}
  /\ busy = [w \in Workers |-> <<>>]
  /\ waiters = <<>> /\ permits = MaxPendingFiles
  /\ chain = <<>> /\ step = "idle"
  /\ pendingEmbed = <<>> /\ pendingUpload = <<>>
  /\ newHashes = [f \in {} |-> {}]
  /\ failed = FALSE
  /\ outcome = "none" /\ dropped = {}
  /\ edits = 0 /\ switches = 0 /\ faults = 0

-----------------------------------------------------------------------------
(* The world between runs.                                                 *)

Edit(f, v) ==
  /\ phase = "idle" /\ edits < MaxEdits
  /\ <<f, tree[f], v>> \in Edits
  /\ tree' = [tree EXCEPT ![f] = v]
  /\ edits' = edits + 1
  /\ outcome' = "none"
  /\ UNCHANGED <<cfg, sqlite, stores, phase, mode, force, pool, toDelete, step,
                 queues, newHashes, failed, dropped, switches, faults>>

\* Another embedding model or vector store is configured.
Switch(c) ==
  /\ phase = "idle" /\ switches < MaxSwitches
  /\ c # cfg
  /\ cfg' = c
  /\ switches' = switches + 1
  /\ outcome' = "none"
  /\ UNCHANGED <<tree, sqlite, stores, phase, mode, force, pool, toDelete, step,
                 queues, newHashes, failed, dropped, edits, faults>>

-----------------------------------------------------------------------------
(* run(), up to the chunk tasks.                                           *)

\* Uploads happen unless skipUpload or dryRun is set.
Uploads == mode \notin {"no_upload", "dry_run"}

\* A new model clears the staging DB and forces the run.
ModelChanged == meta # NoMeta /\ meta.model # cfg.model

Begin(m) ==
  /\ phase = "idle"
  /\ phase' = "scan" /\ mode' = m /\ outcome' = "none"
  /\ IF m # "force" /\ ModelChanged
     THEN /\ force' = TRUE
          /\ staged' = EmptyTable /\ revs' = NoRevs /\ meta' = NoMeta
     ELSE force' = (m = "force") /\ UNCHANGED sqlite
  /\ UNCHANGED <<env, stores, pool, toDelete, step, queues, newHashes, failed,
                 dropped, counters>>

\* getCurrentState of the store: the table scan lists the rows in no
\* particular order and the last row of a file wins.
StoreStates ==
  {s \in [Files -> Contents \cup {NoRev}] :
     \A f \in Files :
       LET found == {rows[c].rev : c \in {d \in Hashes : rows[d] # NoRow
                                                      /\ rows[d].src = f}}
       IN IF found = {} THEN s[f] = NoRev ELSE s[f] \in found}

\* previousState: file_revisions, overlaid by the state of the store.
PreviousState(storeState) ==
  [f \in Files |-> IF force THEN NoRev
                   ELSE IF storeState[f] # NoRev THEN storeState[f]
                   ELSE revs[f]]

\* Array.filter: the elements of s that are in S, in their order; the i-th one
\* is at the place up to which i of them are found.
InOrder(s, S) ==
  LET at(i) == CHOOSE j \in DOMAIN s :
                 s[j] \in S /\ Cardinality({k \in 1..j : s[k] \in S}) = i
  IN [i \in 1..Cardinality({k \in DOMAIN s : s[k] \in S}) |-> s[at(i)]]

\* getChangedFiles
Changed(previous) ==
  InOrder(Order, {f \in Files : tree[f] # Absent /\ tree[f] # previous[f]})

Gone(previous) == {f \in Files : tree[f] = Absent /\ previous[f] # NoRev}

\* Deleting many files, and at least half as many as the tree has, needs --force.
Refused(gone) ==
  /\ Cardinality(gone) >= MassDeletion
  /\ ~force /\ mode # "dry_run"
  /\ 2 * Cardinality(gone) >= Cardinality({f \in Files : tree[f] # Absent})

\* The staged chunks, of files not in skip, that an earlier run did not get to
\* embed (vecs is {NoVector}), or to upload (vecs is the models).
Resumed(skip, vecs) ==
  LET hashes == SetToSeq({c \in Hashes : /\ staged[c] # NoRow
                                         /\ staged[c].src \notin skip
                                         /\ staged[c].vec \in vecs})
  IN [i \in DOMAIN hashes |->
        LET c == hashes[i]
        IN Chunk(c, staged[c].src, staged[c].rev, staged[c].vec)]

\* The last statement of run(), whatever way it ends: memory is lost.
EndRun(how) ==
  /\ phase' = "idle" /\ force' = FALSE
  /\ todo' = <<>> /\ toDelete' = {} /\ busy' = [w \in Workers |-> <<>>]
  /\ waiters' = <<>> /\ permits' = MaxPendingFiles
  /\ chain' = <<>> /\ step' = "idle"
  /\ pendingEmbed' = <<>> /\ pendingUpload' = <<>>
  /\ newHashes' = [f \in {} |-> {}]
  /\ failed' = FALSE
  /\ outcome' = how
  /\ UNCHANGED <<env, mode>>

Scan ==
  /\ phase = "scan"
  /\ \E storeState \in StoreStates :
       LET previous == PreviousState(storeState)
           changed  == Changed(previous)
           gone     == Gone(previous)
           skip     == Range(changed) \cup gone
           embed    == Resumed(skip, {NoVector})
           upload   == Resumed(skip, ModelNames)
       IN \/ /\ skip = {} /\ embed = <<>> /\ upload = <<>> /\ ~force
             /\ EndRun("ok")
          \/ /\ skip # {} \/ embed # <<>> \/ upload # <<>> \/ force
             /\ Refused(gone)
             /\ EndRun("refused")
          \/ /\ skip # {} \/ embed # <<>> \/ upload # <<>> \/ force
             /\ ~Refused(gone)
             /\ phase' = "prepare"
             /\ todo' = changed /\ toDelete' = gone
             /\ pendingEmbed' = embed /\ pendingUpload' = upload
             /\ UNCHANGED <<env, mode, force, busy, waiters, permits, chain,
                            step, newHashes, failed, outcome>>
  /\ UNCHANGED <<sqlite, stores, dropped, counters>>

\* prepareUpdate: the files whose rows are deleted before anything is added.
FilesToDelete ==
  IF force \/ (meta # NoMeta /\ meta.store # cfg.store)
  THEN {f \in Files : revs[f] # NoRev}
         \cup {staged[c].src : c \in {d \in Hashes : staged[d] # NoRow}}
  ELSE toDelete \cup (IF HasOrphanCleanup THEN {} ELSE Range(todo))

\* The hashes of the rows of these files.
RowsOf(files) == {c \in Hashes : rows[c] # NoRow /\ rows[c].src \in files}

WithoutRows(gone) == [c \in Hashes |-> IF c \in gone THEN NoRow ELSE rows[c]]

PrepareUpdate ==
  /\ phase = "prepare"
  /\ phase' = "forget"
  /\ stores' = IF Uploads
               THEN [stores EXCEPT ![cfg.store] =
                       WithoutRows(RowsOf(FilesToDelete))]
               ELSE stores
  /\ UNCHANGED <<env, sqlite, mode, force, pool, toDelete, step, queues,
                 newHashes, failed, history, counters>>

\* DELETE FROM chunks WHERE source_file = f
WithoutStaged(f) ==
  [c \in Hashes |-> IF staged[c] # NoRow /\ staged[c].src = f
                    THEN NoRow ELSE staged[c]]

\* db.deleteBySourceFile, one removed file after the other.
ForgetFile(f) ==
  /\ phase = "forget" /\ f \in toDelete
  /\ staged' = WithoutStaged(f)
  /\ revs' = [revs EXCEPT ![f] = NoRev]
  /\ toDelete' = toDelete \ {f}
  /\ UNCHANGED <<env, meta, stores, phase, mode, force, pool, step, queues,
                 newHashes, failed, history, counters>>

PreWarm ==
  /\ phase = "forget" /\ toDelete = {}
  /\ phase' = "stream"
  /\ UNCHANGED <<env, sqlite, stores, mode, force, pool, toDelete, step, queues,
                 newHashes, failed, history, counters>>

-----------------------------------------------------------------------------
(* The chunk workers (withConcurrency) and the semaphore.                  *)

TakeTask(w) ==
  /\ phase = "stream"
  /\ busy[w] = <<>> /\ todo # <<>>
  /\ busy' = [busy EXCEPT ![w] = <<Head(todo)>>]
  /\ todo' = Tail(todo)
  /\ UNCHANGED <<env, sqlite, stores, phase, mode, force, waiters, permits,
                 chain, toDelete, step, queues, newHashes, failed, history,
                 counters>>

\* embedSemaphore.acquire(): with a permit the job joins the chain at once and
\* the worker is free; without one the worker waits.
Acquire(w, job) ==
  IF permits > 0
  THEN /\ permits' = permits - 1
       /\ chain' = Append(chain, job)
       /\ busy' = [busy EXCEPT ![w] = <<>>]
       /\ UNCHANGED waiters
  ELSE /\ waiters' = Append(waiters, [worker |-> w, job |-> job])
       /\ UNCHANGED <<permits, chain, busy>>

Waiting(w) == \E i \in DOMAIN waiters : waiters[i].worker = w

ChunkFile(w) ==
  /\ phase = "stream"
  /\ busy[w] # <<>> /\ ~Waiting(w)
  /\ LET f == busy[w][1]
     IN Acquire(w, [file |-> f, chunks |-> ChunksOf[tree[f]]])
  /\ UNCHANGED <<env, sqlite, stores, phase, mode, force, todo, toDelete, step,
                 queues, newHashes, failed, history, counters>>

\* A chunker fails: its chunks are missing and the file goes on without them.
ChunkerFails(w) ==
  /\ phase = "stream" /\ faults < MaxFaults
  /\ busy[w] # <<>> /\ ~Waiting(w)
  /\ LET f == busy[w][1]
         all == ChunksOf[tree[f]]
     IN \E kept \in (SUBSET Range(all)) \ {Range(all)} :
          Acquire(w, [file |-> f,
                      chunks |-> InOrder(all, kept)])
  /\ faults' = faults + 1
  /\ UNCHANGED <<env, sqlite, stores, phase, mode, force, todo, toDelete, step,
                 queues, newHashes, failed, history, edits, switches>>

\* Faulty variant: the permit is also counted when a waiter takes it.
ReleaseTwice ==
  /\ permits' = permits + 1
  /\ IF waiters # <<>>
     THEN /\ chain' = Append(Tail(chain), Head(waiters).job)
          /\ busy' = [busy EXCEPT ![Head(waiters).worker] = <<>>]
          /\ waiters' = Tail(waiters)
     ELSE chain' = Tail(chain) /\ UNCHANGED <<busy, waiters>>

\* embedSemaphore.release() of the running job: the permit goes to the first
\* waiter, whose job joins the chain and whose worker is free.
Release ==
  IF waiters # <<>>
  THEN LET first == Head(waiters)
       IN /\ chain' = Append(Tail(chain), first.job)
          /\ busy' = [busy EXCEPT ![first.worker] = <<>>]
          /\ waiters' = Tail(waiters)
          /\ UNCHANGED permits
  ELSE /\ chain' = Tail(chain)
       /\ permits' = permits + 1
       /\ UNCHANGED <<busy, waiters>>

-----------------------------------------------------------------------------
(* The embed chain.                                                        *)

\* db.replaceChunks, the transaction: other hashes of the file go, vectors of
\* the hashes it keeps stay.
Replaced(f, v, hashes) ==
  [c \in Hashes |->
     IF c \in hashes
     THEN StagedRow(f, v, IF staged[c] = NoRow THEN NoVector ELSE staged[c].vec)
     ELSE IF staged[c] # NoRow /\ staged[c].src = f THEN NoRow
     ELSE staged[c]]

ReplaceChunks ==
  /\ phase = "stream" /\ step = "idle"
  /\ chain # <<>> /\ ~failed
  /\ LET job == Head(chain)
     IN /\ staged' = Replaced(job.file, tree[job.file], Range(job.chunks))
        /\ dropped' = IF Range(job.chunks) = Range(ChunksOf[tree[job.file]])
                      THEN dropped \ {job.file} ELSE dropped \cup {job.file}
  /\ step' = "replaced"
  /\ UNCHANGED <<env, revs, meta, stores, phase, mode, force, pool, toDelete,
                 queues, newHashes, failed, outcome, counters>>

\* The hashes that are not embedded again: those the store has, or for a store
\* that cannot tell those staged with a vector.
Existing(f) ==
  IF force THEN {}
  ELSE IF HasExistingHashes THEN {c \in Hashes : rows[c] # NoRow}
  ELSE {c \in Hashes : /\ staged[c] # NoRow
                       /\ staged[c].src = f /\ staged[c].vec # NoVector}

\* The rest of db.replaceChunks, which records the revision, and the check for
\* existing hashes.
QueueChunks ==
  /\ phase = "stream" /\ step = "replaced"
  /\ LET job   == Head(chain)
         f     == job.file
         fresh == InOrder(job.chunks, Hashes \ Existing(f))
     IN /\ revs' = [revs EXCEPT ![f] = tree[f]]
        /\ newHashes' = IF HasOrphanCleanup
                        THEN [g \in DOMAIN newHashes \cup {f} |->
                                IF g = f THEN Range(job.chunks)
                                ELSE newHashes[g]]
                        ELSE newHashes
        /\ pendingEmbed' =
             pendingEmbed \o [i \in DOMAIN fresh |->
                                Chunk(fresh[i], f, tree[f], NoVector)]
  /\ step' = "embed"
  /\ UNCHANGED <<env, staged, meta, stores, phase, mode, force, pool, toDelete,
                 pendingUpload, failed, history, counters>>

\* The number of chunks flushEmbed waits for and takes: everything at the end.
EmbedLimit == IF phase = "stream" THEN MinEmbedBatch ELSE Len(pendingEmbed)

\* Faulty variant: the last flush also goes round with an empty queue.
EmbedDueWhenEmpty == step = "embed" /\ Len(pendingEmbed) >= EmbedLimit

EmbedDue == step = "embed" /\ pendingEmbed # <<>> /\ Len(pendingEmbed) >= EmbedLimit

\* updateDenseVector of every chunk of the batch that is still staged.
WithVectors(batch) ==
  [c \in Hashes |-> IF staged[c] # NoRow /\ \E i \in DOMAIN batch : batch[i].id = c
                    THEN [staged[c] EXCEPT !.vec = cfg.model]
                    ELSE staged[c]]

\* One round of flushEmbed: embed, keep the vectors in SQLite, note the model.
EmbedBatch ==
  /\ EmbedDue
  /\ LET batch == SubSeq(pendingEmbed, 1, EmbedLimit)
     IN /\ staged' = WithVectors(batch)
        /\ pendingUpload' = pendingUpload \o
             [i \in DOMAIN batch |-> [batch[i] EXCEPT !.model = cfg.model]]
        /\ pendingEmbed' = SubSeq(pendingEmbed, EmbedLimit + 1, Len(pendingEmbed))
  /\ meta' = cfg
  /\ step' = "upload"
  /\ UNCHANGED <<env, revs, stores, phase, mode, force, pool, toDelete,
                 newHashes, failed, history, counters>>

\* deduplicateByHash keeps the first chunk of every hash; upsert overwrites.
Upserted(batch) ==
  LET first(c) == CHOOSE i \in DOMAIN batch :
                    /\ batch[i].id = c
                    /\ \A j \in 1..(i - 1) : batch[j].id # c
  IN [c \in Hashes |->
        IF \E i \in DOMAIN batch : batch[i].id = c
        THEN LET k == batch[first(c)] IN StoreRow(k.src, k.rev, k.model)
        ELSE rows[c]]

Ids(batch) == {batch[i].id : i \in DOMAIN batch}

\* The rows when the store took only these hashes of a batch.
PartlyUpserted(batch, taken) ==
  [c \in Hashes |-> IF c \in taken THEN Upserted(batch)[c] ELSE rows[c]]

\* Faulty variant: an upload empties the staging table.
UpsertBatchClears(n) ==
  /\ stores' = [stores EXCEPT ![cfg.store] = Upserted(SubSeq(pendingUpload, 1, n))]
  /\ staged' = EmptyTable
  /\ pendingUpload' = SubSeq(pendingUpload, n + 1, Len(pendingUpload))

\* uploader.upsertBatch: the rows, then the staged chunks of those hashes go.
UpsertBatch(n) ==
  LET batch == SubSeq(pendingUpload, 1, n)
  IN /\ stores' = [stores EXCEPT ![cfg.store] = Upserted(batch)]
     /\ staged' = [c \in Hashes |-> IF c \in Ids(batch) THEN NoRow ELSE staged[c]]
     /\ pendingUpload' = SubSeq(pendingUpload, n + 1, Len(pendingUpload))

UploadDue == Uploads /\ Len(pendingUpload) >= MinUploadBatch

\* One round of flushUpload(false).
UploadBatch ==
  /\ step = "upload" /\ UploadDue
  /\ UpsertBatch(MinUploadBatch)
  /\ UNCHANGED <<env, revs, meta, phase, mode, force, pool, toDelete, step,
                 pendingEmbed, newHashes, failed, history, counters>>

UploadedEnough ==
  /\ step = "upload" /\ ~UploadDue
  /\ step' = "embed"
  /\ UNCHANGED <<env, sqlite, stores, phase, mode, force, pool, toDelete,
                 queues, newHashes, failed, history, counters>>

\* The job is done and its permit goes on.
JobDone ==
  /\ phase = "stream" /\ step = "embed" /\ ~EmbedDue
  /\ step' = "idle"
  /\ Release
  /\ UNCHANGED <<env, sqlite, stores, phase, mode, force, todo, toDelete, queues,
                 newHashes, failed, history, counters>>

\* After an error the remaining jobs only give their permit back.
SkipJob ==
  /\ phase = "stream" /\ step = "idle"
  /\ chain # <<>> /\ failed
  /\ Release
  /\ UNCHANGED <<env, sqlite, stores, phase, mode, force, todo, toDelete, step,
                 queues, newHashes, failed, history, counters>>

\* A call of the running job fails: existingHashes, the embedder (the batch
\* leaves the queue) or the store, which may have taken part of the batch.
JobFails ==
  /\ phase = "stream" /\ faults < MaxFaults
  /\ \/ /\ step = "replaced"
        /\ HasExistingHashes /\ ~force /\ Head(chain).chunks # <<>>
        /\ revs' = [revs EXCEPT ![Head(chain).file] = tree[Head(chain).file]]
        /\ UNCHANGED <<stores, queues>>
     \/ /\ EmbedDue
        /\ pendingEmbed' = SubSeq(pendingEmbed, EmbedLimit + 1, Len(pendingEmbed))
        /\ UNCHANGED <<revs, stores, pendingUpload>>
     \/ /\ step = "upload" /\ UploadDue
        /\ LET batch == SubSeq(pendingUpload, 1, MinUploadBatch)
           IN \E taken \in SUBSET Ids(batch) :
                stores' = [stores EXCEPT ![cfg.store] =
                             PartlyUpserted(batch, taken)]
        /\ pendingUpload' = SubSeq(pendingUpload, MinUploadBatch + 1,
                                   Len(pendingUpload))
        /\ UNCHANGED <<revs, pendingEmbed>>
  /\ failed' = TRUE /\ step' = "idle"
  /\ Release
  /\ faults' = faults + 1
  /\ UNCHANGED <<env, staged, meta, phase, mode, force, todo, toDelete,
                 newHashes, history, edits, switches>>

-----------------------------------------------------------------------------
(* The end of run().                                                       *)

\* withConcurrency and the chain are done.
StreamOver ==
  /\ phase = "stream" /\ step = "idle"
  /\ todo = <<>> /\ chain = <<>>
  /\ \A w \in Workers : busy[w] = <<>>

\* if (firstEmbedError) throw firstEmbedError
Throw ==
  /\ StreamOver /\ failed
  /\ EndRun("failed")
  /\ UNCHANGED <<sqlite, stores, dropped, counters>>

FlushRest ==
  /\ StreamOver /\ ~failed
  /\ phase' = "flush" /\ step' = "embed"
  /\ UNCHANGED <<env, sqlite, stores, mode, force, pool, toDelete, queues,
                 newHashes, failed, history, counters>>

\* flushUpload(true): what is left goes in one batch.
FlushUpload ==
  /\ phase = "flush" /\ step = "embed" /\ ~EmbedDue
  /\ phase' = "cleanup" /\ step' = "idle"
  /\ IF Uploads /\ pendingUpload # <<>>
     THEN UpsertBatch(Len(pendingUpload))
     ELSE UNCHANGED <<stores, staged, pendingUpload>>
  /\ UNCHANGED <<env, revs, meta, mode, force, pool, toDelete, pendingEmbed,
                 newHashes, failed, history, counters>>

\* Faulty variant: the orphans are removed only when nothing is reused.
ToCleanForced ==
  IF Uploads /\ HasOrphanCleanup /\ force THEN DOMAIN newHashes ELSE {}

\* The files whose old rows deleteOrphanedChunks still has to remove.
ToClean ==
  IF Uploads /\ HasOrphanCleanup /\ ~force THEN DOMAIN newHashes ELSE {}

DeleteOrphans(f) ==
  /\ phase = "cleanup" /\ f \in ToClean
  /\ stores' = [stores EXCEPT ![cfg.store] =
       WithoutRows(RowsOf({f}) \ newHashes[f])]
  /\ newHashes' = [g \in DOMAIN newHashes \ {f} |-> newHashes[g]]
  /\ UNCHANGED <<env, sqlite, phase, mode, force, pool, toDelete, step, queues,
                 failed, history, counters>>

Finish ==
  /\ phase = "cleanup" /\ ToClean = {}
  /\ EndRun("ok")
  /\ UNCHANGED <<sqlite, stores, dropped, counters>>

\* The process is killed, or a call outside of the chain throws.
Crash ==
  /\ phase # "idle" /\ faults < MaxFaults
  /\ EndRun("failed")
  /\ faults' = faults + 1
  /\ UNCHANGED <<sqlite, stores, dropped, edits, switches>>

\* The batch an upsert is sending.
InFlight ==
  IF step = "upload" /\ UploadDue THEN SubSeq(pendingUpload, 1, MinUploadBatch)
  ELSE IF phase = "flush" /\ step = "embed" /\ ~EmbedDue /\ Uploads
  THEN pendingUpload
  ELSE <<>>

\* prepareUpdate or an upsert of the final flush fails halfway.
StoreFails ==
  /\ faults < MaxFaults /\ Uploads
  /\ \/ /\ phase = "prepare"
        /\ \E part \in SUBSET RowsOf(FilesToDelete) :
             stores' = [stores EXCEPT ![cfg.store] = WithoutRows(part)]
     \/ /\ phase = "flush" /\ InFlight # <<>>
        /\ \E taken \in SUBSET Ids(InFlight) :
             stores' = [stores EXCEPT ![cfg.store] =
                          PartlyUpserted(InFlight, taken)]
  /\ EndRun("failed")
  /\ faults' = faults + 1
  /\ UNCHANGED <<sqlite, dropped, edits, switches>>

\* The process is killed between two writes that no transaction joins: in
\* clearAll, in deleteBySourceFile, among the updateDenseVector calls before
\* setMeta, or after an upsert whose staged chunks are not deleted yet.
Killed ==
  /\ faults < MaxFaults
  /\ \/ /\ phase = "idle" /\ ModelChanged /\ Modes # {"force"}
        /\ staged' = EmptyTable
        /\ revs' \in {revs, NoRevs}
        /\ UNCHANGED stores
     \/ /\ phase = "forget"
        /\ \E f \in toDelete : staged' = WithoutStaged(f)
        /\ UNCHANGED <<revs, stores>>
     \/ /\ EmbedDue
        /\ \E n \in 1..EmbedLimit : staged' = WithVectors(SubSeq(pendingEmbed, 1, n))
        /\ UNCHANGED <<revs, stores>>
     \/ /\ InFlight # <<>>
        /\ stores' = [stores EXCEPT ![cfg.store] = Upserted(InFlight)]
        /\ UNCHANGED <<staged, revs>>
  /\ EndRun("failed")
  /\ faults' = faults + 1
  /\ UNCHANGED <<meta, dropped, edits, switches>>

Running ==
  \/ Scan \/ PrepareUpdate \/ PreWarm \/ ReplaceChunks \/ QueueChunks
  \/ EmbedBatch \/ UploadBatch \/ UploadedEnough \/ JobDone \/ SkipJob
  \/ Throw \/ FlushRest \/ FlushUpload \/ Finish
  \/ \E f \in Files : ForgetFile(f) \/ DeleteOrphans(f)
  \/ \E w \in Workers : TakeTask(w) \/ ChunkFile(w)

Next ==
  \/ \E f \in Files : \E v \in Versions[f] \cup {Absent} : Edit(f, v)
  \/ \E c \in Configs : Switch(c)
  \/ \E m \in Modes : Begin(m)
  \/ Running
  \/ \E w \in Workers : ChunkerFails(w)
  \/ JobFails \/ Crash \/ StoreFails \/ Killed

Spec == Init /\ [][Next]_vars

\* Node runs every callback that is ready; nobody has to call run().
FairSpec ==
  /\ Spec
  /\ WF_vars(Scan \/ PrepareUpdate \/ PreWarm \/ Throw \/ FlushRest
               \/ FlushUpload \/ Finish
               \/ \E f \in Files : ForgetFile(f) \/ DeleteOrphans(f))
  /\ WF_vars(ReplaceChunks \/ QueueChunks \/ EmbedBatch \/ UploadBatch
               \/ UploadedEnough \/ JobDone \/ SkipJob)
  /\ \A w \in Workers : WF_vars(TakeTask(w) \/ ChunkFile(w))

-----------------------------------------------------------------------------
(* Properties.                                                             *)

\* Type correctness of the staging DB, the stores and the queues of a run.
TypeOK ==
  /\ tree \in [Files -> Contents \cup {Absent}] /\ cfg \in Configs
  /\ staged \in [Hashes -> StagedRows \cup {NoRow}]
  /\ revs \in [Files -> Contents \cup {NoRev}]
  /\ meta \in Configs \cup {NoMeta}
  /\ stores \in [StoreNames -> [Hashes -> StoreRows \cup {NoRow}]]
  /\ phase \in {"idle", "scan", "prepare", "forget", "stream", "flush", "cleanup"}
  /\ step \in {"idle", "replaced", "embed", "upload"}
  /\ force \in BOOLEAN /\ failed \in BOOLEAN /\ permits \in 0..MaxPendingFiles
  /\ \A w \in Workers : busy[w] = <<>> \/ busy[w][1] \in Files
  /\ \A i \in DOMAIN chain : chain[i].file \in Files
  /\ Range(pendingEmbed) \subseteq ToEmbed
  /\ Range(pendingUpload) \subseteq ToUpload

\* The back pressure of orchestrator.ts:409-411: permits are neither lost nor
\* made up across errors, waits and hand-overs, so at most maxPendingFiles
\* files are queued ahead of the embedder, and a worker waits only while all
\* of them are.
BackPressure ==
  /\ permits + Len(chain) = MaxPendingFiles
  /\ waiters # <<>> => permits = 0

\* A run that uploads and returns without an error leaves every chunk of every
\* file of the tree in the store, whatever failed in the runs before it; the
\* files whose chunker failed are excepted.
Searchable ==
  outcome = "ok" /\ Uploads =>
    \A f \in Files \ dropped :
      tree[f] # Absent =>
        \A c \in Range(ChunksOf[tree[f]]) : rows[c] # NoRow /\ rows[c].src = f

\* As long as nothing has failed and the model is the first one, the store
\* holds after a normal run only rows of what the files contain: every version
\* that a run indexed is cleaned up by a later run, whichever of a file's rows
\* getCurrentState happens to report.
NoStaleRows ==
  /\ TypeOK
  /\ outcome = "ok" /\ Uploads /\ faults = 0 /\ switches = 0 =>
       \A c \in Hashes :
         rows[c] # NoRow =>
           /\ tree[rows[c].src] # Absent
           /\ c \in Range(ChunksOf[tree[rows[c].src]])

\* Every run ends: workers, semaphore and chain do not wait for each other.
RunEnds == phase # "idle" ~> phase = "idle"

=============================================================================

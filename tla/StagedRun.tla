----------------------------- MODULE StagedRun ------------------------------
(***************************************************************************)
(* The embedding and upload stages used one after the other                *)
(* (packages/virage-core/src/core: EmbedderProcessor.run in embedder.ts,   *)
(* Uploader.sync and uploadPending in uploader.ts, batchBySize in          *)
(* utils.ts, the staging tables of virage-db.ts).  A run embeds the chunks *)
(* the staging database lacks, batch by batch; a sync compares what is     *)
(* staged with the vector store, deletes, uploads and unstages.  Between   *)
(* the two files change, calls fail for good, processes are killed, the    *)
(* model or the store is replaced.                                         *)
(*                                                                         *)
(* A text stands for its hash, and a row's vector for the text and model   *)
(* it was computed from (module Embedders has the providers).              *)
(***************************************************************************)
EXTENDS Naturals, Sequences, FiniteSets, SequencesExt

CONSTANTS
    Contents,       \* the texts of each file's revisions: a sequence for each <<file, revision>>
    SpaceModels,    \* embedding models
    StoreNames,     \* vector stores
    Chars,          \* the length of a text
    MaxItems,       \* batchSize
    MaxChars,       \* maxBatchChars
    MinIngestion,   \* minIngestionBatchSize
    UploadBatch,    \* documents per upsert (50 in the code)
    MaxChanges,     \* bound: edits, changes of model and of store
    MaxJobs,        \* bound: runs and syncs
    MaxLosses       \* bound: calls that fail for good, and kills

VARIABLES
    revision,       \* the revision each file has
    spaceModel, storeName,
    staged, meta,   \* the database: rows in the order they were inserted, and the meta row
    stored,         \* what each store holds
    embedJob, uploadJob,
    changes, jobs, losses,
    torn            \* history: files a store may hold in parts, see Torn

stagedVars == <<revision, spaceModel, storeName, staged, meta, stored, embedJob, uploadJob,
                changes, jobs, losses, torn>>

SourceFiles == {v[1] : v \in DOMAIN Contents}
AllTexts    == UNION {Range(Contents[v]) : v \in DOMAIN Contents}
NoMeta      == [model |-> "none", store |-> "none"]
NoEmbedJob  == [phase |-> "idle", batches |-> <<>>, goal |-> {}]
NoUploadJob == [phase |-> "idle", kind |-> "none", rows |-> <<>>, remove |-> {}, batch |-> <<>>, whole |-> {}]

TextsOf(rows)     == {rows[n].text : n \in DOMAIN rows}
RowsOfFile(s, f)  == {r \in stored[s] : r.file = f}
RowFor(c)          == [text |-> c.text, file |-> c.file, rev |-> c.rev, model |-> spaceModel]

\* chunks.json: the chunks of all files.
Chunks ==
    LET order  == SetToSeq(SourceFiles)
        of(f)  == [n \in DOMAIN Contents[<<f, revision[f]>>] |->
                     [text |-> Contents[<<f, revision[f]>>][n], file |-> f, rev |-> revision[f]]]
    IN  FlattenSeq([n \in DOMAIN order |-> of(order[n])])

StagedInit ==
    /\ revision = [f \in SourceFiles |-> 1]
    /\ spaceModel \in SpaceModels /\ storeName \in StoreNames
    /\ staged = <<>> /\ meta = NoMeta
    /\ stored = [s \in StoreNames |-> {}]
    /\ embedJob = NoEmbedJob /\ uploadJob = NoUploadJob
    /\ changes = 0 /\ jobs = 0 /\ losses = 0
    /\ torn = [s \in StoreNames |-> {}]

-----------------------------------------------------------------------------
(* What happens outside.                                                   *)

Idle   == embedJob.phase # "running" /\ uploadJob.phase = "idle"
Change == changes < MaxChanges /\ changes' = changes + 1 /\ UNCHANGED <<staged, meta, stored, uploadJob, jobs, losses, torn>>

EditFile(f) ==
    /\ Idle /\ Change
    /\ \E v \in DOMAIN Contents : v[1] = f /\ v[2] # revision[f] /\ revision' = [revision EXCEPT ![f] = v[2]]
    /\ embedJob' = NoEmbedJob
    /\ UNCHANGED <<spaceModel, storeName>>

Reconfigure ==
    /\ Idle /\ Change
    /\ spaceModel' \in SpaceModels /\ storeName' \in StoreNames
    /\ <<spaceModel', storeName'>> # <<spaceModel, storeName>>
    /\ embedJob' = NoEmbedJob
    /\ UNCHANGED revision

-----------------------------------------------------------------------------
(* EmbedderProcessor.                                                      *)

\* A batch is closed when it is full or the next text would make it too long; a
\* text longer than the limit is a batch of its own.
BatchBySize(items) ==
    LET size(b) == FoldLeft(LAMBDA n, c : n + Chars[c.text], 0, b)
        add(acc, c) ==
          IF acc # <<>> /\ Len(Last(acc)) < MaxItems /\ size(Last(acc)) + Chars[c.text] <= MaxChars
          THEN [acc EXCEPT ![Len(acc)] = Append(@, c)]
          ELSE Append(acc, <<c>>)
    IN  FoldLeft(add, <<>>, items)

\* Faulty variant: a change of model is noticed but what is staged is kept.
NewSpaceKept(force) == force

\* force, or the model is another one than the one of the meta row: clearAll.
NewSpace(force) == force \/ (meta # NoMeta /\ meta.model # spaceModel)

\* getChunksToEmbed.  A file whose chunks are all staged under its revision is
\* skipped, and of the others the chunks whose hash is staged.
GetChunksToEmbed(force) ==
    IF NewSpace(force) THEN Chunks
    ELSE SelectSeq(Chunks, LAMBDA c : c.text \notin TextsOf(staged))

StartRun(force) ==
    /\ Idle /\ jobs < MaxJobs /\ jobs' = jobs + 1
    /\ embedJob' = [phase |-> "running", batches |-> BatchBySize(GetChunksToEmbed(force)),
                    goal |-> TextsOf(Chunks)]
    /\ IF NewSpace(force) THEN staged' = <<>> /\ meta' = NoMeta ELSE UNCHANGED <<staged, meta>>
    /\ UNCHANGED <<revision, spaceModel, storeName, stored, uploadJob, changes, losses, torn>>

\* INSERT OR IGNORE, row by row.
Inserted(rows, new) ==
    FoldLeft(LAMBDA acc, r : IF r.text \in TextsOf(acc) THEN acc ELSE Append(acc, r), rows, new)

\* deduplicateByHash: the first row of a text.
Unique(rows) == Inserted(<<>>, rows)

\* embedBatch and saveEmbeddings; then, when enough is pending, onIntermediateBatch,
\* which is uploadPending.
EmbedNextBatch ==
    /\ embedJob.phase = "running" /\ uploadJob.phase = "idle" /\ embedJob.batches # <<>>
    /\ LET batch == embedJob.batches[1]
       IN  staged' = Inserted(staged, [n \in DOMAIN batch |-> RowFor(batch[n])])
    /\ meta' = [model |-> spaceModel, store |-> storeName]
    /\ embedJob' = [embedJob EXCEPT !.batches = Tail(@)]
    /\ uploadJob' = IF Len(staged') >= MinIngestion
                    THEN [NoUploadJob EXCEPT !.phase = "upload", !.kind = "pending", !.rows = staged']
                    ELSE uploadJob
    /\ UNCHANGED <<revision, spaceModel, storeName, stored, changes, jobs, losses, torn>>

EndRun ==
    /\ embedJob.phase = "running" /\ uploadJob.phase = "idle" /\ embedJob.batches = <<>>
    /\ embedJob' = [embedJob EXCEPT !.phase = "returned"]
    /\ UNCHANGED <<revision, spaceModel, storeName, staged, meta, stored, uploadJob, changes, jobs, losses, torn>>

-----------------------------------------------------------------------------
(* Uploader.                                                               *)

\* getCurrentState: one of the revisions a file has in the store.
CurrentState ==
    {st \in [SourceFiles -> 0..Cardinality(DOMAIN Contents)] :
        \A f \in SourceFiles :
            LET revs == {r.rev : r \in RowsOfFile(storeName, f)}
            IN  IF revs = {} THEN st[f] = 0 ELSE st[f] \in revs}

StoreChanged == meta # NoMeta /\ meta.store # storeName

\* Files all of whose texts are staged under one revision and belong to no other.
WholeFiles(rows) ==
    {f \in SourceFiles :
        LET of == {rows[n] : n \in {k \in DOMAIN rows : rows[k].file = f}}
        IN  \E v \in DOMAIN Contents :
              /\ v[1] = f /\ {r.text : r \in of} = Range(Contents[v]) /\ \A r \in of : r.rev = v[2]
              /\ \A w \in DOMAIN Contents : w[1] # f => Range(Contents[w]) \cap Range(Contents[v]) = {}}

\* getItemsToUpload: everything, or the rows of files the store has in another
\* revision or not at all.
StartSync(force) ==
    /\ Idle /\ jobs < MaxJobs /\ jobs' = jobs + 1
    /\ \E st \in CurrentState :
         LET all   == force \/ StoreChanged
             rows  == IF all THEN staged ELSE SelectSeq(staged, LAMBDA r : st[r.file] # r.rev)
             gone  == {f \in SourceFiles : \E n \in DOMAIN rows : rows[n].file = f /\ (all \/ st[f] # 0)}
         IN  uploadJob' = [phase |-> IF gone # {} THEN "delete" ELSE IF rows # <<>> THEN "upload" ELSE "idle",
                           kind |-> "sync", rows |-> rows, remove |-> gone, batch |-> <<>>,
                           whole |-> WholeFiles(rows)]
    /\ embedJob' = IF embedJob.phase = "returned" THEN [embedJob EXCEPT !.phase = "synced"] ELSE embedJob
    /\ UNCHANGED <<revision, spaceModel, storeName, staged, meta, stored, changes, losses, torn>>

\* deleteBySourceFile.
DeleteObsolete ==
    /\ uploadJob.phase = "delete"
    /\ stored' = [stored EXCEPT ![storeName] = {r \in @ : r.file \notin uploadJob.remove}]
    /\ torn' = [torn EXCEPT ![storeName] = @ \cup uploadJob.remove]
    /\ uploadJob' = [uploadJob EXCEPT !.phase = IF uploadJob.rows = <<>> THEN "idle" ELSE "upload"]
    /\ UNCHANGED <<revision, spaceModel, storeName, staged, meta, embedJob, changes, jobs, losses>>

\* One batch of documents; the first row of a text is kept.
Upsert ==
    /\ uploadJob.phase = "upload" /\ uploadJob.batch = <<>> /\ uploadJob.rows # <<>>
    /\ LET batch == SubSeq(uploadJob.rows, 1, IF Len(uploadJob.rows) < UploadBatch THEN Len(uploadJob.rows) ELSE UploadBatch)
       IN  /\ stored' = [stored EXCEPT ![storeName] =
                           {r \in @ : r.text \notin TextsOf(batch)} \cup Range(Unique(batch))]
           /\ torn' = [torn EXCEPT ![storeName] = @ \cup {batch[n].file : n \in DOMAIN batch}
                                                    \cup {r.file : r \in {x \in stored[storeName] : x.text \in TextsOf(batch)}}]
           /\ uploadJob' = [uploadJob EXCEPT !.batch = batch]
    /\ UNCHANGED <<revision, spaceModel, storeName, staged, meta, embedJob, changes, jobs, losses>>

\* deleteChunks.
DeleteChunks(batch) == SelectSeq(staged, LAMBDA r : r.text \notin TextsOf(batch))

\* The batch is unstaged.  After the last one a file uploaded whole is whole again.
Unstage ==
    /\ uploadJob.phase = "upload" /\ uploadJob.batch # <<>>
    /\ staged' = DeleteChunks(uploadJob.batch)
    /\ LET rest == SubSeq(uploadJob.rows, Len(uploadJob.batch) + 1, Len(uploadJob.rows))
       IN  /\ uploadJob' = IF rest = <<>> THEN NoUploadJob ELSE [uploadJob EXCEPT !.rows = rest, !.batch = <<>>]
           /\ torn' = IF rest = <<>> THEN [torn EXCEPT ![storeName] = @ \ uploadJob.whole] ELSE torn
    /\ UNCHANGED <<revision, spaceModel, storeName, meta, stored, embedJob, changes, jobs, losses>>

\* withRetry gave up, a batch came back with the wrong number of vectors, or the
\* process was killed: what the job has not done stays undone.
LoseJob ==
    /\ ~Idle /\ losses < MaxLosses /\ losses' = losses + 1
    /\ embedJob' = NoEmbedJob /\ uploadJob' = NoUploadJob
    /\ UNCHANGED <<revision, spaceModel, storeName, staged, meta, stored, changes, jobs, torn>>

StagedNext ==
    \/ \E f \in SourceFiles : EditFile(f)
    \/ Reconfigure
    \/ \E force \in BOOLEAN : StartRun(force) \/ StartSync(force)
    \/ EmbedNextBatch \/ EndRun \/ DeleteObsolete \/ Upsert \/ Unstage \/ LoseJob

StagedSpec == StagedInit /\ [][StagedNext]_stagedVars

-----------------------------------------------------------------------------
(* Properties.                                                             *)

StagedTypeOK ==
    /\ TextsOf(staged) \subseteq AllTexts /\ Cardinality(TextsOf(staged)) = Len(staged)
    /\ \A s \in StoreNames : Cardinality({r.text : r \in stored[s]}) = Cardinality(stored[s])
    /\ uploadJob.phase \in {"idle", "delete", "upload"}

\* The staging database never mixes embedding spaces: whatever models the runs
\* used and wherever they were cut off, its rows are of the model it names.
OneSpace == \A n \in DOMAIN staged : meta.model = staged[n].model

\* A run that returned left no chunk without a vector: each is staged, or was
\* uploaded on the way.
RunComplete ==
    embedJob.phase = "returned" =>
        embedJob.goal \subseteq TextsOf(staged) \cup {r.text : r \in stored[storeName]}

\* Batches respect both limits, except for a text that is too long by itself.
BatchesFit ==
    \A n \in DOMAIN embedJob.batches :
        LET b == embedJob.batches[n]
        IN  Len(b) <= MaxItems /\ (Len(b) > 1 => FoldLeft(LAMBDA k, c : k + Chars[c.text], 0, b) <= MaxChars)

\* The store holds each file whole, in one revision and one model, except a file
\* that an upload tore: one that was cut off, that had only a part of the file to
\* upload (what an earlier upload unstaged, or a revision before left staged), or
\* that took over a text two files share.
FilesWhole ==
    \A s \in StoreNames : \A f \in SourceFiles \ torn[s] :
        LET of == RowsOfFile(s, f)
        IN  of # {} =>
              \E v \in DOMAIN Contents :
                 /\ v[1] = f /\ {r.text : r \in of} = Range(Contents[v]) /\ \A r \in of : r.rev = v[2]
                 /\ Cardinality({r.model : r \in of}) = 1

\* The parts of the above that hold of every state.
StagedInv == StagedTypeOK /\ OneSpace /\ RunComplete /\ BatchesFit /\ FilesWhole

\* What is staged leaves the database only for the store, or when the embedding
\* space is new.
NothingDropped ==
    \A n \in DOMAIN staged :
        \/ staged[n].text \in TextsOf(staged')
        \/ staged[n] \in stored'[storeName]
        \/ staged' = <<>> /\ meta' = NoMeta

\* No step drops what was embedded, and each leads to a state in which it is
\* stored once, of its own file and embedding space.
StagedSound == [][StagedInv' /\ NothingDropped]_stagedVars

\* "deletes stale documents, upserts new ones" (virage-core/README.md); "old chunks
\* [stay] in the store until the final sync() delete sweep" (ADR-022): when a run
\* and the sync after it have ended, the store holds no text its file has not.
SweptClean ==
    embedJob.phase = "synced" /\ uploadJob.phase = "idle" =>
        \A r \in stored[storeName] : r.text \in embedJob.goal
=============================================================================

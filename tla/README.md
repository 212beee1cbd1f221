# Virage: a TLA+ verification project

Virage indexes a working tree into a vector store and answers searches from it.
Its engine is the Rust crate `crates/virage-engine`; the TypeScript packages
hold an earlier pipeline, the CLI, the dashboard, the agent plugins and the
stores. This project models first the part where a mistake loses data silently:
the concurrent indexing pipelines, in both languages, and the commands that
decide, run after run, which files may be skipped. Around it are the vector
stores, the window walk of the chunkers, the evaluation suite and the quality
assessment, the embedding providers, the query daemon, the dashboard, telemetry, the
git scan, and what the CLI and the agent plugins write into a project and show on a
terminal.

## Inventory

| Component | State | Operations | What is hard |
|---|---|---|---|
| Pipeline (`pipeline/coordinator.rs`, `worker.rs`, `mod.rs`) | work and result channels, the mutex around the work receiver, the embedder mutex, the upsert batch, `processed_revisions`, progress counters | detect changes, delete removed files, feed, pull, chunk, embed in micro-batches, upsert, join | bounded channels in both directions, workers that leave early, failures in the middle of a file, panics, detached tasks after an early return |
| Concurrency strategies (`pipeline/concurrency.rs`, `cli/index.rs`) | watermarks, ceiling | sample the memory, scale the worker count | rounding, watermarks that meet, a ceiling of zero |
| `virage index` (`cli/index.rs`) | known revisions, the state DB, the store | normal, `--force`, `--no-upload`, `--watch`, reconcile from the store, record, prune | crashes between steps, files that change during a run, a lost state DB, sequences of commands in different modes |
| State DB (`db/mod.rs`, `virage-core/.../virage-db.ts`) | file revisions, chunks, sessions, events, metadata | migrate, record, delete, log | migrations interrupted halfway |
| Vector stores (`stores/*.rs`, `packages/virage-store-*`) | rows by chunk id, a keyword index, a meta table | initialize, upsert, delete by source, delete orphans, existing hashes, current state, search, meta | partial writes, an index built across awaits, filters before or after the cut to topK, pages |
| Sources (`sources/git.rs`, `local_fs.rs`) | none of their own; they read git and the disk | list, revisions, read content, changes since | listing, revision and content are read at different times |
| Chunkers (`chunkers/walk.rs`, `virage-chunker-ce-ast`) | breadcrumb, segments, the window being built | visit, split, take, cut, close, merge, emit | window packing, overlap, trailing windows, bytes against characters |
| Embedders, rerankers, ONNX of the engine | model sessions | embed, rerank | numeric; shared behind one mutex |
| Embedding providers and semantic cache (`virage-embedder-*`) | the model that is loaded, the cache in memory and its file | load, embed in batches, retry, look up, save | calls side by side, a model that fails to load, a cache file that outlives its model |
| Staged API (`EmbedderProcessor.run`, `Uploader.sync`, `uploadPending`) | staged chunks, the meta row, the rows of the store | embed, upload on the way, sync | files that change between the two stages, calls that fail for good, kills |
| Git scan (`git-tracker.ts`, `cli-git-source-repository.ts`, `virage-git-isomorphic`) | none of its own; it asks git several times | list, ls-tree, status, hash-object, compare, read | edits, stagings and commits between two of the calls |
| Prompts and live display (`checkbox-nav.ts`, `progress-bar.ts`) | ticks and the active row; rows drawn last, messages | keys; redraw, log, stop | disabled entries, a miscount of rows erases messages |
| Orchestrator (`virage-core/src/core/orchestrator.ts`, `uploader.ts`, `embedder.ts`) | staged chunks and revisions in SQLite, the rows of the store, embed chain, in-memory queues | scan, guard, delete, chunk in a worker pool, stage, embed, upload, clean up | promise chains with back pressure, runs that resume what an earlier one staged, two records of what is indexed (the store and `file_revisions`) |
| Semaphore and retry (`virage-core/src/core/utils.ts`) | permits, waiters | acquire, release, retry | lost permits, retry of what succeeded |
| Telemetry (`telemetry/flusher.ts`, `session.ts`, `cli/telemetry.ts`) | session rows, event rows, the flag of a flushed session | open, record, flush, retry, close, switch off | several processes flushing one session, answers that never come, an opt-out under running servers |
| Query daemon (`query-daemon.ts`, `server.ts`, `query_serve.rs`) | FIFO of callers, timers, the child process | search, answer, time out, die, respawn, fall back | late answers, deaths between a write and its answer |
| Context hook (`inject-context.ts`, `session-state.ts`) | the hashes a session was shown | load, search, cut, save, print | overlapping prompts, kills between save and print, reads and saves that fail |
| Dashboard (`dashboard.ts`, `WebSocketContext.tsx`) | project list in memory and on disk, pushes, sockets, the running operation | add, switch, push, connect, reconnect, operate | overlapping requests, late pushes, lost sockets |
| CLI set-up (`init.ts`, `migrate.ts`, `update.ts`, `install-hooks.ts`, `skills.ts`, `plugin.ts`) | the configuration and its backups, installed packages, hooks, skills and their manifest | wizard, rotate, write, migrate, update, pin, sync, uninstall | kills between two files, users who edit the same files |
| Evaluation suite (`suite-runner.ts`, `archive.ts`, `plugin-install.ts`) | archive cache, plugin cache, progress file, experiment table | download, extract, install, evaluate, save, resume | kills everywhere, edits of the suite between runs |
| Quality (`quality/runner.ts`, `history.ts`, `quality/*.rs`, `history/mod.rs`) | report, history, badge, feed | sample, measure, gate, score, report, prune | early stops, measures that are missing, boundaries of the sample |
| Configuration, plugins of the engine | none after start | resolve providers and fileSets | fallback order |

The components talk to each other like this. A command loads the configuration,
opens the state DB and the store and calls `run_pipeline`. The pipeline asks the
sources what exists, compares it with the known revisions, deletes rows of
removed files and hands changed files to workers. Workers read through the
source, chunk, embed and send results to the coordinator, which alone writes the
store. The command then writes what was processed to the state DB and prunes the
entries of files that are gone. The next command trusts that DB: whatever it
wrongly calls unchanged is never indexed again. That is why most properties
below relate the DB, the store and the tree.

## Modules

* `Concurrency`: the strategies as operators. `Throttle` lets the memory
  drift one MB at a time and asks what the worker count does.
* `Pipeline`: one `run_pipeline`. Each task is a process: the coordinator
  (`phase`, `batch`, `pending`), the feeder (`unfed`, `feeder`) and the workers
  (`wpc`, `witem`, `wsent`, `wsize`). The channels are bounded sequences, `rx`
  is the holder of the mutex around the work receiver. A step ends where the
  code awaits or takes a lock. A result's chunks enter the batch one by one, as
  in the code, so a batch boundary can fall anywhere in a file. Every call that
  can fail has an action for the failure; an upsert or delete that fails may
  have had any part of its effect.
* `PipelineProofs`: the theorems about `Pipeline`.
* `Indexing`: successive commands. The run inside a command is taken at the
  granularity that `Pipeline` justifies: deletions first, chunks one by one in
  any order, a file finished after its last chunk, every changed file finished
  or given up when the run returns. `Abort` stands for any error returned with
  `?` and for a killed process. `IndexingProofs`: its theorems.
* `Orchestrator`: successive `Orchestrator.run()` calls of the TypeScript
  pipeline. SQLite is `staged`, `revs` and `meta` (tables `chunks`,
  `file_revisions`, `meta`); `stores` holds the rows. Inside a run, `todo` and
  `busy` are the worker pool of `withConcurrency`, `permits` and `waiters` the
  semaphore, `chain` the promise chain whose first job runs, `step` where that
  job (or the final flush) is, `pendingEmbed` and `pendingUpload` the queues.
  One step is what runs between two awaits. `JobFails` is an error inside the
  chain, `StoreFails` and `Crash` an error or a kill outside of it, `Killed` a
  kill between two writes of one step. `getCurrentState` scans an unordered
  table and the last row of a file wins, hence the choice in `Scan`. `tree` and
  `cfg` change between runs only. A store without `deleteOrphanedChunks` or
  `existingHashes` is modelled by two constants. The models have vectors of one
  size, so the store's table is never dropped for its schema.
  `dropped` (history) are the files last staged without some of their chunks,
  because the chunker or the embedding of one failed; their chunks are not missed.
* `OrchestratorProofs`: types, semaphore, no stale rows, nothing missing.
* `StagedRun`: the two stages of the same pipeline when a program calls them one
  after the other. A text stands for its hash; `embedJob` and `uploadJob` are the
  two calls under way, batch by batch.
* `Embedders`: the three embedding providers behind `embedBatch` and `withRetry`,
  with calls side by side. A vector is the sequence of its components, each named
  by the text and model it was computed from, so a vector cut, mixed up or taken
  from another model shows.
* `GitSource`: `head`, `gitIndex` and `work` are the last commit, the index and
  the working tree, which users change between the calls of a scan; `unsure` are
  the files about which the running scan was disturbed, `tainted` those an earlier
  one was. `GitSourceProofs`: its theorem.
* `VectorStores`: the eight stores (four backends in two languages) behind one
  interface. `held` is what the backend holds and `asked` what its callers were
  told it holds; `call` is the call under way, whose batches land one by one and
  which may fail after any of them. The backends differ in the operators named
  after them: how a duplicate id is treated, whether a search filters before or
  after it cuts, how a page that fails is read, when the full text index exists.
  Scores are ranks, since fusion uses nothing else.
  `ComponentsProofs`: theorems about it, `EvalSuite`, `Throttle` and `Quality`.
* `WindowWalk`: the loop that all chunkers end in, in Rust and TypeScript. The tree
  is its nodes in depth-first order; a text is its leaf and the characters of it.
* `EvalSuite`: one `runSuite` after another over what they leave on disk. A kill is
  possible at every step; between runs the suite is edited and archives are
  published anew.
* `Quality`: an assessment in either language: sample, components, gates, scores,
  status, and the files a report is written to, one after another. Where the code
  bounds a measure whatever the corpus is, so does the model: `Completeness` by the
  fields that chunks have, `IntrinsicDimension` by the 64 components that are looked at
  and by the size of the sample, `Uniformity` by the six vectors it needs. In
  TypeScript a corpus without fault fails when it has imports, and nearly always
  when a reranker is configured.
* `QueryDaemon`: callers, the handle with its queue and timers, and the
  `query-serve` process with its pipes. `SearchService` is what it promises: each
  caller waits, gets the rows of its own query, is served by a one-shot process, or is
  lost with the server.
  `ImplementsService` is the refinement; `inStep` says that no answer to a request
  that timed out is still to come, without which the promise does not hold.
* `DashboardProjects`: the project list, its file, overlapping requests and pushes.
  `DashboardSocket`: pages, their sockets and the server's operation guard.
* `ServicesProofs`: theorems about the daemon and about the operation guard.
* `Telemetry`: MCP servers and commands as processes over one database, with
  requests in flight (`TelemetryProofs`).
* `ConfigFile`: the wizard (`wizard`) and the commands that write the configuration
  (`cmd`), file operation by file operation. `PluginUpdate`: installed copies by
  place, the pin, hooks and MCP entry of the agent. `AgentFiles`: git hooks by
  paragraph, skills and their manifest. `ContextInjection`: the hook that runs on
  every prompt; its results are a function from rank to chunk, and dropping those
  that were given before leaves gaps where the code moves the rest up, which only
  their order would tell; reads and saves of its file may fail, and `forgotten` is
  what such a failure kept from the file. `SetupProofs`: theorems about these
  four and `MenuPrompt`.
* `MenuPrompt`: the list prompts of the wizard, key by key. `ProgressDisplay`: the
  terminal as rows, the section redrawn in place below the messages.
* `MCPipeline`, `MCIndexing`, `MCOrchestrator`, `MCStaged`: small instances. `MCComponents`,
  `MCSetup` and `MCServices` hold components that share no state; `focus` picks the
  one a behaviour follows, the others stay where they began.

A definition whose comment begins with "Faulty variant" is a plausible mistake in
the definition after it; `PROJECT.json` says which property notices it.

A source item is its place in the listing; names, texts and vectors are model
values. A chunk id is an opaque value that two files may share, because the code
hashes the text alone. Revisions are contents in `Indexing`, because a revision
is the hash of the content. Tags, token counts and the symbol index change no
control and are left out.

## Runs

Passing runs:

| Run | Question | Bounds |
|---|---|---|
| `components` | throttle: is the count between one and the workers spawned, does it follow the memory, is it free of cliffs | counts unset, 0, 1, 3, 8; hosts of 0, 200 and 1000 MB; four pairs of watermarks, one inverted |
| | stores: does a store hold what its callers were told, do searches answer from it and completely, are reads honest, is the keyword index rebuilt, is the meta row never an old one | four documents of two files, one id in two revisions, tags that `LIKE` confuses; batches and pages of two, so a call has several; every call may fail partway |
| | suite: are only whole archives used, is the report complete and of this suite, is finished work kept | three variants of one run directory, one skipped; one edit or publication, one kill |
| | quality: is the sample spread, does an early stop fail, does a perfect index pass, is a report that was announced in the history, is the badge never ahead | samples of six from 0, 2, 5 and 9 chunks, vectors of 6 and 384 components, one component of the first run below its best and none of the second; a history of one; two runs, one kill |
| | embedders: does each text get a vector of its own, is the cache of one model and its file honest | two callers side by side, models of three components, one or two asked for (two being the default), a cache of one entry, two models, two errors and one restart |
| | staged API: is what was embedded stored once, of its own file and embedding space, and is nothing dropped before it is stored | two files that change, batches of two items or two characters, two changes, four jobs, two models, two stores, one loss |
| | walk: is every character in a window, are sections kept apart, is the size bounded, do windows advance, do ranges and siblings fit | up to four nodes: headings of two levels, short, wide and oversized texts, code; windows of three tokens; overlap 0 and one half |
| `pipeline` | is what a run reports processed stored, what it gave up not reported, every file counted once, does the run return and do its tasks end under the throttle | four files (two chunks, one shared chunk, two empty), two workers, one slot per worker, micro-batches of two or one, upserts of two: both channels fill, files span several micro-batches, batches mix files; two items may panic; four files are one more than channel and worker hold, so the feeder may wait for a gated worker: the run reaches the stall that `EventuallyQuiet` excepts by name (`Stalled`) |
| `index_faults` | is what the DB records stored, does a clean command leave every file findable, does everything become searchable once edits and failures stop | three edits, two failures or crashes, normal, forced and watching commands |
| `index_removals` | do rows of removed files go, are files that come back indexed, is the reconciliation from the store right when no command failed | three edits, removals of both files, the DB lost twice (rows of removed files are followed only while the DB was never lost) |
| `index_mid_run` | an edit during the command and one failure | one edit, one failure |
| `orchestrator` | are permits kept, does every run end, is every file searchable after a run without error whatever failed before, are old rows cleaned up | two files, one with three successive versions that share chunks; two chunk workers, one permit (so workers wait), embed and upload batches of two (so a batch mixes files and the last one is partial); three edits, one change of model, one failure or kill; normal, no-upload and dry runs; a deletion of both files meets the guard |
| `setup` | does a configuration survive kills, does the wizard end complete, does an update reach the copy in use, are hooks and skills installed once, current and removable, is a chunk shown once where its session file can be read and saved, and what is remembered shown; does a scan record the revision of what it read; do prompts take what they show ticked; does the display write each message once and leave no part of an old table | as many kills as backups; two versions; two skills; two prompts that may overlap; two git steps and one failed call, three files (one ignored by git, one not covered); menus with separators and disabled entries; two messages on displays on which the model line or a row of the table wraps, and two rows at most that the line leaves |
| `services` | does the daemon implement the search service, does every search return, are projects unique and the active one as asked, does the page catch up, is an operation sent once and does it end | three callers, three time-outs, two spawns; two pages with two sockets each, two operations; three projects in a list of two, two requests and two pushes that overlap |
| `telemetry` | is no cleared session sent after an opt-out, was what is flagged received, which rows are never sent or left behind, does a server end | one server and one command (a command with a session or `telemetry flush`) that may crash at any await, and four requests in flight, as many as they can have; requests and answers are lost; an opt-out may fail at any of its deletions |

Most properties of `components`, `setup`, `services` and `telemetry` are conjunctions, one
part per way the component can go wrong, each with its own comment in the module:

| Property | Parts |
|---|---|
| `ContentsAsAsked` | table as asked (`HoldsWhatWasAsked`), keyword index (`KeywordIndexFresh`), meta row (`MetaNeverStale`) |
| `AnswersSound` | searches (`SearchSound`, `SearchComplete`), lookups that spare a re-upload (`ReadsHonest`) |
| `ReportSound` | only whole archives are used (`WholeArchives`), every variant once (`ReportComplete`), of this edition (`ResultsOfThisSuite`), backed by a saved run (`DoneWasSaved`) |
| `AssessmentSound` | `SampleIsSpread`, `EarlyStopFails`, `PerfectPasses`, and `ReportsListed` (`ExitedRunListed`, `BadgeBehindReport`) |
| `EmbeddersSound` | `OwnVectors`, `CacheHonest` |
| `StagedSound` | an action property: every step keeps `NothingDropped` and leads to `OneSpace`, `RunComplete`, `BatchesFit` and `FilesWhole` |
| `ScanFaithful` | `RevisionNamesContent`, `QuietScanSeesAll` |
| `TerminalSound` | `MenuSound`; `MessagesKept`, `NoLeftovers` and `EndsClean` of the display |
| `WindowsWellFormed` | `NothingLost`, `OneSection`, `SizeBounded`, `WindowsAdvance`, `RangesHoldTexts`, `BreadcrumbIsAncestors`, `SiblingsResolve` |
| `ConfigSound` | `ConfigSurvives`, `WizardComplete` |
| `InstalledParts` | `OneHook`, `HookOnce`, `SkillsCurrent`, `NoLeftoverSkill` |
| `UserTextKept` | `UserHooksKept`, `UserParagraphsKept` |
| `ContextGiven` | `ShownOnce`, `RememberedWasShown`, `NothingWithheld` |
| `ProjectsAsAsked` | `NoDuplicateProjects`, `ActiveAsAsked` |
| `OperationAccounted` | `SentOnce`, and that a running operation is somewhere (`Owed`) |
| `DashboardCatchesUp` | `PageCatchesUp`, `OperationEnds` |
| `RowsAccounted` | `FlaggedWasReceived`, `UnsentWereLate`, `StrayRowsOutliveOptOut` |

The first conjunct of one property per module is its type invariant.

Runs that find the code at odds with what it or its documents say (each is a
finding of `PROJECT.json` with the line quoted):

| Run | What happens |
|---|---|
| `index_reconcile` | after a first command that failed, the reconciliation takes a partly stored file for known |
| `orchestrator_revert` | a paragraph is deleted, indexed, restored and indexed again: the remaining rows still carry the first revision, the file counts as unchanged, the paragraph is gone from the store |
| `staged_sweep` | with the staged API the rows of a changed file are uploaded and unstaged on the way; the sync that should sweep the old chunks sees none of them staged and sweeps nothing |

The modules show more under other constants, which no run keeps: a path that two
fileSets list is recorded though one of them gave it up (`Path` with a repeated
value); a command killed between the delete and the prune skips the file when it
comes back (`Removable` and `MaxFaults` together); `no_upload` in `Modes` records
what was not uploaded; an edit between the listing and the read that is undone
later hides the first content (`EditDuring` with two edits); files taken from the
reconciliation are skipped and not written to the DB; `--force` leaves the rows of
removed files (`force` and removals); watch mode deletes the rows of a removed
file and keeps its DB entry, so the file is skipped when it is saved again
(`watch_event` and removals); a row that two files share goes away with one of
them (`ChunksOf` with a shared chunk); with several sources removed files are
deleted under a key no row has (`Key` with qualified values).

The `pipeline` run reaches one state the code cannot leave, which its liveness
property excepts by name (`Stalled`): worker 0 is gone after a panic, the memory
stays low, so the other workers stay gated until `feeder_done`, and the feeder waits
for a slot that only they could free; `run_pipeline` never returns. When worker 0
left because the coordinator had returned early, the other tasks outlive the run in
the same way.

Of the TypeScript pipeline: a run killed after `clearAll`, or a `--no-upload` run,
takes the record of the old model away, and the next run leaves vectors of the old
model in the store; a forced run killed after its deletions leaves an
index that the next normal run takes for complete (`force` and a fault); another
vector store is configured and nothing is uploaded to it, because
`file_revisions` calls every file unchanged (`Configs` with two stores); `--force`
confirms a mass deletion without removing the revisions, so the next normal run
is refused again; a removed file that comes back after a kill between the delete
of its rows and of its revision is not indexed (`Edits` that restore a file). In
the runs kept, edits go forward only, `force` is not among the modes and there is
one store, so that what the passing run shows is not mixed with these.

The bounds are the smallest at which the cases above happen: two workers are
enough for one to be gated while the other works, two slots per channel for both
to block, two chunks for a file to be half stored, two versions for a file to
change and change back.

Fairness. `Pipeline!FairSpec` gives weak fairness to each task: tokio polls every
task that can run. Nothing is assumed of the memory samples (a gated worker may
sleep and wake for ever) or of the outcome of a call. `Indexing!FairSpec` gives
weak fairness to the command as a whole: commands are run again by a hook or a
CI job, and a running command goes on. `Orchestrator!FairSpec` gives weak
fairness to the body of `run()`, to the embed chain and to each chunk worker:
Node runs every callback that is ready. Nobody is obliged to call `run()`. Edits, failures and crashes are bounded
by counters, so "once they stop" is what the liveness run means.

Of the other components: an answer that comes after its time-out shifts the answers
of the daemon by one caller; a request written to a `query-serve` that has died and
whose exit was not seen ends the server, because nothing listens to errors of its
stdin; overlapping prompts of one session lose hashes, and a save that fails is
swallowed, so its chunks are given again; a model line wider than the terminal
leaves a row on every tick of the display, because the carriage return goes to the
start of its last row; a lost
socket leaves the page showing an operation for ever; headings that skip a level
nest siblings; a short last window is merged with its overlap, so text stands in a
chunk twice; a killed `npm install` leaves modules that count as installed; an
unreadable configuration is taken for none by `telemetry on`; an archive published
anew under its URL is not fetched again; rows recorded while a telemetry summary is
on its way are flagged with it, and never sent when no other flush of the session
comes; `telemetry off` reports success when its clearing failed, and servers go on
posting; a server that loaded the configuration before an opt-out opens its session,
and posts, after it. The properties that except such a case say so in
their comment; the hazards of `PROJECT.json` name the lines of the most important.

Smaller disagreements that were met and have no run: messages logged while the
display is a single line are dropped when it stops, although `bin/virage.ts:83-84`
says they appear above it; a query daemon that dies is said to make the caller fall
back (`query-daemon.ts:13-16`), and can end the server instead; the staged API keeps vectors of the old model that
were uploaded before a change of model; a model that fails to load stays failed for
the life of the process, because the promise of the load is kept
(`virage-embedder-transformers`, `embedder.ts:66`); its `dimensions` is described as
auto-detected and is 384 unless given; `dimensions` of `virage-embedder-fastembed`
is documented as the output dimensions (`embedder.ts:9`) and only stored (line 51),
so its vectors have all components of the model; `vector-store.ts:99-104` has label
filters applied in the WHERE clause where there is one, and the PostgreSQL store
cuts to `topK` first and filters after (`store.ts:306-311`), so a labelled match can
be missing although it would have been among the first.

Fairness of the services: sockets open or fail, timers fire, messages arrive,
processes that run read their input or exit; a hung `query-serve` is not obliged to
answer. For telemetry the event loop of a server goes on and the time-out of a
request fires. No fairness is assumed of users, kills, losses or the endpoint.

## Proofs

`PipelineProofs` proves, for every number of files, workers and chunks, every
capacity, batch and micro-batch size and every strategy the constructors can
build:

* `TypeCorrect`: `Spec => []TypeOK`, including that neither channel outgrows its
  capacity and the batch stays below `upload_batch_size`;
* `ProcessedFilesAreStored`: `Spec => []ProcessedStored`.

The second is not inductive. It looks only at the end of a successful run, and
what makes it true is where each chunk is before that. `Streaming` says it: every
chunk that a worker has sent is in the store, in the batch, in the part of a
received result still to be pushed, or in the result channel
(`WorkersStream`); the chunks of a file are ahead of its final marker
(`MarkersFollow`); a file whose marker has been received has all of its chunks
past the channel (`FinishedArrived`); and after the last flush nothing is left in
the batch (`NothingLeft`). The positions matter: an unordered channel would not
preserve it. The proof has a lemma per group of actions, and one for each way a
chunk can move (from the head of the channel to `pending`, from `pending` to the
batch, from the batch to the store); that an upsert stores every id of the batch
although duplicates are dropped is `UpsertedRows`, which needs the first of a
non-empty set of positions (`LeastNat`).

It goes on from there:

* `EveryFileIsCountedOnce`: `Spec => []EveryFileCountedOnce`;
* `FailedFilesAreNotRecorded`: `Spec => []FailedNotRecorded` when no two items share
  a path or a key. The hypothesis is needed: `to_process_keys` keeps one key per
  path, and with a repeated path the property fails, as said above.

Its invariant `Counted` says where a queued item is: with the feeder, in the work
channel, with a worker, in a final marker, finished or given up, in one place
only (`OnePlace`) and there once (`OnceEach`), and `done` is the number of the last two
(`DoneCounts`). That none is missing at the end (`NoneMissing`) is the interesting
part: items in the work channel are lost if every worker leaves early, and what
prevents it is that no strategy answers less than one worker
(`CurrentWorkersBounds`), so the worker with index 0 leaves only a closed and empty
channel (`FirstWorkerStays`).

The assumptions are those of `Pipeline`: the sizes are natural numbers,
positive where the code's constants are; the strategy is one the constructors build;
the listing and the initial rows are well formed.

`IndexingProofs` is about successive commands, for any files, contents, keys, start
trees and any number of edits, failures and crashes:

* `RecordedRevisionsAreStored`: `Spec => []RecordedStored` under `Steady`: files are
  not removed, change between commands only, and every command uploads. The state
  DB may be lost any number of times. Each condition is needed; what happens without
  it is listed under the runs.
* `CleanRunsAreComplete`: `Spec => []CleanRunComplete` under `Steady` and `Warm`: the
  DB begins with an entry and is not lost. Without `Warm` a command reconciles from
  the store, which is the finding of `index_reconcile`.

* `NoRowOfAGoneFile`: `Spec => []NoOrphans` under `Undisturbed`: nothing fails or
  changes while a command runs, commands are normal or `--no-upload`, and a file is
  known under its own path. Files may be removed and come back. Each condition is
  needed: `--force` and watch mode leave rows of removed files, a command killed
  between the delete and the prune too, and with several sources the deletion looks
  for a key that no row has.

`Recorded`, the invariant of the first, says that the command still sees the tree it
listed (`SeenIsTree`), that every entry of the DB is about a listed file
(`DbListed`, so that nothing recorded is deleted: `DeletesNothing`), and follows the
chunks of a file from the read (`StreamsUp`) to the final marker (`FinishedUp`), with
any step followed by `Abort`. `Complete` adds that what was skipped is what the DB
records (`KnownIsDb`, `SkippedUp`). `index_faults` is an instance of both hypotheses.
`Owned`, the invariant of the third, is about the other direction: while the DB was
never lost, it knows between two commands the file of every row (`RowsKnown`), so
that the next one finds it among the known revisions (`KnownIsRecorded`); once a
command has deleted, every row is of a listed file (`RowsListed`).
`index_removals` is an instance of `Undisturbed`.

`OrchestratorProofs` is about any set of files, contents and edits, any number of
workers, permits, runs, edits and faults, and any batch sizes:

* `PermitsConserved`: `Spec => []BackPressure`. Free permits and jobs in the chain
  add up to `maxPendingFiles`, and a worker waits only when no permit is free. The
  invariant `PoolInv` adds what release needs: a job that is being worked on is
  still the first of the chain, and no step is under way outside of the two phases
  that embed (`JobHeld`).
* `TypeCorrect`: `Spec => []Types`.
* `NothingStale`: `Spec => []NoStaleRows` under `NothingReturns` and `Unforced`.
* `NothingMissing`: `Spec => []Searchable` under these two, `OwnHashes`,
  `StoreTells` and `MaxSwitches = 0`, with any number of failed batches, failed
  uploads and kills, also in the middle of a step.

The hypotheses, and what happens without each:

* `NothingReturns`: the edits of a file can be numbered so that the number grows. A
  file that goes back to a version it had, while rows of that version and of
  another are stored, may be taken for unchanged: the finding `orchestrator_revert`.
* `Unforced`: a forced run uploads staged rows of a file that is gone, and one killed
  after its deletions leaves an index that the next run takes for complete.
* `OwnHashes`: a chunk that two files share has one row, under one of their names;
  replacing that file's chunks takes it from the other.
* `StoreTells`: without `existingHashes` or `deleteOrphanedChunks` the run cannot
  know which rows to keep.
* `MaxSwitches = 0`: with one change of model and two faults `Searchable` fails. The
  run that embeds for the new model uploads part of a file and fails, the model is
  changed, `begin` clears the staging tables (`orchestrator.ts:154`), the process is
  killed, and the next run finds the revision in the store and skips the file. One
  fault is not enough, which is why the run `orchestrator`, with one, passes with a
  change of model.

The edits of the run `orchestrator` go forward, and it has no forced run, no shared
chunk and a store that tells: an instance of all but the last.

`FreshInv`, the invariant of `NothingStale`, has two parts. `Knowledge` holds
whatever fails: no trace of a file in the store or the staging tables is newer than
the file (`NotNewer`), what is queued, staged or being replaced is of the version
the run saw (`QueuedCurrent`, `StagedCurrent`, `Replacing`). `NothingReturns` is
used here: an edit leaves no trace of the version it leads to. `Fresh` holds until
the first fault: between runs, a file with rows of an older version has none of the
present one, so that whichever row the scan takes it finds the file changed
(`BetweenRuns`); while a run uploads, such a file is about to be deleted or chunked,
or waits for the removal of its orphaned rows (`WhileUploading`). `CoveredInv`, the invariant
of `NothingMissing`, says where a chunk is: a file whose contents are known anywhere
has every chunk stored, staged or queued (`KnownKept`), until the final flush each file
is on its way or kept (`OpenOrKept`), a staged chunk is on its way to the store
(`StagedCovered`), after the flush it is there (`FlushedAll`), and
`deleteOrphanedChunks` is told all hashes of a file (`HashesWhole`), so it takes none
that is needed. Batches are cut by size from sequences without a bound, so the
proofs need an induction over numbers; `Induction` does it for a set instead of a
predicate, from the library's fact that a finite set has no injection into a proper
part of itself. The assumptions are those of `Orchestrator`.

`GitSourceProofs` proves `ScansAreFaithful`, `GitSpec => []ScanFaithful`, for both
repositories and any interleaving of edits, stagings, commits and failed calls with
the calls of a scan. What a scan recorded is explained by answers git gave at
different times, so `IInv` says of each answer what it is still worth for the files
nobody touched since: the listing (`ListHolds`), the status (`StatusHolds`), the
tree of the commit (`TreeUnread`, `TreeWaits`, `TreeHolds`), the hash (`HashHolds`),
the revisions made of them (`RevisionsHold`). `GitAssumption`: the mark of a missing
file is no content, and ignored files are files.

`TelemetryProofs` proves `EveryRowIsAccounted`, `Spec => []RowsAccounted`, and the
action property `NothingPostedAfterOptOut`, `Spec => OptOutHolds`, for any servers
and commands. `IInv` ties the flights to the rows: what arrived is received, all of
it when nothing was recorded since (`ArrivedIsReceived`), what a summary on its way
lacks was recorded late (`MissingIsLate`), a process that still writes has its row or
outlived an opt-out (`WritersHaveRows`), an ended one is silent (`EndedIsSilent`), a
process that only loaded its configuration has neither rows nor summaries
(`OnlyOpened`), and a session that was opted out has no row to build a payload from
(`OptedOutHasNoRow`).

`ServicesProofs` proves `OperationsAreAccounted`,
`SocketSpec => []OperationAccounted`, for any number of pages, sockets and
operations. `SocketInv` gives the operation of a page one place (`Place`: waiting for a
connection, on its way, in the server, on its way back) on the one socket that
carries it (`UnderWay`); several sockets of a page may be connecting, and that only
one `onopen` finds something to send is `PendingOK`. `SocketBounds`: at least one
socket.

It proves `EveryWaiterIsOwed`, `DaemonSpec => []WaitersAreOwed`, and
the refinement `DaemonImplementsService`, `DaemonSpec => ImplementsService`: the
initial state maps to one of `SearchService`, and each action to one of its steps or
to a stutter. The invariant says that the queue, without those that gave up, can be
embedded in order in the requests and answers still in the pipes (`Placed`); the
witness function is what each action's proof moves (`DaemonInv`). `DaemonBounds`: the bounds are
numbers.

`SetupProofs` is about what is kept in files that a kill can leave half written:

* `ConfigurationSurvives`: `ConfigSpec => []ConfigSound`, for any number of backup
  places and of commands. `ConfigInv` says what a kill can cost: at most one copy
  each. A rotation moves the backups up one place at a time, so there is a gap in
  front of the one to move next (`GapFollows`); the last good configuration is in a
  place not beyond the number of kills, or one further when the rotation under way
  has pushed it (`Pushed`). TLC checked
  `ConfigInv` with two places exhaustively, and over 32 million states with three.
* `UpdatesReachTheCopyInUse`: `PluginSpec => []UpdateReachesTheCopyInUse`, for any
  number of versions and any set of installed copies.
* `SessionsAreGivenTheirContext`: `InjectSpec => []ContextGiven`, for any number of
  prompts, chunks and chunk sizes. `InjectInv` follows a chunk from the memory of a
  process to its print (`Given`, `Remembered`), also when processes overlap or fail to
  read or save; as long as none overlap, the temporary file is the text of the one
  process that writes it, and a chunk that was given is in the session file or was
  `forgotten` (`OneByOne`). That what is remembered was shown needs a number of the code: the
  budget holds `DEFAULT_TOP_K` chunks cut to `CHUNK_CHAR_LIMIT` (`AllFit`).
* `SkillsFollowThePackage`: `AgentSpec => [](SkillsCurrent /\ NoLeftoverSkill)`, two
  parts of `InstalledParts`, for any skills and any number of versions and kills. What
  makes it true is `RecordedIsOnDisk`, part of `SkillsInv`: a file whose recorded version
  is that of the package is on disk in it. A sync that was killed may have cut or
  replaced others, but those have another version in the manifest, so that the next
  sync copies them again. TLC checked a slightly weaker invariant on 14,953 states.

It is also about what is not kept in files:

* `PromptsTakeWhatTheyShow`: `MenuSpec => []MenuSound`, part of `TerminalSound`, for any
  lists and any keys. `MenuInv` needs that the search for the next entry, which goes
  around the list, comes past every entry before it gives up.

`ConfigAssumption`: there is a backup place, and the stub is none of the choices of
the wizard. `VersionAssumption`: there is a version. `InjectAssumption`: the marks of
the temporary file are no processes, the index is finite, and texts have a length.
`AgentAssumption`: a version of the package has a number from 1 on. `MenuAssumption`:
a list that is offered has entries, as those of the wizard have: detected file types
are offered only when there are any, the other lists have built-in entries.

`ComponentsProofs` is about components whose calls land piece by piece, and about the
throttle:

* `StoresHoldWhatWasAsked`: `StoresSpec => []ContentsAsAsked`, for the eight stores,
  any finite set of documents and any sizes of batch and page. A call may fail
  after any request, be repeated or be given up, and the process may be killed.
  `Follows` is the heart of `StoresInv`: what the requests still to be sent make of the
  table is what the call wants, whatever has landed. For the TypeScript Postgres
  table, whose rows have serial keys, only half of it holds: it keeps at least what was
  asked. `Keywords` says what a build of the keyword index has read so far, and that
  an index that counts as fresh has no write under way.
* `ReportsAreSound`: `SuiteSpec => []ReportSound`, for any list of variants, any edits
  of the suite, publications, failed extractions and kills. The variants may share
  names and run directories, which those of the run do in part.
* `ProgressIsKept`: `SuiteSpec => NoWorkLost`, an action property. `Underway` is what both
  need: a command has a result of every variant it passed, in order, and what is
  saved is a start of its results. `Archives`: a directory that is used was extracted
  to the end, because it is renamed into place.
* `AssessmentsLeaveATrail`:
  `QualitySpec => [](SampleIsSpread /\ EarlyStopFails /\ BadgeBehindReport)`, three parts
  of `AssessmentSound`, for any number of chunks, any size of the sample and of the
  history, and any kills. That the sample has no chunk twice is arithmetic:
  positions at even distances of at least one differ after the division
  (`SampleSpreads`). For the badge `Trails` says that the reports of a tool are in the
  order of their runs, although the engine may give two runs one time and replace the
  first, and `Reporting` that the report of a command that writes feed or badge is
  there and is the newest. It is the newest that the cut of the history must keep
  (`PruneKeepsNewest`), which it does as long as the history holds one report at all.
* `ThrottleFollowsMemory`: `ThrottleSpec => FollowsMemory`, an action property, for any
  counts, hosts and watermarks: the workers stay between one and those that were
  spawned, never fewer with more memory and never more with less, and a step of one
  MB changes their number by one at most if the watermarks leave an MB for each. It is
  the rounded line between the two watermarks (`Scaled`), with a product in it, so its
  growth and its slope are lemmas of their own.

TLC checked `StoresInv` on 120,587 states and `SuiteInv` on 871,956 (four variants), both
exhaustively, and `QualityInv` on 3,906,837 (three runs, a kill, a history
of two).
`StoresAssumption`: the documents are finitely many, batches and pages
hold something. `SuiteAssumption`: the variants are a list, the bounds are numbers.
`QualityAssumption`: the sizes are numbers, vectors have two components or more and a
history holds at least one report.
`ThrottleAssumption`: counts, sizes of hosts and watermarks are natural numbers.

Only model-checked, and why:

* what is computed by a fold, by `SelectSeq` or by a sort, of which the prover
  knows nothing or which are inductions over data: what searches answer
  (`AnswersSound`), the window walk, the embedders, the scores of the quality
  assessment and the listing of its history (`PerfectPasses`, `ExitedRunListed`), the
  staged API, the project list of the dashboard, the hooks of the agent and of git
  (`OneHook`, `HookOnce`, `UserTextKept`), the display;
* liveness (`EventuallyQuiet`, `Converges`, `RunEnds`, `EverySearchReturns`,
  `DashboardCatchesUp`, `ShutdownEnds`), which is beyond the prover.

## Not modelled, and the plan

`PROJECT.json` lists every component. Left out because they are sequential code
without state of their own: resolution of the configuration, the MCP tool dispatch,
the read-only endpoints and pages of the dashboard, argument parsing and plain
output. Left out because they are numeric or text processing: the embeddings
themselves, reranking, the ranking and text metrics, the format parsers.
Left out because they live outside of the program: git itself, the npm registry, the
foreign function glue of the plugins.

Worth adding: the migrations of both databases, the git and file-system sources of
the engine, and an abstract contract of a run, which `Pipeline` implements and
`Indexing` uses.

A theorem worth adding: `Searchable` across changes of model without faults.

------------------------------ MODULE Indexing ------------------------------
(***************************************************************************)
(* Successive `virage index` commands (crates/virage-engine/src/cli/       *)
(* index.rs, cmd_index) over a working tree that changes, the vector store *)
(* they write and the local state DB that remembers which revision of each *)
(* file is indexed.  A command reads the known revisions, runs the         *)
(* pipeline, records what was processed and prunes the entries of removed  *)
(* files; it can fail or be killed between any two of these steps.         *)
(*                                                                         *)
(* The pipeline run inside a command is taken at the granularity of what   *)
(* module Pipeline shows of it: the rows of removed files go first, then   *)
(* the chunks of changed files reach the store one by one in any order, a  *)
(* file is finished when all of its chunks did, and a run that returns Ok  *)
(* has finished or given up every changed file.                            *)
(* A revision is the hash of a file's content, so it is the content here.  *)
(***************************************************************************)
EXTENDS Naturals, FiniteSets

CONSTANTS
  Paths,       \* the files the fileSets may list
  Key,         \* path -> revision key: the path, or source:path
  Versions,    \* path -> the contents it may have
  ChunksOf,    \* content -> the ids of its chunks
  Absent,      \* the file is not in the tree
  NoRev,       \* no revision is known
  NoRow,       \* no row of the store has this id
  StartTrees,  \* the trees before the first command ...
  Indexed,     \* ... and whether they are already indexed and recorded
  Modes,       \* how `virage index` is run
  Removable,   \* the files that may be removed
  EditDuring,  \* files may change while a command runs
  MaxEdits,    \* bound: changes of the tree
  MaxFaults,   \* bound: failures and crashes
  MaxLosses    \* bound: times the state DB is lost

Contents == UNION {Versions[p] : p \in Paths}

Ids == UNION {ChunksOf[v] : v \in Contents}

Keys == {Key[p] : p \in Paths}

\* known_revisions has keys, or bare paths when it comes from the store.
KeySpace == Keys \cup Paths

ASSUME BoundsAssumption ==
  /\ MaxEdits \in Nat /\ MaxFaults \in Nat /\ MaxLosses \in Nat
  /\ EditDuring \in BOOLEAN /\ Indexed \in BOOLEAN

ASSUME ContentsAssumption ==
  /\ Modes \subseteq {"normal", "force", "no_upload", "watch", "watch_event"}
  /\ StartTrees \subseteq [Paths -> Contents \cup {Absent}]
  /\ NoRev \notin Contents /\ Absent \notin Contents
  /\ NoRow \notin [src : Paths, rev : Contents]

VARIABLES
  tree,      \* the working tree: path -> content
  store,     \* the vector store: id -> row
  db,        \* the state DB: key -> recorded revision
  phase,     \* where the command is; "idle" when none runs
  mode,      \* how the command was started
  known,     \* known_revisions
  seen,      \* the tree as the run listed it
  stage,     \* path -> what became of it in the run
  left,      \* path -> chunks read but not yet uploaded
  stale,     \* state DB keys to prune
  last,      \* how the last command ended with nothing given up, if it did
  edits, faults, losses

treeVars == <<tree, edits>>
runVars == <<mode, known, seen, stage, left, stale>>
counters == <<faults, losses>>
vars == <<treeVars, store, db, phase, runVars, last, counters>>

NoRows == [c \in Ids |-> NoRow]

NoFile == [p \in Paths |-> Absent]

Row(p, v) == [src |-> p, rev |-> v]

Init ==
  /\ tree \in StartTrees
  /\ IF Indexed
     THEN /\ db = [k \in Keys |->
                     LET p == CHOOSE q \in Paths : Key[q] = k
                     IN  IF tree[p] = Absent THEN NoRev ELSE tree[p]]
          /\ store = [c \in Ids |->
                       LET owners == {p \in Paths : tree[p] # Absent
                                                    /\ c \in ChunksOf[tree[p]]}
                       IN  IF owners = {} THEN NoRow
                           ELSE LET p == CHOOSE q \in owners : TRUE
                                IN  Row(p, tree[p])]
     ELSE db = [k \in Keys |-> NoRev] /\ store = NoRows
  /\ phase = "idle" /\ mode = "none" /\ last = "none"
  /\ known = [k \in KeySpace |-> NoRev]
  /\ seen = NoFile
  /\ stage = [p \in Paths |-> "none"]
  /\ left = [p \in Paths |-> {}]
  /\ stale = {}
  /\ edits = 0 /\ faults = 0 /\ losses = 0

----------------------------------------------------------------------------
(* The environment *)

\* A file is created, changed or removed.
Edit(p) ==
  /\ edits < MaxEdits
  /\ phase = "idle" \/ EditDuring
  /\ \E v \in Versions[p] \cup (IF p \in Removable THEN {Absent} ELSE {}) :
       v # tree[p] /\ tree' = [tree EXCEPT ![p] = v]
  /\ edits' = edits + 1
  /\ last' = "none"
  /\ UNCHANGED <<store, db, phase, runVars, counters>>

\* An ephemeral environment starts without the state DB of the last command.
LoseDb ==
  /\ losses < MaxLosses
  /\ phase = "idle"
  /\ db' = [k \in Keys |-> NoRev]
  /\ losses' = losses + 1
  /\ UNCHANGED <<treeVars, store, phase, runVars, last, faults>>

----------------------------------------------------------------------------
(* The command *)

\* store.current_state(): for every source file of a row, the revision of one
\* of its rows (the last one the scan meets).
CurrentState ==
  {f \in [KeySpace -> Contents \cup {NoRev}] :
     \A k \in KeySpace :
       LET revs == {store[c].rev : c \in {d \in Ids : store[d] # NoRow
                                                      /\ store[d].src = k}}
       IN  IF revs = {} THEN f[k] = NoRev ELSE f[k] \in revs}

DbKnown == [k \in KeySpace |-> IF k \in Keys THEN db[k] ELSE NoRev]

DbEmpty == \A k \in Keys : db[k] = NoRev

\* The state DB is read; --force starts from nothing, an empty DB from what
\* the store holds.  A watch event reads the DB alone.
StartIndex(m) ==
  /\ phase = "idle"
  /\ phase' = "list"
  /\ mode' = m
  /\ known' \in (IF m = "force" THEN {[k \in KeySpace |-> NoRev]}
                 ELSE IF DbEmpty /\ m # "watch_event" THEN CurrentState
                 ELSE {DbKnown})
  /\ UNCHANGED <<treeVars, store, db, seen, stage, left, stale, last, counters>>

Listed(t) == {p \in Paths : t[p] # Absent}

ListedKeys(t) == {Key[p] : p \in Listed(t)}

\* Known keys that no fileSet lists any more.
ToDelete == {k \in KeySpace : known[k] # NoRev /\ k \notin ListedKeys(tree)}

\* Faulty variant: a known file is skipped whatever its revision.
ListIgnoringRevisions ==
  /\ phase = "list"
  /\ phase' = "process"
  /\ seen' = tree
  /\ stage' = [p \in Paths |-> IF tree[p] = Absent THEN "none"
                               ELSE IF known[Key[p]] # NoRev THEN "skipped"
                               ELSE "queued"]
  /\ store' = [c \in Ids |-> IF store[c] # NoRow /\ store[c].src \in ToDelete
                             THEN NoRow ELSE store[c]]
  /\ UNCHANGED <<treeVars, db, mode, known, left, stale, last, counters>>

\* Faulty variant: removed files keep their rows.
ListWithoutDelete ==
  /\ phase = "list"
  /\ phase' = "process"
  /\ seen' = tree
  /\ stage' = [p \in Paths |-> IF tree[p] = Absent THEN "none"
                               ELSE IF known[Key[p]] = tree[p] THEN "skipped"
                               ELSE "queued"]
  /\ UNCHANGED <<treeVars, store, db, mode, known, left, stale, last, counters>>

\* run_pipeline lists the tree, detects changes and deletes removed files.
ListAndDelete ==
  /\ phase = "list"
  /\ phase' = "process"
  /\ seen' = tree
  /\ stage' = [p \in Paths |-> IF tree[p] = Absent THEN "none"
                               ELSE IF known[Key[p]] = tree[p] THEN "skipped"
                               ELSE "queued"]
  /\ store' = [c \in Ids |-> IF store[c] # NoRow /\ store[c].src \in ToDelete
                             THEN NoRow ELSE store[c]]
  /\ UNCHANGED <<treeVars, db, mode, known, left, stale, last, counters>>

\* A worker reads and chunks what the file contains by now.
ReadFile(p) ==
  /\ phase = "process"
  /\ stage[p] = "queued"
  /\ tree[p] # Absent
  /\ stage' = [stage EXCEPT ![p] = "streaming"]
  /\ left' = [left EXCEPT ![p] = ChunksOf[tree[p]]]
  /\ UNCHANGED <<treeVars, store, db, phase, mode, known, seen, stale, last,
                 counters>>

\* The file is gone by the time it is read.
ReadFails(p) ==
  /\ phase = "process"
  /\ stage[p] = "queued"
  /\ tree[p] = Absent
  /\ stage' = [stage EXCEPT ![p] = "failed"]
  /\ UNCHANGED <<treeVars, store, db, phase, mode, known, seen, left, stale,
                 last, counters>>

\* A chunk is upserted under its content's id, with the listed revision.
Upload(p, c) ==
  /\ phase = "process"
  /\ c \in left[p]
  /\ left' = [left EXCEPT ![p] = @ \ {c}]
  /\ store' = IF mode = "no_upload" THEN store
              ELSE [store EXCEPT ![c] = Row(p, seen[p])]
  /\ UNCHANGED <<treeVars, db, phase, mode, known, seen, stage, stale, last,
                 counters>>

\* The final marker, with every chunk in the store.
Finish(p) ==
  /\ phase = "process"
  /\ stage[p] = "streaming" /\ left[p] = {}
  /\ stage' = [stage EXCEPT ![p] = "finished"]
  /\ UNCHANGED <<treeVars, store, db, phase, mode, known, seen, left, stale,
                 last, counters>>

\* Reading or embedding fails; chunks already uploaded are not retracted.
GiveUp(p) ==
  /\ phase = "process"
  /\ faults < MaxFaults
  /\ stage[p] \in {"queued", "streaming"}
  /\ stage' = [stage EXCEPT ![p] = "failed"]
  /\ left' = [left EXCEPT ![p] = {}]
  /\ faults' = faults + 1
  /\ UNCHANGED <<treeVars, store, db, phase, mode, known, seen, stale, last, losses>>

Resolved == \A p \in Paths : stage[p] \in {"none", "skipped", "finished", "failed"}

\* How a command that ends now ended: its mode, if it gave nothing up and the
\* tree is still the one it listed.
Outcome ==
  IF seen = tree /\ \A p \in Paths : stage[p] # "failed" THEN mode ELSE "none"

\* run_pipeline returns Ok.  Watch mode leaves the state DB as it is.
EndRun ==
  /\ phase = "process"
  /\ Resolved
  /\ IF mode \in {"watch", "watch_event"}
     THEN phase' = "idle" /\ last' = Outcome
     ELSE phase' = "record" /\ UNCHANGED last
  /\ UNCHANGED <<treeVars, store, db, runVars, counters>>

\* Faulty variant: files given up partway are recorded too.
RecordFailedToo(p) ==
  /\ phase = "record"
  /\ stage[p] \in {"finished", "failed"}
  /\ db' = [db EXCEPT ![Key[p]] = seen[p]]
  /\ stage' = [stage EXCEPT ![p] = "recorded"]
  /\ UNCHANGED <<treeVars, store, phase, mode, known, seen, left, stale, last,
                 counters>>

\* Faulty variant: the revision is queried again when it is recorded.
RecordRequeried(p) ==
  /\ phase = "record"
  /\ stage[p] = "finished"
  /\ db' = [db EXCEPT ![Key[p]] = IF tree[p] = Absent THEN seen[p] ELSE tree[p]]
  /\ stage' = [stage EXCEPT ![p] = "recorded"]
  /\ UNCHANGED <<treeVars, store, phase, mode, known, seen, left, stale, last,
                 counters>>

\* set_file_revision for one of the processed files.
Record(p) ==
  /\ phase = "record"
  /\ stage[p] = "finished"
  /\ db' = [db EXCEPT ![Key[p]] = seen[p]]
  /\ stage' = [stage EXCEPT ![p] = "recorded"]
  /\ UNCHANGED <<treeVars, store, phase, mode, known, seen, left, stale, last,
                 counters>>

\* Faulty variant: nothing is pruned.
RelistForgets ==
  /\ phase = "record"
  /\ \A p \in Paths : stage[p] # "finished"
  /\ phase' = "prune"
  /\ stale' = {}
  /\ UNCHANGED <<treeVars, store, db, mode, known, seen, stage, left, last, counters>>

\* The tree is listed again: entries of files that are gone are to be pruned.
Relist ==
  /\ phase = "record"
  /\ \A p \in Paths : stage[p] # "finished"
  /\ phase' = "prune"
  /\ stale' = {k \in Keys : db[k] # NoRev} \ ListedKeys(tree)
  /\ UNCHANGED <<treeVars, store, db, mode, known, seen, stage, left, last, counters>>

\* delete_file of one of them.
Prune(k) ==
  /\ phase = "prune"
  /\ k \in stale
  /\ db' = [db EXCEPT ![k] = NoRev]
  /\ stale' = stale \ {k}
  /\ UNCHANGED <<treeVars, store, phase, mode, known, seen, stage, left, last,
                 counters>>

\* delete_file fails: the error is dropped and the entry stays.
PruneFails(k) ==
  /\ phase = "prune"
  /\ k \in stale
  /\ faults < MaxFaults
  /\ faults' = faults + 1
  /\ stale' = stale \ {k}
  /\ UNCHANGED <<treeVars, store, db, phase, mode, known, seen, stage, left, last,
                 losses>>

EndIndex ==
  /\ phase = "prune"
  /\ stale = {}
  /\ phase' = "idle"
  /\ last' = Outcome
  /\ UNCHANGED <<treeVars, store, db, runVars, counters>>

\* Any call of the command fails and is returned with `?`, or the process is
\* killed: the store and the DB keep what was written.
Abort ==
  /\ phase # "idle"
  /\ faults < MaxFaults
  /\ faults' = faults + 1
  /\ phase' = "idle"
  /\ stage' = [p \in Paths |-> "none"]
  /\ left' = [p \in Paths |-> {}]
  /\ stale' = {}
  /\ last' = "none"
  /\ UNCHANGED <<treeVars, store, db, mode, known, seen, losses>>

----------------------------------------------------------------------------
Command ==
  \/ \E m \in Modes : StartIndex(m)
  \/ ListAndDelete
  \/ \E p \in Paths : ReadFile(p) \/ ReadFails(p) \/ Finish(p) \/ Record(p)
  \/ \E p \in Paths : \E c \in Ids : Upload(p, c)
  \/ EndRun \/ Relist \/ EndIndex
  \/ \E k \in Keys : Prune(k)

Fault ==
  \/ Abort \/ LoseDb
  \/ \E p \in Paths : GiveUp(p)
  \/ \E k \in Keys : PruneFails(k)

Next == Command \/ Fault \/ (\E p \in Paths : Edit(p))

Spec == Init /\ [][Next]_vars

\* `virage index` is run again and again (by a hook or a CI job), and a command
\* that is running goes on until it ends or fails.
FairSpec == Spec /\ WF_vars(Command)

----------------------------------------------------------------------------
(* Properties *)

\* Every variable has its type: in particular a row never carries a revision
\* of a file that was absent, and the DB records only revisions of listed files.
TypeOK ==
  /\ tree \in [Paths -> Contents \cup {Absent}]
  /\ store \in [Ids -> [src : Paths, rev : Contents] \cup {NoRow}]
  /\ db \in [Keys -> Contents \cup {NoRev}]
  /\ phase \in {"idle", "list", "process", "record", "prune"}
  /\ mode \in Modes \cup {"none"} /\ last \in Modes \cup {"none"}
  /\ known \in [KeySpace -> Contents \cup {NoRev}]
  /\ seen \in [Paths -> Contents \cup {Absent}]
  /\ stage \in [Paths -> {"none", "skipped", "queued", "streaming", "finished",
                          "failed", "recorded"}]
  /\ left \in [Paths -> SUBSET Ids] /\ stale \subseteq Keys
  /\ edits \in 0..MaxEdits /\ faults \in 0..MaxFaults /\ losses \in 0..MaxLosses

Present(v) == \A c \in ChunksOf[v] : store[c] # NoRow

\* A revision the state DB holds has all of its chunks in the store: what
\* cmd_index records, in whatever order it crashes, was uploaded before.
RecordedStored ==
  /\ TypeOK
  /\ \A p \in Paths : db[Key[p]] # NoRev => Present(db[Key[p]])

\* After a command that gave nothing up, every file of the tree can be found:
\* each skipped one was complete already, each other one is by now.
CleanRunComplete ==
  phase = "idle" /\ last \notin {"none", "no_upload"} =>
    \A p \in Listed(tree) : Present(tree[p])

\* After such a command, unless the state DB was ever lost, no row is left of a
\* file that is gone.
NoOrphans ==
  phase = "idle" /\ last = "normal" /\ losses = 0 =>
    \A c \in Ids : store[c] # NoRow => tree[store[c].src] # Absent

\* A file that is skipped has its content in the store (the pipeline records
\* no partially processed file because "it would never be retried despite
\* having incomplete content in the store").
SkippedComplete ==
  phase = "process" => \A p \in Paths : stage[p] = "skipped" => Present(seen[p])

\* Once the tree rests and commands stop failing, every file becomes and stays
\* searchable: nothing a failed command leaves behind hides a file for good.
Converges == <>[](\A p \in Listed(tree) : Present(tree[p]))

=============================================================================

--------------------------- MODULE IndexingProofs ---------------------------
(***************************************************************************)
(* What the state DB records is in the store, a command that gave nothing  *)
(* up leaves every file searchable, and none leaves rows of files that are *)
(* gone: for every set of files, contents, keys and start trees, any       *)
(* number of edits between commands, and the failures each theorem allows. *)
(* Recorded, Complete and Owned are the inductive invariants.              *)
(***************************************************************************)
EXTENDS Indexing, TLAPS

USE BoundsAssumption, ContentsAssumption

\* The conditions under which recording is sound: files are not removed, they
\* change between commands only, and every command uploads.  Each is needed:
\* the rows of a removed file can be shared, a file that changes while it is
\* indexed is recorded under the revision listed, and --no-upload records
\* what it did not store.
Steady == Removable = {} /\ ~EditDuring /\ "no_upload" \notin Modes

\* The state DB starts with an entry and is never lost, so no command falls
\* back on what the store holds.
Warm ==
  /\ Indexed /\ MaxLosses = 0
  /\ \A p, q \in Paths : Key[p] = Key[q] => p = q
  /\ \A t \in StartTrees : \E p \in Paths : t[p] # Absent

InRun == phase \in {"process", "record", "prune"}

\* The tree is still the one the command listed.
SeenIsTree == InRun => seen = tree

\* Every entry of the state DB is about a file of the tree.
DbListed == \A k \in Keys : db[k] # NoRev => k \in ListedKeys(tree)

\* known_revisions is the state DB, nothing, or stands in for an empty one.
KnownFrom ==
  phase = "list" =>
    known = DbKnown \/ (\A k \in KeySpace : known[k] = NoRev) \/ DbEmpty

\* A file with chunks still to upload is being streamed.
LeftStreams ==
  \A p \in Paths : left[p] # {} => phase = "process" /\ stage[p] = "streaming"

\* What a command has a stage for, it has seen.
StagesSeen == InRun => \A p \in Paths : stage[p] = "none" <=> seen[p] = Absent

\* Chunks of a streamed file are uploaded or still to upload.
StreamsUp ==
  phase = "process" =>
    \A p \in Paths : stage[p] = "streaming" =>
      \A c \in ChunksOf[seen[p]] : c \in left[p] \/ store[c] # NoRow

FinishedUp ==
  InRun => \A p \in Paths : stage[p] \in {"finished", "recorded"} => Present(seen[p])

\* Past the processing every file is resolved.
Settled ==
  /\ phase = "record" =>
       \A p \in Paths : stage[p] \in {"none", "skipped", "finished", "failed", "recorded"}
  /\ phase = "prune" =>
       \A p \in Paths : stage[p] \in {"none", "skipped", "failed", "recorded"}

NothingStale == stale = {}

Recorded ==
  /\ RecordedStored
  /\ SeenIsTree
  /\ DbListed
  /\ KnownFrom
  /\ LeftStreams
  /\ StagesSeen
  /\ StreamsUp
  /\ FinishedUp
  /\ Settled
  /\ NothingStale

\* With an entry in the state DB, what is skipped is what it records.
KnownIsDb ==
  phase = "list" => known = DbKnown \/ \A k \in KeySpace : known[k] = NoRev

SkippedUp ==
  InRun => \A p \in Paths : stage[p] = "skipped" => Present(seen[p])

Complete == /\ Recorded
            /\ ~DbEmpty
            /\ KnownIsDb
            /\ SkippedUp
            /\ CleanRunComplete

----------------------------------------------------------------------------
(* Types *)

\* The chunks of a content are among the ids.
LEMMA ChunkIds == \A v \in Contents : \A c \in ChunksOf[v] : c \in Ids
  BY DEF Ids

\* Every version of a file is a content.
LEMMA VersionContents == \A p \in Paths : \A v \in Versions[p] : v \in Contents
  BY DEF Contents

\* A row that carries a revision is a row.
LEMMA RowIsRow ==
  ASSUME NEW p \in Paths, NEW v \in Contents
  PROVE  Row(p, v) \in [src : Paths, rev : Contents] /\ Row(p, v) # NoRow
<1>1. Row(p, v) \in [src : Paths, rev : Contents]
  BY DEF Row
<1> QED
  BY <1>1

\* The types hold at first.
LEMMA TypeInit == Init => TypeOK
<1> SUFFICES ASSUME Init PROVE TypeOK
  OBVIOUS
<1>1. tree \in [Paths -> Contents \cup {Absent}]
  BY DEF Init
<1>2. db \in [Keys -> Contents \cup {NoRev}]
  <2>1. CASE Indexed
    <3>1. ASSUME NEW k \in Keys
          PROVE  LET p == CHOOSE q \in Paths : Key[q] = k
                 IN  (IF tree[p] = Absent THEN NoRev ELSE tree[p])
                     \in Contents \cup {NoRev}
      <4>1. \E q \in Paths : Key[q] = k
        BY DEF Keys
      <4>2. (CHOOSE q \in Paths : Key[q] = k) \in Paths
        BY <4>1
      <4> QED
        BY <1>1, <4>2
    <3> QED
      BY <2>1, <3>1 DEF Init
  <2>2. CASE ~Indexed
    BY <2>2 DEF Init
  <2> QED
    BY <2>1, <2>2
<1>3. store \in [Ids -> [src : Paths, rev : Contents] \cup {NoRow}]
  <2>1. CASE Indexed
    <3> DEFINE Owners(c) == {p \in Paths : tree[p] # Absent /\ c \in ChunksOf[tree[p]]}
               First(c) == CHOOSE q \in Owners(c) : TRUE
    <3>1. store = [c \in Ids |-> IF Owners(c) = {} THEN NoRow
                                 ELSE Row(First(c), tree[First(c)])]
      BY <2>1 DEF Init
    <3>2. ASSUME NEW c \in Ids, Owners(c) # {}
          PROVE  Row(First(c), tree[First(c)]) \in [src : Paths, rev : Contents]
      <4>1. First(c) \in Owners(c)
        BY <3>2
      <4>2. First(c) \in Paths /\ tree[First(c)] \in Contents
        BY <1>1, <4>1
      <4> QED
        BY <4>2, RowIsRow
    <3> HIDE DEF Owners, First
    <3> QED
      BY <3>1, <3>2
  <2>2. CASE ~Indexed
    BY <2>2 DEF Init, NoRows
  <2> QED
    BY <2>1, <2>2
<1> QED
  BY <1>1, <1>2, <1>3 DEF Init, TypeOK, NoFile

\* What the types rest on.
Typed == TypeOK /\ LeftStreams /\ StagesSeen

\* Contents that were listed are contents.
LEMMA SeenContents ==
  ASSUME Typed, InRun, NEW p \in Paths, stage[p] # "none"
  PROVE  seen[p] \in Contents
  BY DEF Typed, TypeOK, StagesSeen

\* A step of a command keeps the types.
LEMMA TypeCommand ==
  ASSUME Typed, Command PROVE TypeOK'
<1> USE DEF Typed, TypeOK, treeVars, runVars, counters
<1>1. ASSUME NEW m \in Modes, StartIndex(m) PROVE TypeOK'
  <2>1. known' \in [KeySpace -> Contents \cup {NoRev}]
    BY <1>1 DEF StartIndex, CurrentState, DbKnown
  <2> QED
    BY <1>1, <2>1 DEF StartIndex
<1>2. CASE ListAndDelete
  <2>1. store' \in [Ids -> [src : Paths, rev : Contents] \cup {NoRow}]
    BY <1>2 DEF ListAndDelete
  <2> QED
    BY <1>2, <2>1 DEF ListAndDelete
<1>3. ASSUME NEW p \in Paths, ReadFile(p) PROVE TypeOK'
  <2>1. ChunksOf[tree[p]] \subseteq Ids
    BY <1>3, ChunkIds DEF ReadFile
  <2> QED
    BY <1>3, <2>1 DEF ReadFile
<1>4. ASSUME NEW p \in Paths, ReadFails(p) PROVE TypeOK'
  BY <1>4 DEF ReadFails
<1>5. ASSUME NEW p \in Paths, Finish(p) PROVE TypeOK'
  BY <1>5 DEF Finish
<1>6. ASSUME NEW p \in Paths, Record(p) PROVE TypeOK'
  <2>1. seen[p] \in Contents
    BY <1>6, SeenContents DEF Record, InRun
  <2> QED
    BY <1>6, <2>1 DEF Record
<1>7. ASSUME NEW p \in Paths, NEW c \in Ids, Upload(p, c) PROVE TypeOK'
  <2>1. seen[p] \in Contents
    <3>1. stage[p] = "streaming"
      BY <1>7 DEF Upload, LeftStreams
    <3> QED
      BY <1>7, <3>1, SeenContents DEF Upload, InRun
  <2>2. store' \in [Ids -> [src : Paths, rev : Contents] \cup {NoRow}]
    BY <1>7, <2>1, RowIsRow DEF Upload
  <2> QED
    BY <1>7, <2>2 DEF Upload
<1>8. CASE EndRun
  BY <1>8 DEF EndRun, Outcome
<1>9. CASE Relist
  BY <1>9 DEF Relist
<1>10. CASE EndIndex
  BY <1>10 DEF EndIndex, Outcome
<1>11. ASSUME NEW k \in Keys, Prune(k) PROVE TypeOK'
  BY <1>11 DEF Prune
<1> QED
  BY <1>1, <1>2, <1>3, <1>4, <1>5, <1>6, <1>7, <1>8, <1>9, <1>10, <1>11 DEF Command

\* So do faults and edits.
LEMMA TypeOther ==
  ASSUME Typed, Fault \/ \E p \in Paths : Edit(p) PROVE TypeOK'
<1> USE DEF Typed, TypeOK, treeVars, runVars, counters
<1>1. CASE Abort
  BY <1>1 DEF Abort
<1>2. CASE LoseDb
  BY <1>2 DEF LoseDb
<1>3. ASSUME NEW p \in Paths, GiveUp(p) PROVE TypeOK'
  BY <1>3 DEF GiveUp
<1>4. ASSUME NEW k \in Keys, PruneFails(k) PROVE TypeOK'
  BY <1>4 DEF PruneFails
<1>5. ASSUME NEW p \in Paths, Edit(p) PROVE TypeOK'
  <2>1. tree' \in [Paths -> Contents \cup {Absent}]
    BY <1>5, VersionContents DEF Edit
  <2> QED
    BY <1>5, <2>1 DEF Edit
<1> QED
  BY <1>1, <1>2, <1>3, <1>4, <1>5 DEF Fault

\* The invariant contains the types.
LEMMA RecordedTyped == Recorded => Typed
  BY DEF Recorded, RecordedStored, Typed

----------------------------------------------------------------------------
(* Rows *)

RowsKept == \A c \in Ids : store[c] # NoRow => store'[c] # NoRow

\* A content that is in the store stays there while rows are kept.
LEMMA PresentKept ==
  ASSUME RowsKept, NEW v \in Contents, Present(v)
  PROVE  Present(v)'
  BY ChunkIds DEF RowsKept, Present

\* Entries that were stored stay stored while rows are kept.
LEMMA DbStored ==
  ASSUME Recorded, RowsKept, TypeOK', UNCHANGED db
  PROVE  RecordedStored'
<1> SUFFICES ASSUME NEW p \in Paths, db[Key[p]] # NoRev PROVE Present(db[Key[p]])'
  BY DEF RecordedStored
<1>1. db[Key[p]] \in Contents /\ Present(db[Key[p]])
  BY DEF Recorded, RecordedStored, TypeOK, Keys
<1> QED
  BY <1>1, PresentKept

\* Finished files stay stored while rows are kept.
LEMMA FinishedStored ==
  ASSUME Recorded, RowsKept, InRun, UNCHANGED seen,
         \A p \in Paths : stage'[p] \in {"finished", "recorded"} =>
                            stage[p] \in {"finished", "recorded"}
  PROVE  FinishedUp'
<1> SUFFICES ASSUME NEW p \in Paths, stage'[p] \in {"finished", "recorded"}
             PROVE  Present(seen[p])'
  BY DEF FinishedUp
<1>1. Present(seen[p]) /\ stage[p] # "none"
  BY DEF Recorded, FinishedUp
<1>2. seen[p] \in Contents
  BY <1>1, SeenContents, RecordedTyped
<1> QED
  BY <1>1, <1>2, PresentKept

\* An unrecorded command deletes only when there is nothing to find: with an
\* entry in the state DB every known file is still listed.
LEMMA DeletesNothing ==
  ASSUME Recorded, phase = "list", ~DbEmpty
  PROVE  ToDelete = {}
<1>1. known = DbKnown \/ \A k \in KeySpace : known[k] = NoRev
  BY DEF Recorded, KnownFrom
<1>2. ASSUME known = DbKnown, NEW k \in KeySpace, known[k] # NoRev
      PROVE  k \in ListedKeys(tree)
  <2>1. k \in Keys /\ db[k] # NoRev
    BY <1>2 DEF DbKnown
  <2> QED
    BY <2>1 DEF Recorded, DbListed
<1> QED
  BY <1>1, <1>2 DEF ToDelete

----------------------------------------------------------------------------
(* The invariant *)

\* At first the state DB records what was indexed before.
LEMMA RecordedInit == Init => Recorded
<1> SUFFICES ASSUME Init PROVE Recorded
  OBVIOUS
<1>1. TypeOK
  BY TypeInit
<1>2. CASE Indexed
  <2> DEFINE Owners(c) == {p \in Paths : tree[p] # Absent /\ c \in ChunksOf[tree[p]]}
             First(c) == CHOOSE q \in Owners(c) : TRUE
             At(k) == CHOOSE q \in Paths : Key[q] = k
  <2>1. store = [c \in Ids |-> IF Owners(c) = {} THEN NoRow
                               ELSE Row(First(c), tree[First(c)])]
    BY <1>2 DEF Init
  <2>2. ASSUME NEW c \in Ids, Owners(c) # {} PROVE store[c] # NoRow
    <3>1. First(c) \in Owners(c)
      BY <2>2
    <3>2. First(c) \in Paths /\ tree[First(c)] \in Contents
      BY <1>1, <3>1 DEF TypeOK
    <3> QED
      BY <2>1, <2>2, <3>2, RowIsRow
  <2>3. ASSUME NEW p \in Paths, tree[p] # Absent PROVE Present(tree[p])
    <3>1. tree[p] \in Contents
      BY <1>1, <2>3 DEF TypeOK
    <3>2. \A c \in ChunksOf[tree[p]] : c \in Ids /\ p \in Owners(c)
      BY <2>3, <3>1, ChunkIds
    <3> HIDE DEF Owners, First
    <3> QED
      BY <2>2, <3>2 DEF Present
  <2>4. ASSUME NEW k \in Keys, db[k] # NoRev
        PROVE  At(k) \in Paths /\ Key[At(k)] = k /\ tree[At(k)] # Absent
               /\ db[k] = tree[At(k)]
    <3>1. \E q \in Paths : Key[q] = k
      BY DEF Keys
    <3>2. At(k) \in Paths /\ Key[At(k)] = k
      BY <3>1
    <3>3. db[k] = IF tree[At(k)] = Absent THEN NoRev ELSE tree[At(k)]
      BY <1>2 DEF Init
    <3> QED
      BY <2>4, <3>2, <3>3
  <2> HIDE DEF At
  <2>5. RecordedStored
    BY <1>1, <2>3, <2>4 DEF RecordedStored, Keys
  <2>6. DbListed
    BY <2>4 DEF DbListed, ListedKeys, Listed
  <2> QED
    BY <2>5, <2>6 DEF Recorded, Init, SeenIsTree, KnownFrom, LeftStreams, StagesSeen,
       StreamsUp, FinishedUp, Settled, NothingStale, InRun
<1>3. CASE ~Indexed
  <2>1. \A k \in Keys : db[k] = NoRev
    BY <1>3 DEF Init
  <2>2. RecordedStored /\ DbListed
    BY <1>1, <2>1 DEF RecordedStored, DbListed, Keys
  <2> QED
    BY <2>2 DEF Recorded, Init, SeenIsTree, KnownFrom, LeftStreams, StagesSeen,
       StreamsUp, FinishedUp, Settled, NothingStale, InRun
<1> QED
  BY <1>2, <1>3

\* A command starts from what the state DB records.
LEMMA RecordedStart ==
  ASSUME Recorded, NEW m \in Modes, StartIndex(m) PROVE Recorded'
<1>1. TypeOK'
  BY TypeCommand, RecordedTyped DEF Command
<1>2. /\ UNCHANGED <<tree, store, db, seen, stage, left, stale>>
      /\ phase = "idle" /\ phase' = "list"
  BY DEF StartIndex, treeVars
<1>3. RecordedStored'
  BY <1>1, <1>2, DbStored DEF RowsKept
<1>4. KnownFrom'
  <2>1. DbKnown' = DbKnown /\ (DbEmpty' <=> DbEmpty)
    BY <1>2 DEF DbKnown, DbEmpty
  <2> QED
    BY <2>1 DEF StartIndex, KnownFrom
<1>5. LeftStreams'
  BY <1>2 DEF Recorded, LeftStreams
<1> QED
  BY <1>2, <1>3, <1>4, <1>5 DEF Recorded, SeenIsTree, DbListed, StagesSeen,
     StreamsUp, FinishedUp, Settled, NothingStale, InRun, ListedKeys, Listed

\* While no file is removed a listing deletes nothing that is recorded.
LEMMA RecordedList ==
  ASSUME Recorded, ListAndDelete PROVE Recorded'
<1>1. TypeOK'
  BY TypeCommand, RecordedTyped DEF Command
<1>2. /\ UNCHANGED <<tree, db, left, stale>> /\ seen' = tree
      /\ phase = "list" /\ phase' = "process"
      /\ \A p \in Paths : stage'[p] = IF tree[p] = Absent THEN "none"
                            ELSE IF known[Key[p]] = tree[p] THEN "skipped" ELSE "queued"
      /\ store' = [c \in Ids |-> IF store[c] # NoRow /\ store[c].src \in ToDelete
                                 THEN NoRow ELSE store[c]]
  BY DEF ListAndDelete, treeVars
<1>3. RecordedStored'
  <2>1. CASE DbEmpty
    BY <1>1, <1>2, <2>1 DEF DbEmpty, RecordedStored, Keys
  <2>2. CASE ~DbEmpty
    <3>1. ToDelete = {}
      BY <1>2, <2>2, DeletesNothing
    <3>2. RowsKept
      BY <1>2, <3>1 DEF RowsKept
    <3> QED
      BY <1>1, <1>2, <3>2, DbStored
  <2> QED
    BY <2>1, <2>2
<1>4. \A p \in Paths : left'[p] = {}
  BY <1>2 DEF Recorded, LeftStreams
<1> QED
  BY <1>2, <1>3, <1>4 DEF Recorded, SeenIsTree, DbListed, KnownFrom, LeftStreams,
     StagesSeen, StreamsUp, FinishedUp, Settled, NothingStale, ListedKeys, Listed

\* Steps of the processing that leave store, DB and tree alone.
LEMMA RecordedStage ==
  ASSUME Recorded, NEW p \in Paths,
         ReadFile(p) \/ ReadFails(p) \/ Finish(p) \/ GiveUp(p)
  PROVE  Recorded'
<1>1. TypeOK'
  BY TypeCommand, TypeOther, RecordedTyped DEF Command, Fault
<1>2. /\ UNCHANGED <<tree, db, store, seen, stale, phase>> /\ phase = "process"
  BY DEF ReadFile, ReadFails, Finish, GiveUp, treeVars
<1>3. RecordedStored'
  BY <1>1, <1>2, DbStored DEF RowsKept
<1>4. stage \in [Paths -> {"none", "skipped", "queued", "streaming", "finished",
                          "failed", "recorded"}] /\ left \in [Paths -> SUBSET Ids]
  BY DEF Recorded, RecordedStored, TypeOK
<1>5. /\ \A q \in Paths \ {p} : stage'[q] = stage[q] /\ left'[q] = left[q]
      /\ stage[p] \in {"queued", "streaming"}
      /\ stage'[p] \in {"streaming", "finished", "failed"}
      /\ stage'[p] # "streaming" => left'[p] = {}
  <2>1. stage[p] = "queued" => left[p] = {}
    BY DEF Recorded, LeftStreams
  <2> QED
    BY <1>4, <2>1 DEF ReadFile, ReadFails, Finish, GiveUp
<1>6. LeftStreams' /\ StagesSeen'
  BY <1>2, <1>5 DEF Recorded, LeftStreams, StagesSeen, InRun
<1>7. StreamsUp'
  <2>1. stage'[p] = "streaming" => \A c \in ChunksOf[seen[p]] : c \in left'[p]
    <3>1. stage'[p] = "streaming" => ReadFile(p)
      BY <1>4 DEF ReadFails, Finish, GiveUp
    <3>2. seen[p] = tree[p]
      BY <1>2 DEF Recorded, SeenIsTree, InRun
    <3> QED
      BY <1>4, <3>1, <3>2 DEF ReadFile
  <2> QED
    BY <1>2, <1>5, <2>1 DEF Recorded, StreamsUp
<1>8. FinishedUp'
  <2> SUFFICES ASSUME NEW q \in Paths, stage'[q] \in {"finished", "recorded"}
               PROVE  Present(seen[q])'
    BY DEF FinishedUp
  <2>1. CASE stage[q] \in {"finished", "recorded"}
    BY <1>2, <2>1 DEF Recorded, FinishedUp, InRun, Present
  <2>2. CASE stage[q] \notin {"finished", "recorded"}
    <3>1. q = p /\ Finish(p)
      BY <1>4, <1>5, <2>2 DEF ReadFile, ReadFails, GiveUp
    <3>2. Present(seen[q])
      BY <1>2, <3>1 DEF Recorded, StreamsUp, Finish, Present
    <3> QED
      BY <1>2, <3>2 DEF Present
  <2> QED
    BY <2>1, <2>2
<1> QED
  BY <1>2, <1>3, <1>6, <1>7, <1>8 DEF Recorded, SeenIsTree, DbListed, KnownFrom,
     Settled, NothingStale, InRun, ListedKeys, Listed

\* An upload adds rows, and the file needs one chunk less.
LEMMA RecordedUpload ==
  ASSUME Recorded, Steady, NEW p \in Paths, NEW c \in Ids, Upload(p, c)
  PROVE  Recorded'
<1>1. TypeOK'
  BY TypeCommand, RecordedTyped DEF Command
<1>2. /\ UNCHANGED <<tree, db, seen, stage, stale, phase>> /\ phase = "process"
      /\ c \in left[p]
  BY DEF Upload, treeVars
<1>3. /\ left \in [Paths -> SUBSET Ids] /\ mode \in Modes \cup {"none"}
      /\ store \in [Ids -> [src : Paths, rev : Contents] \cup {NoRow}]
  BY DEF Recorded, RecordedStored, TypeOK
<1>4. stage[p] = "streaming" /\ seen[p] \in Contents
  <2>1. stage[p] = "streaming"
    BY <1>2 DEF Recorded, LeftStreams
  <2> QED
    BY <1>2, <2>1, SeenContents, RecordedTyped DEF InRun
<1>5. mode # "no_upload"
  BY <1>3 DEF Steady
<1>6. RowsKept /\ store'[c] # NoRow
  BY <1>3, <1>4, <1>5, RowIsRow DEF Upload, RowsKept
<1>7. \A q \in Paths : left'[q] \subseteq left[q] /\ left[q] \subseteq left'[q] \cup {c}
  BY <1>3 DEF Upload
<1>8. RecordedStored'
  BY <1>1, <1>2, <1>6, DbStored
<1>9. FinishedUp'
  BY <1>2, <1>6, FinishedStored DEF InRun
<1>10. LeftStreams'
  BY <1>2, <1>7 DEF Recorded, LeftStreams
<1>11. StreamsUp'
  <2> SUFFICES ASSUME NEW q \in Paths, stage[q] = "streaming",
                      NEW d \in ChunksOf[seen[q]]
               PROVE  d \in left'[q] \/ store'[d] # NoRow
    BY <1>2 DEF StreamsUp
  <2>1. d \in Ids
    BY <1>2, SeenContents, RecordedTyped, ChunkIds DEF InRun
  <2>2. d \in left[q] \/ store[d] # NoRow
    BY <1>2 DEF Recorded, StreamsUp
  <2> QED
    BY <1>6, <1>7, <2>1, <2>2 DEF RowsKept
<1> QED
  BY <1>2, <1>8, <1>9, <1>10, <1>11 DEF Recorded, SeenIsTree, DbListed, KnownFrom,
     StagesSeen, Settled, NothingStale, InRun, ListedKeys, Listed

\* A revision is recorded once all its chunks are in the store.
LEMMA RecordedRecord ==
  ASSUME Recorded, NEW p \in Paths, Record(p) PROVE Recorded'
<1>1. TypeOK'
  BY TypeCommand, RecordedTyped DEF Command
<1>2. /\ UNCHANGED <<tree, store, seen, left, stale, phase>> /\ phase = "record"
      /\ stage[p] = "finished"
  BY DEF Record, treeVars
<1>3. /\ stage \in [Paths -> {"none", "skipped", "queued", "streaming", "finished",
                          "failed", "recorded"}]
      /\ db \in [Keys -> Contents \cup {NoRev}]
  BY DEF Recorded, RecordedStored, TypeOK
<1>4. seen[p] \in Contents /\ seen[p] = tree[p] /\ Present(seen[p])
  BY <1>2, SeenContents, RecordedTyped DEF Recorded, SeenIsTree, FinishedUp, InRun
<1>5. /\ \A q \in Paths \ {p} : stage'[q] = stage[q]
      /\ stage'[p] = "recorded"
      /\ \A k \in Keys : db'[k] = IF k = Key[p] THEN seen[p] ELSE db[k]
  BY <1>3 DEF Record
<1>6. \A q \in Paths : Key[q] \in Keys
  BY DEF Keys
<1>7. \A v : Present(v)' <=> Present(v)
  BY <1>2 DEF Present
<1>8. RecordedStored'
  BY <1>1, <1>4, <1>5, <1>6, <1>7 DEF Recorded, RecordedStored
<1>9. DbListed'
  <2>1. ListedKeys(tree)' = ListedKeys(tree)
    BY <1>2 DEF ListedKeys, Listed
  <2>2. Key[p] \in ListedKeys(tree)
    BY <1>4 DEF ListedKeys, Listed
  <2> QED
    BY <1>5, <2>1, <2>2 DEF Recorded, DbListed
<1>10. FinishedUp'
  BY <1>2, <1>4, <1>5, <1>7 DEF Recorded, FinishedUp, InRun
<1>11. LeftStreams' /\ StagesSeen' /\ Settled'
  BY <1>2, <1>5 DEF Recorded, LeftStreams, StagesSeen, Settled, InRun
<1> QED
  BY <1>2, <1>8, <1>9, <1>10, <1>11 DEF Recorded, SeenIsTree, KnownFrom,
     StreamsUp, NothingStale, InRun

\* Steps that only move the command on.
LEMMA RecordedPhase ==
  ASSUME Recorded, EndRun \/ Relist \/ EndIndex PROVE Recorded'
<1>1. TypeOK'
  BY TypeCommand, RecordedTyped DEF Command
<1>2. UNCHANGED <<tree, store, db, seen, stage, left>>
  BY DEF EndRun, Relist, EndIndex, treeVars, runVars
<1>3. RecordedStored'
  BY <1>1, <1>2, DbStored DEF RowsKept
<1>4. DbListed'
  BY <1>2 DEF Recorded, DbListed, ListedKeys, Listed
<1>5. NothingStale'
  BY DEF EndRun, Relist, EndIndex, runVars, Recorded, NothingStale, DbListed
<1>6. /\ phase \in {"process", "record", "prune"}
      /\ phase' \in {"idle", "record", "prune"}
      /\ phase' = "record" => phase = "process" /\ Resolved
      /\ phase' = "prune" => phase = "record" /\ \A p \in Paths : stage[p] # "finished"
      /\ phase = "process" => Resolved
  BY DEF EndRun, Relist, EndIndex
<1>7. LeftStreams'
  BY <1>2, <1>6 DEF Recorded, LeftStreams, Resolved
<1>8. FinishedUp'
  BY <1>2, <1>6 DEF Recorded, FinishedUp, InRun, Present
<1>9. Settled'
  BY <1>2, <1>6 DEF Recorded, Settled, Resolved
<1> QED
  BY <1>2, <1>3, <1>4, <1>5, <1>6, <1>7, <1>8, <1>9 DEF Recorded, SeenIsTree,
     KnownFrom, StagesSeen, StreamsUp, InRun

\* A crash, and the loss of the state DB, leave the store alone.
LEMMA RecordedAbort ==
  ASSUME Recorded, Abort \/ LoseDb PROVE Recorded'
<1>1. TypeOK'
  BY TypeOther, RecordedTyped DEF Fault
<1>2. UNCHANGED <<tree, store>> /\ phase' = "idle"
  BY DEF Abort, LoseDb, treeVars
<1>3. RecordedStored' /\ DbListed'
  <2>1. CASE Abort
    <3>1. UNCHANGED db
      BY <2>1 DEF Abort
    <3> QED
      BY <1>1, <1>2, <3>1, DbStored DEF RowsKept, Recorded, DbListed, ListedKeys, Listed
  <2>2. CASE LoseDb
    BY <1>1, <2>2 DEF LoseDb, RecordedStored, DbListed, Keys
  <2> QED
    BY <2>1, <2>2
<1>4. LeftStreams' /\ NothingStale'
  BY DEF Abort, LoseDb, runVars, Recorded, LeftStreams, NothingStale
<1> QED
  BY <1>2, <1>3, <1>4 DEF Recorded, SeenIsTree, KnownFrom, StagesSeen, StreamsUp,
     FinishedUp, Settled, InRun

\* An edit between commands changes neither the store nor the state DB.
LEMMA RecordedEdit ==
  ASSUME Recorded, Steady, NEW p \in Paths, Edit(p) PROVE Recorded'
<1>1. TypeOK'
  BY TypeOther, RecordedTyped
<1>2. UNCHANGED <<store, db, left, stale, phase>> /\ phase = "idle"
  BY DEF Edit, Steady, runVars
<1>3. RecordedStored'
  BY <1>1, <1>2, DbStored DEF RowsKept
<1>4. Listed(tree) \subseteq Listed(tree)'
  <2>1. PICK v \in Versions[p] : tree' = [tree EXCEPT ![p] = v]
    BY DEF Edit, Steady
  <2>2. v # Absent
    BY VersionContents
  <2> QED
    BY <2>1, <2>2 DEF Listed, Recorded, RecordedStored, TypeOK
<1>5. DbListed'
  BY <1>2, <1>4 DEF Recorded, DbListed, ListedKeys
<1> QED
  BY <1>2, <1>3, <1>5 DEF Recorded, SeenIsTree, KnownFrom, LeftStreams, StagesSeen,
     StreamsUp, FinishedUp, Settled, NothingStale, InRun

\* The invariant is inductive.
LEMMA RecordedNext ==
  ASSUME Recorded, Steady, [Next]_vars PROVE Recorded'
<1>1. CASE UNCHANGED vars
  <2>1. UNCHANGED <<tree, store, db, phase, mode, known, seen, stage, left, stale, last,
                    edits, faults, losses>>
    BY <1>1 DEF vars, treeVars, runVars, counters
  <2> QED
    BY <2>1 DEF Recorded, RecordedStored, TypeOK, SeenIsTree, DbListed, KnownFrom,
       LeftStreams, StagesSeen, StreamsUp, FinishedUp, Settled, NothingStale, InRun,
       Present, ListedKeys, Listed, DbKnown, DbEmpty
<1>2. ASSUME NEW k \in Keys, Prune(k) \/ PruneFails(k) PROVE FALSE
  BY <1>2 DEF Prune, PruneFails, Recorded, NothingStale
<1> QED
  BY <1>1, <1>2, RecordedStart, RecordedList, RecordedStage, RecordedUpload,
     RecordedRecord, RecordedPhase, RecordedAbort, RecordedEdit
  DEF Next, Command, Fault

\* A revision in the state DB has all of its chunks in the store, whatever
\* command failed or was killed between any two of its steps, and however often
\* the DB was lost: when files change between commands, are not removed, and
\* every command uploads.
THEOREM RecordedRevisionsAreStored ==
  ASSUME Steady
  PROVE  Spec => []RecordedStored
<1>1. Recorded => RecordedStored
  BY DEF Recorded
<1>2. Recorded /\ [Next]_vars => Recorded'
  BY RecordedNext
<1> QED
  BY <1>1, <1>2, RecordedInit, PTL DEF Spec

----------------------------------------------------------------------------
(* Complete commands *)

\* A state DB with an entry is not taken for a lost one.
LEMMA CompleteInit == ASSUME Warm, Init PROVE Complete
<1>1. PICK p \in Paths : tree[p] # Absent
  BY DEF Init, Warm
<1>2. Key[p] \in Keys
  BY DEF Keys
<1>3. (CHOOSE q \in Paths : Key[q] = Key[p]) = p
  BY DEF Warm
<1>4. db[Key[p]] = tree[p]
  BY <1>1, <1>2, <1>3 DEF Init, Warm
<1>5. tree[p] # NoRev
  BY <1>1, TypeInit DEF TypeOK
<1>6. ~DbEmpty
  BY <1>2, <1>4, <1>5 DEF DbEmpty
<1> QED
  BY <1>6, RecordedInit DEF Complete, Init, KnownIsDb, SkippedUp, CleanRunComplete, InRun

\* The state DB keeps an entry: nothing is pruned, and it is not lost.
LEMMA DbKeepsEntry ==
  ASSUME Complete, Warm, [Next]_vars PROVE ~DbEmpty'
<1>1. PICK k \in Keys : db[k] # NoRev
  BY DEF Complete, DbEmpty
<1>2. CASE UNCHANGED db
  BY <1>1, <1>2 DEF DbEmpty
<1>3. ASSUME NEW p \in Paths, Record(p) PROVE ~DbEmpty'
  <2>1. Recorded /\ phase = "record" /\ stage[p] = "finished"
    BY <1>3 DEF Record, Complete
  <2>2. seen[p] \in Contents
    BY <2>1, SeenContents, RecordedTyped DEF InRun
  <2>3. db \in [Keys -> Contents \cup {NoRev}]
    BY <2>1 DEF Recorded, RecordedStored, TypeOK
  <2>4. db'[k] # NoRev
    BY <1>1, <1>3, <2>2, <2>3 DEF Record
  <2> QED
    BY <1>1, <2>4 DEF DbEmpty
<1>4. ASSUME LoseDb PROVE FALSE
  BY <1>4 DEF LoseDb, Warm, Complete, Recorded, RecordedStored, TypeOK
<1>5. ASSUME NEW j \in Keys, Prune(j) PROVE FALSE
  BY <1>5 DEF Prune, Complete, Recorded, NothingStale
<1> QED
  BY <1>2, <1>3, <1>4, <1>5 DEF Next, Command, Fault, StartIndex, ListAndDelete, ReadFile,
     ReadFails, Finish, Upload, EndRun, Relist, EndIndex, Abort, GiveUp, PruneFails, Edit, vars

\* A command ends complete: what it skipped, finished and recorded is stored.
LEMMA EndsComplete ==
  ASSUME Complete, EndRun \/ EndIndex, Outcome # "none", NEW p \in Listed(tree)
  PROVE  Present(tree[p])
<1>1. InRun /\ phase # "record" /\ (phase = "process" => Resolved)
  BY DEF EndRun, EndIndex, InRun
<1>2. seen = tree /\ stage[p] # "failed" /\ p \in Paths
  BY DEF Outcome, Listed
<1>3. stage[p] # "none"
  BY <1>1, <1>2 DEF Complete, Recorded, StagesSeen, Listed
<1>4. stage[p] \in {"skipped", "finished", "recorded"}
  BY <1>1, <1>2, <1>3 DEF Complete, Recorded, Settled, Resolved, InRun
<1> QED
  BY <1>1, <1>2, <1>4 DEF Complete, Recorded, FinishedUp, SkippedUp

\* The invariant is inductive.
LEMMA CompleteNext ==
  ASSUME Complete, Steady, Warm, [Next]_vars PROVE Complete'
<1>1. Recorded /\ Recorded' /\ ~DbEmpty'
  BY RecordedNext, DbKeepsEntry DEF Complete
<1>2. KnownIsDb'
  <2> SUFFICES ASSUME phase' = "list" PROVE KnownIsDb'
    BY DEF KnownIsDb
  <2> QED
    BY <1>1 DEF Recorded, KnownFrom, KnownIsDb
<1>3. SkippedUp'
  <2> SUFFICES ASSUME InRun', NEW p \in Paths, stage'[p] = "skipped"
               PROVE  Present(seen[p])'
    BY DEF SkippedUp
  <2>1. CASE ListAndDelete
    <3>1. tree[p] # Absent /\ known[Key[p]] = tree[p] /\ seen' = tree /\ phase = "list"
      BY <2>1 DEF ListAndDelete
    <3>2. tree[p] \in Contents
      BY <1>1, <3>1 DEF Recorded, RecordedStored, TypeOK
    <3>3. Key[p] \in Keys /\ Key[p] \in KeySpace
      BY DEF Keys, KeySpace
    <3>4. db[Key[p]] = tree[p]
      BY <3>1, <3>2, <3>3 DEF Complete, KnownIsDb, DbKnown
    <3>5. Present(tree[p])
      BY <1>1, <3>2, <3>4 DEF Recorded, RecordedStored
    <3>6. ToDelete = {}
      BY <1>1, <3>1, DeletesNothing DEF Complete
    <3>7. RowsKept
      BY <2>1, <3>6 DEF ListAndDelete, RowsKept
    <3>8. Present(tree[p])'
      BY <2>1, <3>2, <3>5, <3>7, PresentKept DEF ListAndDelete, treeVars
    <3> QED
      BY <2>1, <3>1, <3>8 DEF ListAndDelete, treeVars
  <2>2. CASE ~ListAndDelete
    <3>1. InRun /\ UNCHANGED seen
      BY <2>2 DEF Next, Command, Fault, StartIndex, ReadFile, ReadFails, Finish, Upload,
         Record, Prune, EndRun, Relist, EndIndex, Abort, LoseDb, GiveUp, PruneFails, Edit,
         vars, runVars, InRun
    <3>2. stage \in [Paths -> {"none", "skipped", "queued", "streaming", "finished",
                          "failed", "recorded"}]
      BY <1>1 DEF Recorded, RecordedStored, TypeOK
    <3>3. stage[p] = "skipped"
      BY <2>2, <3>2 DEF Next, Command, Fault, StartIndex, ReadFile, ReadFails, Finish,
         Upload, Record, Prune, EndRun, Relist, EndIndex, Abort, LoseDb, GiveUp,
         PruneFails, Edit, vars, runVars, InRun
    <3>4. Present(seen[p]) /\ seen[p] \in Contents
      BY <1>1, <3>1, <3>3, SeenContents, RecordedTyped DEF Complete, SkippedUp
    <3>5. RowsKept
      <4>1. ASSUME NEW q \in Paths, NEW c \in Ids, Upload(q, c) PROVE RowsKept
        <5>1. stage[q] = "streaming" /\ phase = "process"
          BY <1>1, <4>1 DEF Upload, Recorded, LeftStreams
        <5>2. seen[q] \in Contents
          BY <1>1, <5>1, SeenContents, RecordedTyped DEF InRun
        <5> QED
          BY <1>1, <4>1, <5>2, RowIsRow DEF Upload, RowsKept, Recorded, RecordedStored, TypeOK
      <4>2. CASE UNCHANGED store
        BY <4>2 DEF RowsKept
      <4> QED
        BY <2>2, <4>1, <4>2 DEF Next, Command, Fault, StartIndex, ReadFile, ReadFails,
           Finish, Record, Prune, EndRun, Relist, EndIndex, Abort, LoseDb, GiveUp,
           PruneFails, Edit, vars
    <3> QED
      BY <3>1, <3>4, <3>5, PresentKept
  <2> QED
    BY <2>1, <2>2
<1>4. CleanRunComplete'
  <2> SUFFICES ASSUME phase' = "idle", last' \notin {"none", "no_upload"},
                      NEW p \in Listed(tree)'
               PROVE  Present(tree[p])'
    BY DEF CleanRunComplete
  <2>1. CASE EndRun \/ EndIndex
    <3>1. UNCHANGED <<tree, store>> /\ Outcome # "none"
      BY <2>1 DEF EndRun, EndIndex, treeVars
    <3>2. p \in Listed(tree)
      BY <3>1 DEF Listed
    <3>3. Present(tree[p])
      BY <2>1, <3>1, <3>2, EndsComplete
    <3> QED
      BY <3>1, <3>3 DEF Present
  <2>2. CASE ~(EndRun \/ EndIndex)
    <3>1. phase = "idle" /\ UNCHANGED <<tree, store, last>>
      BY <2>2 DEF Next, Command, Fault, StartIndex, ListAndDelete, ReadFile, ReadFails,
         Finish, Upload, Record, Prune, Relist, Abort, LoseDb, GiveUp,
         PruneFails, Edit, vars, treeVars
    <3>2. p \in Listed(tree)
      BY <3>1 DEF Listed
    <3>3. Present(tree[p])
      BY <3>1, <3>2 DEF Complete, CleanRunComplete
    <3> QED
      BY <3>1, <3>3 DEF Present
  <2> QED
    BY <2>1, <2>2
<1> QED
  BY <1>1, <1>2, <1>3, <1>4 DEF Complete

\* After a command that gave nothing up every file of the tree is in the store,
\* whatever failed commands came before it: files that were skipped because
\* their revision was recorded had been completely uploaded.
THEOREM CleanRunsAreComplete ==
  ASSUME Steady, Warm
  PROVE  Spec => []CleanRunComplete
<1>1. Complete => CleanRunComplete
  BY DEF Complete
<1>2. Init => Complete
  BY CompleteInit
<1>3. Complete /\ [Next]_vars => Complete'
  BY CompleteNext
<1> QED
  BY <1>1, <1>2, <1>3, PTL DEF Spec

----------------------------------------------------------------------------
(* Rows of files that are gone *)

\* Commands that are left alone: nothing fails and nothing changes while one
\* runs, each records what it did, and a file is known under its own path.
\* Without the last a removed file's rows are looked for under its key.
Undisturbed ==
  /\ EditDuring = FALSE /\ MaxFaults = 0
  /\ Modes \subseteq {"normal", "no_upload"}
  /\ \A p \in Paths : Key[p] = p

\* A file that a command lists is there when it is read.
NothingFailed == InRun => \A p \in Paths : stage[p] # "failed"

\* No entry of a listed file is pruned.
StaleGone == phase = "prune" => stale \cap ListedKeys(tree) = {}

\* Between two commands the state DB knows the file of every row: the next
\* command finds it in known_revisions.
RowsKnown ==
  phase \in {"idle", "list"} /\ losses = 0 =>
    \A c \in Ids : store[c] # NoRow => db[store[c].src] # NoRev

\* What stands in for an empty state DB is empty, too.
KnownIsRecorded == phase = "list" /\ losses = 0 => known = DbKnown

\* Once a command has deleted, rows are of listed files only.
RowsListed ==
  InRun /\ losses = 0 =>
    \A c \in Ids : store[c] # NoRow => tree[store[c].src] # Absent

\* What it has skipped or recorded is in the state DB.
StagesKept ==
  InRun /\ losses = 0 =>
    \A p \in Paths : stage[p] \in {"skipped", "recorded"} => db[p] # NoRev

Owned ==
  /\ Typed /\ SeenIsTree /\ Settled /\ NothingFailed /\ StaleGone
  /\ RowsKnown /\ KnownIsRecorded /\ RowsListed /\ StagesKept
  /\ NoOrphans

\* Paths and keys are the same.
LEMMA PathKeys ==
  ASSUME Undisturbed
  PROVE  /\ Keys = Paths /\ KeySpace = Paths
         /\ ListedKeys(tree) = {p \in Paths : tree[p] # Absent}
BY DEF Undisturbed, Keys, KeySpace, ListedKeys, Listed

\* The file of a row is one of the paths.
LEMMA RowPath ==
  ASSUME TypeOK, NEW c \in Ids, store[c] # NoRow
  PROVE  store[c].src \in Paths
<1>1. store[c] \in [src : Paths, rev : Contents]
  BY DEF TypeOK
<1> QED
  BY <1>1

\* Nothing is stored that is not recorded at the start.
LEMMA OwnedInit ==
  ASSUME Undisturbed, Init
  PROVE  Owned
<1>1. TypeOK
  BY TypeInit
<1>2. phase = "idle" /\ last = "none" /\ \A p \in Paths : left[p] = {}
  BY DEF Init
<1>3. ASSUME NEW c \in Ids, store[c] # NoRow PROVE db[store[c].src] # NoRev
  <2> DEFINE owners == {p \in Paths : tree[p] # Absent /\ c \in ChunksOf[tree[p]]}
             first == CHOOSE q \in owners : TRUE
  <2>1. Indexed /\ owners # {} /\ store[c] = Row(first, tree[first])
    BY <1>3 DEF Init, NoRows
  <2>2. first \in Paths /\ tree[first] # Absent
    BY <2>1
  <2> HIDE DEF first, owners
  <2>3. store[c].src = first
    BY <2>1 DEF Row
  <2>4. (CHOOSE q \in Paths : Key[q] = first) = first
    BY <2>2 DEF Undisturbed
  <2>5. db[first] = tree[first]
    BY <2>1, <2>2, <2>4, PathKeys DEF Init
  <2>6. tree[first] # NoRev
    BY <1>1, <2>2 DEF TypeOK
  <2> QED
    BY <2>3, <2>5, <2>6
<1> QED
  BY <1>1, <1>2, <1>3 DEF Owned, Typed, LeftStreams, StagesSeen, SeenIsTree, Settled,
     NothingFailed, StaleGone, RowsKnown, KnownIsRecorded, RowsListed, StagesKept,
     NoOrphans, InRun

\* A command starts with what the state DB knows.
LEMMA OwnedStart ==
  ASSUME Undisturbed, Owned, NEW m \in Modes, StartIndex(m)
  PROVE  Owned'
<1>1. TypeOK'
  BY TypeCommand DEF Owned, Command
<1>2. /\ UNCHANGED <<tree, store, db, seen, stage, left, stale, losses>>
      /\ phase = "idle" /\ phase' = "list"
  BY DEF StartIndex, treeVars, counters
<1>3. KnownIsRecorded'
  <2> SUFFICES ASSUME losses = 0 PROVE known' = DbKnown
    BY <1>2 DEF KnownIsRecorded, DbKnown
  <2>1. CASE ~DbEmpty
    BY <2>1 DEF StartIndex, Undisturbed
  <2>2. CASE DbEmpty
    <3>1. known' \in CurrentState
      BY <2>2 DEF StartIndex, Undisturbed
    <3>2. \A c \in Ids : store[c] = NoRow
      BY <1>2, <2>2, RowPath, PathKeys DEF Owned, Typed, RowsKnown, DbEmpty
    <3>3. \A k \in KeySpace :
            {store[c].rev : c \in {d \in Ids : store[d] # NoRow /\ store[d].src = k}} = {}
      BY <3>2
    <3>4. /\ known' \in [KeySpace -> Contents \cup {NoRev}]
          /\ \A k \in KeySpace : known'[k] = NoRev
      BY <3>1, <3>3 DEF CurrentState
    <3>5. DbKnown = [k \in KeySpace |-> NoRev]
      BY <2>2 DEF DbKnown, DbEmpty
    <3> QED
      BY <3>4, <3>5
  <2> QED
    BY <2>1, <2>2
<1>4. LeftStreams' /\ RowsKnown'
  BY <1>2 DEF Owned, Typed, LeftStreams, RowsKnown
<1> QED
  BY <1>1, <1>2, <1>3, <1>4 DEF Owned, Typed, StagesSeen, SeenIsTree, Settled,
     NothingFailed, StaleGone, RowsListed, StagesKept, NoOrphans, InRun

\* It deletes the rows of all files that are not listed any more.
LEMMA OwnedList ==
  ASSUME Undisturbed, Owned, ListAndDelete
  PROVE  Owned'
<1>1. TypeOK'
  BY TypeCommand DEF Owned, Command
<1>2. /\ UNCHANGED <<tree, db, left, losses>> /\ seen' = tree
      /\ phase = "list" /\ phase' = "process"
      /\ \A p \in Paths : stage'[p] = IF tree[p] = Absent THEN "none"
                            ELSE IF known[Key[p]] = tree[p] THEN "skipped" ELSE "queued"
      /\ store' = [c \in Ids |-> IF store[c] # NoRow /\ store[c].src \in ToDelete
                                 THEN NoRow ELSE store[c]]
  BY DEF ListAndDelete, treeVars, counters
<1>3. \A p \in Paths : tree[p] # Absent => tree[p] # NoRev
  BY DEF Owned, Typed, TypeOK
<1>4. RowsListed'
  <2> SUFFICES ASSUME losses = 0, NEW c \in Ids, store'[c] # NoRow
               PROVE  tree[store'[c].src] # Absent
    BY <1>2 DEF RowsListed
  <2>1. store'[c] = store[c] /\ store[c] # NoRow /\ store[c].src \notin ToDelete
    BY <1>2
  <2>2. store[c].src \in Paths
    BY <2>1, RowPath DEF Owned, Typed
  <2>3. db[store[c].src] # NoRev /\ known = DbKnown
    BY <1>2, <2>1 DEF Owned, RowsKnown, KnownIsRecorded
  <2>4. known[store[c].src] # NoRev
    BY <2>2, <2>3, PathKeys DEF DbKnown
  <2> QED
    BY <2>1, <2>2, <2>4, PathKeys DEF ToDelete
<1>5. StagesKept'
  <2> SUFFICES ASSUME losses = 0, NEW p \in Paths, stage'[p] \in {"skipped", "recorded"}
               PROVE  db[p] # NoRev
    BY <1>2 DEF StagesKept
  <2>1. tree[p] # Absent /\ known[p] = tree[p]
    BY <1>2 DEF Undisturbed
  <2>2. known = DbKnown
    BY <1>2 DEF Owned, KnownIsRecorded
  <2> QED
    BY <1>3, <2>1, <2>2, PathKeys DEF DbKnown
<1>6. \A p \in Paths : left'[p] = {}
  BY <1>2 DEF Owned, Typed, LeftStreams
<1>7. LeftStreams' /\ StagesSeen' /\ NothingFailed'
  BY <1>2, <1>6 DEF LeftStreams, StagesSeen, NothingFailed, InRun
<1> QED
  BY <1>1, <1>2, <1>4, <1>5, <1>7 DEF Owned, Typed, SeenIsTree, Settled, StaleGone,
     RowsKnown, KnownIsRecorded, NoOrphans, InRun

\* Reading a file fails only when the file is gone.
LEMMA OwnedStage ==
  ASSUME Undisturbed, Owned, NEW p \in Paths,
         ReadFile(p) \/ ReadFails(p) \/ Finish(p)
  PROVE  Owned'
<1>1. TypeOK'
  BY TypeCommand DEF Owned, Command
<1>2. /\ UNCHANGED <<tree, db, store, seen, stale, phase, losses>> /\ phase = "process"
  BY DEF ReadFile, ReadFails, Finish, treeVars, counters
<1>3. ~ReadFails(p)
  <2>1. seen = tree /\ (stage[p] = "none" <=> seen[p] = Absent)
    BY <1>2 DEF Owned, Typed, SeenIsTree, StagesSeen, InRun
  <2> QED
    BY <2>1 DEF ReadFails
<1>4. /\ stage \in [Paths -> {"none", "skipped", "queued", "streaming", "finished",
                              "failed", "recorded"}]
      /\ left \in [Paths -> SUBSET Ids]
  BY DEF Owned, Typed, TypeOK
<1>5. /\ \A q \in Paths \ {p} : stage'[q] = stage[q] /\ left'[q] = left[q]
      /\ stage[p] \in {"queued", "streaming"}
      /\ stage'[p] \in {"streaming", "finished"}
      /\ stage'[p] # "streaming" => left'[p] = {}
  BY <1>3, <1>4 DEF ReadFile, Finish
<1>6. LeftStreams' /\ StagesSeen' /\ NothingFailed' /\ StagesKept'
  BY <1>2, <1>5 DEF Owned, Typed, LeftStreams, StagesSeen, NothingFailed, StagesKept, InRun
<1> QED
  BY <1>1, <1>2, <1>6 DEF Owned, Typed, SeenIsTree, Settled, StaleGone, RowsKnown,
     KnownIsRecorded, RowsListed, NoOrphans, InRun

\* A row that is added is of a listed file.
LEMMA OwnedUpload ==
  ASSUME Undisturbed, Owned, NEW p \in Paths, NEW c \in Ids, Upload(p, c)
  PROVE  Owned'
<1>1. TypeOK'
  BY TypeCommand DEF Owned, Command
<1>2. /\ UNCHANGED <<tree, db, seen, stage, stale, phase, losses>> /\ phase = "process"
      /\ stage[p] = "streaming"
  BY DEF Upload, treeVars, counters, Owned, Typed, LeftStreams
<1>3. /\ left \in [Paths -> SUBSET Ids]
      /\ store \in [Ids -> [src : Paths, rev : Contents] \cup {NoRow}]
  BY DEF Owned, Typed, TypeOK
<1>4. tree[p] # Absent
  BY <1>2 DEF Owned, Typed, SeenIsTree, StagesSeen, InRun
<1>5. \A d \in Ids : store'[d] = store[d] \/ store'[d].src = p
  BY <1>3 DEF Upload, Row
<1>6. RowsListed'
  <2> SUFFICES ASSUME losses = 0, NEW d \in Ids, store'[d] # NoRow
               PROVE  tree[store'[d].src] # Absent
    BY <1>2 DEF RowsListed
  <2>1. CASE store'[d] = store[d]
    <3>1. InRun
      BY <1>2 DEF InRun
    <3> QED
      BY <2>1, <3>1 DEF Owned, RowsListed
  <2>2. CASE store'[d].src = p
    BY <2>2, <1>4
  <2> QED
    BY <1>5, <2>1, <2>2
<1>7. \A q \in Paths : left'[q] \subseteq left[q]
  BY <1>3 DEF Upload
<1>8. LeftStreams'
  BY <1>2, <1>7 DEF Owned, Typed, LeftStreams
<1> QED
  BY <1>1, <1>2, <1>6, <1>8 DEF Owned, Typed, SeenIsTree, StagesSeen, Settled,
     NothingFailed, StaleGone, RowsKnown, KnownIsRecorded, StagesKept, NoOrphans, InRun

\* A finished file is recorded.
LEMMA OwnedRecord ==
  ASSUME Undisturbed, Owned, NEW p \in Paths, Record(p)
  PROVE  Owned'
<1>1. TypeOK'
  BY TypeCommand DEF Owned, Command
<1>2. /\ UNCHANGED <<tree, store, seen, left, stale, phase, losses>> /\ phase = "record"
      /\ stage[p] = "finished"
  BY DEF Record, treeVars, counters
<1>3. /\ stage \in [Paths -> {"none", "skipped", "queued", "streaming", "finished",
                              "failed", "recorded"}]
      /\ db \in [Keys -> Contents \cup {NoRev}]
  BY DEF Owned, Typed, TypeOK
<1>4. seen[p] # NoRev
  BY <1>2, SeenContents DEF Owned, InRun
<1>5. /\ \A q \in Paths \ {p} : stage'[q] = stage[q] /\ db'[q] = db[q]
      /\ stage'[p] = "recorded" /\ db'[p] = seen[p]
  <2>1. db' = [db EXCEPT ![p] = seen[p]] /\ stage' = [stage EXCEPT ![p] = "recorded"]
    BY DEF Record, Undisturbed
  <2>2. db \in [Paths -> Contents \cup {NoRev}]
    BY <1>3, PathKeys
  <2> QED
    BY <1>3, <2>1, <2>2
<1>6. StagesKept'
  BY <1>2, <1>4, <1>5 DEF Owned, StagesKept, InRun
<1>7. LeftStreams' /\ StagesSeen' /\ Settled' /\ NothingFailed'
  BY <1>2, <1>5 DEF Owned, Typed, LeftStreams, StagesSeen, Settled, NothingFailed, InRun
<1> QED
  BY <1>1, <1>2, <1>6, <1>7 DEF Owned, Typed, SeenIsTree, StaleGone, RowsKnown,
     KnownIsRecorded, RowsListed, NoOrphans, InRun

\* When a command ends, the file of every row is listed and recorded.
LEMMA OwnedPhase ==
  ASSUME Undisturbed, Owned, EndRun \/ Relist \/ EndIndex
  PROVE  Owned'
<1>1. TypeOK'
  BY TypeCommand DEF Owned, Command
<1>2. UNCHANGED <<tree, store, db, seen, stage, left, losses>>
  BY DEF EndRun, Relist, EndIndex, treeVars, runVars, counters
<1>3. \/ phase = "process" /\ phase' = "record" /\ Resolved
      \/ phase = "record" /\ phase' = "prune" /\ \A p \in Paths : stage[p] # "finished"
      \/ phase = "prune" /\ phase' = "idle"
  <2>1. mode \notin {"watch", "watch_event"}
    BY DEF Undisturbed, Owned, Typed, TypeOK
  <2> QED
    BY <2>1 DEF EndRun, Relist, EndIndex
<1>4. StaleGone'
  <2> SUFFICES ASSUME phase' = "prune" PROVE StaleGone'
    BY DEF StaleGone
  <2>1. Relist
    BY DEF EndRun, Relist, EndIndex
  <2>2. ListedKeys(tree)' = ListedKeys(tree)
    BY <1>2 DEF ListedKeys, Listed
  <2> QED
    BY <2>1, <2>2 DEF Relist, StaleGone
<1>5. RowsKnown' /\ NoOrphans'
  <2> SUFFICES ASSUME phase' = "idle", losses = 0, NEW c \in Ids, store[c] # NoRow
               PROVE  db[store[c].src] # NoRev /\ tree[store[c].src] # Absent
    BY <1>2, <1>3 DEF RowsKnown, NoOrphans
  <2> DEFINE p == store[c].src
  <2>1. p \in Paths
    BY RowPath DEF Owned, Typed
  <2>2. phase = "prune"
    BY <1>3
  <2> HIDE DEF p
  <2>3. tree[p] # Absent /\ seen = tree
    BY <2>2 DEF Owned, RowsListed, SeenIsTree, InRun, p
  <2>4. stage[p] \in {"skipped", "recorded"}
    BY <2>1, <2>2, <2>3 DEF Owned, Typed, StagesSeen, Settled, NothingFailed, InRun
  <2>5. db[p] # NoRev
    BY <2>1, <2>2, <2>4 DEF Owned, StagesKept, InRun
  <2> QED
    BY <2>3, <2>5 DEF p
<1>6. LeftStreams' /\ Settled'
  BY <1>2, <1>3 DEF Owned, Typed, LeftStreams, Settled, Resolved
<1>7. StagesSeen' /\ SeenIsTree' /\ NothingFailed' /\ RowsListed' /\ StagesKept'
  BY <1>2, <1>3 DEF Owned, Typed, StagesSeen, SeenIsTree, NothingFailed, RowsListed,
     StagesKept, InRun
<1>8. KnownIsRecorded'
  BY <1>3 DEF KnownIsRecorded
<1> QED
  BY <1>1, <1>4, <1>5, <1>6, <1>7, <1>8 DEF Owned, Typed

\* The entry of a listed file is not pruned.
LEMMA OwnedPrune ==
  ASSUME Undisturbed, Owned, NEW k \in Keys, Prune(k)
  PROVE  Owned'
<1>1. TypeOK'
  BY TypeCommand DEF Owned, Command
<1>2. /\ UNCHANGED <<tree, store, seen, stage, left, phase, losses>> /\ phase = "prune"
      /\ k \in stale /\ stale' = stale \ {k} /\ db' = [db EXCEPT ![k] = NoRev]
  BY DEF Prune, treeVars, counters
<1>3. k \in Paths /\ tree[k] = Absent
  BY <1>2, PathKeys DEF Owned, StaleGone
<1>4. stage[k] = "none"
  BY <1>2, <1>3 DEF Owned, Typed, StagesSeen, SeenIsTree, InRun
<1>5. \A p \in Paths \ {k} : db'[p] = db[p]
  BY <1>2, PathKeys DEF Owned, Typed, TypeOK
<1>6. StagesKept'
  BY <1>2, <1>4, <1>5 DEF Owned, StagesKept, InRun
<1>7. StaleGone'
  BY <1>2 DEF Owned, StaleGone, ListedKeys, Listed
<1> QED
  BY <1>1, <1>2, <1>6, <1>7 DEF Owned, Typed, LeftStreams, StagesSeen, SeenIsTree,
     Settled, NothingFailed, RowsKnown, KnownIsRecorded, RowsListed, NoOrphans, InRun

\* Between commands a file may change or go, and the state DB may be lost.
LEMMA OwnedBetween ==
  ASSUME Undisturbed, Owned, LoseDb \/ \E p \in Paths : Edit(p)
  PROVE  Owned'
<1>1. TypeOK'
  BY TypeOther DEF Owned, Fault
<1>2. phase = "idle" /\ UNCHANGED <<store, phase, left, stage>>
  BY DEF LoseDb, Edit, Undisturbed, runVars
<1>3. \/ losses' # 0
      \/ UNCHANGED <<db, losses>> /\ last' = "none"
  <2>1. losses \in Nat
    BY DEF Owned, Typed, TypeOK
  <2> QED
    BY <2>1 DEF LoseDb, Edit, counters
<1>4. RowsKnown' /\ NoOrphans' /\ LeftStreams'
  BY <1>2, <1>3 DEF Owned, Typed, RowsKnown, NoOrphans, LeftStreams
<1> QED
  BY <1>1, <1>2, <1>4 DEF Owned, Typed, StagesSeen, SeenIsTree, Settled,
     NothingFailed, StaleGone, KnownIsRecorded, RowsListed, StagesKept, InRun

\* Every step keeps it.
LEMMA OwnedNext ==
  ASSUME Undisturbed, Owned, [Next]_vars
  PROVE  Owned'
<1>1. CASE UNCHANGED vars
  <2>1. UNCHANGED <<tree, store, db, phase, mode, known, seen, stage, left, stale, last,
                    edits, faults, losses>>
    BY <1>1 DEF vars, treeVars, runVars, counters
  <2>2. Typed'
    BY <2>1 DEF Owned, Typed, TypeOK, LeftStreams, StagesSeen, InRun
  <2>3. DbKnown' = DbKnown /\ ListedKeys(tree)' = ListedKeys(tree)
    BY <2>1 DEF DbKnown, ListedKeys, Listed
  <2> QED
    BY <2>1, <2>2, <2>3 DEF Owned, SeenIsTree, Settled, NothingFailed, StaleGone,
       RowsKnown, KnownIsRecorded, RowsListed, StagesKept, NoOrphans, InRun
<1>2. faults = 0
  BY DEF Undisturbed, Owned, Typed, TypeOK
<1>3. ~Abort /\ ~(\E p \in Paths : GiveUp(p)) /\ ~(\E k \in Keys : PruneFails(k))
  BY <1>2 DEF Undisturbed, Abort, GiveUp, PruneFails
<1> QED
  BY <1>1, <1>3, OwnedStart, OwnedList, OwnedStage, OwnedUpload, OwnedRecord, OwnedPhase,
     OwnedPrune, OwnedBetween
  DEF Next, Command, Fault

\* After a command that is left alone no row remains of a file that is gone,
\* however often files came and went before, as long as the state DB is never
\* lost (cmd_index in cli/index.rs with the removals of run_pipeline).
THEOREM NoRowOfAGoneFile ==
  ASSUME Undisturbed
  PROVE  Spec => []NoOrphans
<1>1. Owned => NoOrphans
  BY DEF Owned
<1>2. Owned /\ [Next]_vars => Owned'
  BY OwnedNext
<1>3. Init => Owned
  BY OwnedInit
<1> QED
  BY <1>1, <1>2, <1>3, PTL DEF Spec

=============================================================================

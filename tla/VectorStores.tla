---------------------------- MODULE VectorStores ----------------------------
(***************************************************************************)
(* The vector store backends: the TypeScript packages virage-store-lancedb, *)
(* -postgres, -qdrant and -chromadb, and the engine's lancedb.rs,           *)
(* postgres.rs, qdrant.rs and chromadb.rs.  One writer calls the store; a   *)
(* call is one or several requests, each of which may fail, and the caller  *)
(* repeats a failed call from its start or gives up.  A search on the same  *)
(* ChromaDB instance builds its keyword index page by page meanwhile.       *)
(***************************************************************************)
EXTENDS Integers, Sequences, FiniteSets, SequencesExt, FiniteSetsExt

CONSTANTS
  Docs,       \* what may be upserted: [id, file, rev, tags]
  BATCH,      \* rows per upsert request of Qdrant and ChromaDB
  PAGE,       \* rows per page of a ChromaDB listing
  MaxSerial,  \* bound on the serial keys of the TypeScript Postgres table
  Metas,      \* index metas a run may write
  LikePairs   \* <<t, u>>: the tag t, read as a LIKE pattern, matches the tag u

ASSUME StoresAssumption == IsFiniteSet(Docs) /\ BATCH \in Nat \ {0} /\ PAGE \in Nat \ {0}

TsBackends == {"lanceTs", "pgTs", "qdrantTs", "chromaTs"}

RsBackends == {"lanceRs", "pgRs", "qdrantRs", "chromaRs"}

Ids == {d.id : d \in Docs}

DocFiles == {d.file : d \in Docs}

StoreTags == UNION {d.tags : d \in Docs}

NoCall == [op |-> "none"]

VARIABLES
  backend,    \* the configured store
  schema,     \* its table or collection: "absent", "old" or "ours"
  ready,      \* initialize() has returned in this process
  held,       \* its rows: [key, doc]
  serial,     \* the next serial key of the TypeScript Postgres table
  call,       \* the writer's call: [op, docs, files, keep, left]
  asked,      \* the rows the completed calls asked for
  fts,        \* ftsIndexCreated of the TypeScript LanceDB store
  ftsOnDisk,  \* the table has the full text index
  miniStale,  \* miniSearchStale of the TypeScript ChromaDB store
  mini,       \* the ids in its keyword index
  build,      \* the ids the running build of it has read, or None
  missed,     \* a write was under way when a build read the collection
  metaRows,   \* the rows of the LanceDB meta table, or the Rust meta file
  metaAsked   \* the last meta whose write completed or was begun

storeVars == <<backend, schema, ready, held, serial, call, asked, fts, ftsOnDisk,
               miniStale, mini, build, missed, metaRows, metaAsked>>

NoBuild == [read |-> -1, ids |-> {}]

Torn == "torn"

----------------------------------------------------------------------------
(* Rows.                                                                    *)

Content(rows) == {r.doc : r \in rows}

\* A row of a store whose key is the chunk id: mergeInsert("id"), ON CONFLICT
\* (id) DO UPDATE, a Qdrant point, a ChromaDB id.
Put(rows, docs) ==
  {r \in rows : r.doc.id \notin {d.id : d \in docs}}
    \cup {[key |-> d.id, doc |-> d] : d \in docs}

OfFiles(rows, files) == {r \in rows : r.doc.file \in files}

\* What the calls so far asked for, as a set of documents with one per id.
Overwritten(docs, new) == {d \in docs : d.id \notin {n.id : n \in new}} \cup new

FirstN(s, n) == SubSeq(s, 1, IF n < Len(s) THEN n ELSE Len(s))

----------------------------------------------------------------------------
(* Initialize: the process starts on a table that exists or not.            *)

\* The rows of a table an earlier version or another dimension left.
StoresInit ==
  /\ backend \in TsBackends \cup RsBackends
  /\ ready = FALSE /\ call = NoCall /\ serial = 1
  /\ \/ schema = "absent" /\ held = {}
     \/ /\ schema = "old" /\ backend \in {"lanceTs", "pgTs", "pgRs"}
        /\ \E d \in Docs : held = {[key |-> d.id, doc |-> d]}
  /\ asked = Content(held)
  /\ fts = FALSE /\ ftsOnDisk = FALSE
  /\ miniStale = TRUE /\ mini = {} /\ build = NoBuild /\ missed = FALSE
  /\ metaRows = <<>> /\ metaAsked = <<>>

\* The process begins; the caches of the store instance are new.
Opened ==
  /\ ~ready /\ ready' = TRUE /\ schema' = "ours"
  /\ miniStale' = TRUE /\ mini' = {} /\ build' = NoBuild /\ missed' = FALSE
  /\ UNCHANGED <<backend, serial, call, metaAsked>>

\* A new table's full text index waits for the first upsert; for a table that
\* exists createIndex succeeds, or it throws and listIndices tells.  A changed
\* column set or dimension drops the table and its meta table.
LanceTsInitialize ==
  /\ backend = "lanceTs" /\ Opened
  /\ \/ /\ schema \in {"absent", "old"}
        /\ held' = {} /\ asked' = {} /\ metaRows' = <<>>
        /\ fts' = FALSE /\ ftsOnDisk' = FALSE
     \/ /\ schema = "ours"
        /\ \/ fts' = TRUE /\ ftsOnDisk' = TRUE
           \/ fts' \in {FALSE, ftsOnDisk} /\ UNCHANGED ftsOnDisk
        /\ UNCHANGED <<held, asked, metaRows>>

LanceRsInitialize ==
  /\ backend = "lanceRs" /\ Opened
  /\ ftsOnDisk' \in {ftsOnDisk, schema = "ours"}
  /\ UNCHANGED <<held, asked, fts, metaRows>>

\* A table of an older schema (columns content, context_text) is dropped.
DropOldTable ==
  /\ Opened
  /\ held' = IF schema = "old" THEN {} ELSE held
  /\ asked' = IF schema = "old" THEN {} ELSE asked
  /\ UNCHANGED <<fts, ftsOnDisk, metaRows>>

PgTsInitialize == backend = "pgTs" /\ DropOldTable

PgRsInitialize == backend = "pgRs" /\ DropOldTable

\* A collection is taken as it is or created.
GetOrCreate == Opened /\ UNCHANGED <<held, asked, fts, ftsOnDisk, metaRows>>

QdrantTsInitialize == backend = "qdrantTs" /\ GetOrCreate

QdrantRsInitialize == backend = "qdrantRs" /\ GetOrCreate

ChromaTsInitialize == backend = "chromaTs" /\ GetOrCreate

ChromaRsInitialize == backend = "chromaRs" /\ GetOrCreate

\* The process ends or is killed, in the middle of a call too; the next one may
\* be configured for vectors of another dimension.
Restart ==
  /\ ready /\ ready' = FALSE
  /\ call' = NoCall /\ asked' = Content(held)
  /\ schema' \in {schema, IF backend = "lanceTs" THEN "old" ELSE schema}
  /\ UNCHANGED <<backend, held, serial, fts, ftsOnDisk, miniStale, mini, build,
                 missed, metaRows, metaAsked>>

----------------------------------------------------------------------------
(* Upsert.                                                                  *)

\* The documents of one upsert, one per id, in any order.
Batches == {s \in SeqOf(Docs, Cardinality(Ids)) :
              s # <<>> /\ \A i, j \in DOMAIN s : s[i].id = s[j].id => i = j}

StartUpsert(docs) ==
  /\ ready /\ call = NoCall
  /\ call' = [op |-> "upsert", docs |-> docs, files |-> {}, keep |-> {}, left |-> docs]
  /\ miniStale' = (miniStale \/ backend = "chromaTs")
  /\ missed' = (missed /\ build # NoBuild)
  /\ UNCHANGED <<backend, schema, ready, held, serial, asked, fts, ftsOnDisk, mini, build,
                 metaRows, metaAsked>>

\* One request of the upsert lands: these rows, and what is left to send.
Land(rows, left) ==
  /\ held' = rows
  /\ call' = [call EXCEPT !.left = left]
  /\ missed' = (missed \/ build # NoBuild)
  /\ UNCHANGED <<backend, schema, ready, asked, miniStale, mini, build, metaRows, metaAsked>>

Upserting(b) == backend = b /\ call.op = "upsert" /\ call.left # <<>>

\* mergeInsert is one transaction; then the deferred full text index is made.
\* Whatever createIndex throws is taken for "already there".
LanceTsUpsert ==
  /\ Upserting("lanceTs")
  /\ Land(Put(held, ToSet(call.left)), <<>>)
  /\ \/ fts' = TRUE /\ ftsOnDisk' = TRUE
     \/ fts' = TRUE /\ UNCHANGED ftsOnDisk
  /\ UNCHANGED serial

LanceRsUpsert ==
  /\ Upserting("lanceRs")
  /\ Land(Put(held, ToSet(call.left)), <<>>)
  /\ ftsOnDisk' = TRUE
  /\ UNCHANGED <<serial, fts>>

\* INSERT ... ON CONFLICT DO NOTHING, a document at a time: the only key is the
\* serial id, so nothing ever conflicts.
PgTsUpsert ==
  /\ Upserting("pgTs") /\ serial <= MaxSerial
  /\ Land(held \cup {[key |-> serial, doc |-> Head(call.left)]}, Tail(call.left))
  /\ serial' = serial + 1
  /\ UNCHANGED <<fts, ftsOnDisk>>

\* ON CONFLICT (id) DO UPDATE, a document at a time and in no transaction.
PgRsUpsert ==
  /\ Upserting("pgRs")
  /\ Land(Put(held, {Head(call.left)}), Tail(call.left))
  /\ UNCHANGED <<serial, fts, ftsOnDisk>>

NextBatch(b) ==
  /\ Upserting(b)
  /\ Land(Put(held, ToSet(FirstN(call.left, BATCH))),
          SubSeq(call.left, BATCH + 1, Len(call.left)))
  /\ UNCHANGED <<serial, fts, ftsOnDisk>>

QdrantTsUpsert == NextBatch("qdrantTs")

QdrantRsUpsert == NextBatch("qdrantRs")

ChromaTsUpsert == NextBatch("chromaTs")

ChromaRsUpsert == NextBatch("chromaRs")

----------------------------------------------------------------------------
(* Deletion, by source file and of the chunks a file no longer has.         *)

StartDelete(files) ==
  /\ ready /\ call = NoCall /\ files # {}
  /\ call' = [op |-> "delete", docs |-> <<>>, files |-> files, keep |-> {},
              left |-> SetToSeq(files)]
  /\ miniStale' = (miniStale \/ backend = "chromaTs")
  /\ missed' = (missed /\ build # NoBuild)
  /\ UNCHANGED <<backend, schema, ready, held, serial, asked, fts, ftsOnDisk, mini, build,
                 metaRows, metaAsked>>

DeleteAtOnce(b) ==
  /\ backend = b /\ call.op = "delete" /\ call.left # <<>>
  /\ Land(held \ OfFiles(held, call.files), <<>>)
  /\ UNCHANGED <<serial, fts, ftsOnDisk>>

LanceTsDelete == DeleteAtOnce("lanceTs")

LanceRsDelete == DeleteAtOnce("lanceRs")

PgTsDelete == DeleteAtOnce("pgTs")

PgRsDelete == DeleteAtOnce("pgRs")

QdrantTsDelete == DeleteAtOnce("qdrantTs")

ChromaTsDelete == DeleteAtOnce("chromaTs")

ChromaRsDelete == DeleteAtOnce("chromaRs")

\* Faulty variant: the loop over the files ends with the first one.
QdrantRsDeleteFirst ==
  /\ backend = "qdrantRs" /\ call.op = "delete" /\ call.left # <<>>
  /\ Land(held \ OfFiles(held, {Head(call.left)}), <<>>)
  /\ UNCHANGED <<serial, fts, ftsOnDisk>>

\* A request per file.
QdrantRsDelete ==
  /\ backend = "qdrantRs" /\ call.op = "delete" /\ call.left # <<>>
  /\ Land(held \ OfFiles(held, {Head(call.left)}), Tail(call.left))
  /\ UNCHANGED <<serial, fts, ftsOnDisk>>

\* deleteOrphanedChunks: keeping nothing is deleteBySourceFile.
StartOrphans(file, keep) ==
  /\ backend \in TsBackends /\ ready /\ call = NoCall
  /\ IF keep = {} /\ backend # "chromaTs"
     THEN StartDelete({file})
     ELSE /\ call' = [op |-> IF backend = "chromaTs" THEN "list" ELSE "orphans",
                      docs |-> <<>>, files |-> {file}, keep |-> keep, left |-> <<file>>]
          /\ UNCHANGED <<backend, schema, ready, held, serial, asked, fts, ftsOnDisk, miniStale,
                         mini, build, missed, metaRows, metaAsked>>

Orphans == {r \in OfFiles(held, call.files) : r.doc.id \notin call.keep}

OrphansAtOnce(b) ==
  /\ backend = b /\ call.op = "orphans" /\ call.left # <<>>
  /\ Land(held \ Orphans, <<>>)
  /\ UNCHANGED <<serial, fts, ftsOnDisk>>

LanceTsOrphans == OrphansAtOnce("lanceTs")

QdrantTsOrphans == OrphansAtOnce("qdrantTs")

\* The serial id is compared with text hashes: the statement is refused.
PgTsOrphans ==
  /\ backend = "pgTs" /\ call.op = "orphans"
  /\ call' = NoCall /\ asked' = Content(held)
  /\ UNCHANGED <<backend, schema, ready, held, serial, fts, ftsOnDisk, miniStale, mini, build,
                 missed, metaRows, metaAsked>>

\* The ids of the file's rows are listed first, then deleted by id.
ChromaTsList ==
  /\ backend = "chromaTs" /\ call.op = "list"
  /\ call' = [call EXCEPT !.op = "orphans",
                          !.left = IF Orphans = {} THEN <<>> ELSE @]
  /\ miniStale' = (miniStale \/ Orphans # {})
  /\ missed' = (missed /\ (Orphans = {} \/ build # NoBuild))
  /\ UNCHANGED <<backend, schema, ready, held, serial, asked, fts, ftsOnDisk, mini, build,
                 metaRows, metaAsked>>

ChromaTsOrphans == OrphansAtOnce("chromaTs")

----------------------------------------------------------------------------
(* The end of a call.                                                       *)

\* What the call asks of the rows.
Wanted ==
  IF call.op = "upsert" THEN Overwritten(asked, ToSet(call.docs))
  ELSE IF call.op = "delete" THEN {d \in asked : d.file \notin call.files}
  ELSE {d \in asked : d.file \notin call.files \/ d.id \in call.keep}

Return ==
  /\ call.op \in {"upsert", "delete", "orphans"} /\ call.left = <<>>
  /\ asked' = Wanted
  /\ call' = NoCall
  /\ UNCHANGED <<backend, schema, ready, held, serial, fts, ftsOnDisk, miniStale, mini, build,
                 missed, metaRows, metaAsked>>

\* A request fails: the caller repeats the whole call.
Repeat ==
  /\ call.op \in {"upsert", "delete"} /\ call.left # <<>>
  /\ call' = [call EXCEPT !.left = IF @ = <<>> THEN @
                                   ELSE IF call.op = "upsert" THEN call.docs
                                   ELSE SetToSeq(call.files)]
  /\ miniStale' = (miniStale \/ backend = "chromaTs")
  /\ missed' = (missed /\ build # NoBuild)
  /\ UNCHANGED <<backend, schema, ready, held, serial, asked, fts, ftsOnDisk, mini, build,
                 metaRows, metaAsked>>

\* The caller gives up; what landed stays.
GiveUp ==
  /\ call # NoCall
  /\ call' = NoCall /\ asked' = Content(held)
  /\ UNCHANGED <<backend, schema, ready, held, serial, fts, ftsOnDisk, miniStale, mini, build,
                 missed, metaRows, metaAsked>>

----------------------------------------------------------------------------
(* The keyword index of the TypeScript ChromaDB store.                      *)

\* The ids of the rows from an offset, a page of them.
PageAt(n) ==
  LET ids == SetToSeq({r.doc.id : r \in held})
  IN {ids[i] : i \in DOMAIN ids \cap (n + 1)..(n + PAGE)}

StartBuild ==
  /\ backend = "chromaTs" /\ ready /\ miniStale /\ build = NoBuild
  /\ build' = [read |-> 0, ids |-> {}]
  /\ UNCHANGED <<backend, schema, ready, held, serial, call, asked, fts, ftsOnDisk, miniStale,
                 mini, missed, metaRows, metaAsked>>

\* A page is read; the last one, shorter than a page, ends the build: the index
\* is replaced and no longer stale.
BuildPage ==
  /\ ready /\ build # NoBuild
  /\ LET page == PageAt(build.read)
         ids  == build.ids \cup page
     IN IF Cardinality(page) < PAGE
        THEN /\ mini' = ids /\ miniStale' = FALSE /\ build' = NoBuild
             /\ missed' = (missed \/ call # NoCall)
        ELSE /\ build' = [read |-> build.read + PAGE, ids |-> ids]
             /\ UNCHANGED <<mini, miniStale, missed>>
  /\ UNCHANGED <<backend, schema, ready, held, serial, call, asked, fts, ftsOnDisk,
                 metaRows, metaAsked>>

----------------------------------------------------------------------------
(* The meta of the index.                                                   *)

\* TypeScript LanceDB: the row is deleted, then added.
WriteMetaDelete(meta) ==
  /\ backend = "lanceTs" /\ ready /\ call = NoCall
  /\ call' = [op |-> "meta", docs |-> <<>>, files |-> {}, keep |-> {}, left |-> <<meta>>]
  /\ metaRows' = <<>> /\ metaAsked' = <<meta>>
  /\ UNCHANGED <<backend, schema, ready, held, serial, asked, fts, ftsOnDisk, miniStale, mini,
                 build, missed>>

WriteMetaAdd ==
  /\ call.op = "meta"
  /\ metaRows' = metaRows \o call.left
  /\ call' = NoCall
  /\ UNCHANGED <<backend, schema, ready, held, serial, asked, fts, ftsOnDisk, miniStale, mini,
                 build, missed, metaAsked>>

\* Rust LanceDB: the file is written in place, and a kill leaves it torn.
WriteMetaFile(meta) ==
  /\ backend = "lanceRs" /\ ready /\ call = NoCall
  /\ metaRows' \in {<<meta>>, <<Torn>>} /\ metaAsked' = <<meta>>
  /\ UNCHANGED <<backend, schema, ready, held, serial, call, asked, fts, ftsOnDisk, miniStale,
                 mini, build, missed>>

\* readMeta: the first row, or what the schema of the table tells ("unknown").
LanceTsReadMeta == IF metaRows = <<>> THEN "unknown" ELSE Head(metaRows)

LanceRsReadMeta ==
  IF metaRows = <<>> THEN "none"
  ELSE IF Head(metaRows) = Torn THEN "error" ELSE Head(metaRows)

----------------------------------------------------------------------------
(* Reads the writer decides by: which chunks need no upsert, and which       *)
(* revision of each file the store has.  Each is the set of possible answers; *)
(* no answer means the call fails.                                           *)

HeldIds == {r.doc.id : r \in held}

LanceTsExisting(hashes) == {hashes \cap HeldIds}

\* The serial id is compared with text: the statement is refused.
PgTsExisting(hashes) == IF hashes = {} THEN {{}} ELSE {}

QdrantTsExisting(hashes) == {hashes \cap HeldIds}

ChromaTsExisting(hashes) == {hashes \cap HeldIds}

LanceRsExisting(hashes) == {hashes \cap HeldIds}

PgRsExisting(hashes) == {hashes \cap HeldIds}

QdrantRsExisting(hashes) == {hashes \cap HeldIds}

\* An error status is answered with no hash at all.
ChromaRsExisting(hashes) == {hashes \cap HeldIds, {}}

\* The rows are folded into a map from file to revision; the last one read
\* decides, and their order is not fixed.
StatesOf(rows) ==
  {state \in SUBSET {<<r.doc.file, r.doc.rev>> : r \in rows} :
     \A f \in {r.doc.file : r \in rows} : Cardinality({e \in state : e[1] = f}) = 1}

PgTsState == StatesOf(held)

QdrantTsState == StatesOf(held)

ChromaTsState == StatesOf(held)

LanceRsState == StatesOf(held)

PgRsState == StatesOf(held)

QdrantRsState == StatesOf(held)

\* Page after page; an error status ends the listing as if it were complete.
ChromaRsState ==
  LET rows == SetToSeq(held)
  IN UNION {StatesOf(ToSet(SubSeq(rows, 1, n))) :
              n \in {m \in 0..Len(rows) : m % PAGE = 0 \/ m = Len(rows)}}

----------------------------------------------------------------------------
(* Search.  vs and ts are the rows in the order of the vector index and of  *)
(* the keyword index; a result is [key, tags], the tags as the caller or    *)
(* the filter sees them.                                                    *)

RRF_K == 60

\* 1 / (RRF_K + rank) times a common multiple of 61 .. 64: lists of at most 4.
Reciprocal(rank) == (61 * 62 * 63 * 64) \div (RRF_K + rank)

RankIn(key, list) == CHOOSE i \in DOMAIN list : list[i].key = key

KeysIn(list) == {list[i].key : i \in DOMAIN list}

\* The score of a result, with the default weights 0.6 and 0.4.
RrfScore(key, vectorResults, textResults) ==
  (IF key \in KeysIn(vectorResults) THEN 6 * Reciprocal(RankIn(key, vectorResults)) ELSE 0)
  + (IF key \in KeysIn(textResults) THEN 4 * Reciprocal(RankIn(key, textResults)) ELSE 0)

\* A result of both lists is shown as the vector list has it.
RrfMerge(vectorResults, textResults, k) ==
  LET keys   == KeysIn(vectorResults) \cup KeysIn(textResults)
      seen   == vectorResults \o textResults
      ranked == SetToSortSeq(keys, LAMBDA a, b :
                  LET sa == RrfScore(a, vectorResults, textResults)
                      sb == RrfScore(b, vectorResults, textResults)
                  IN sa > sb \/ (sa = sb /\ SelectInSeq(seen, LAMBDA r : r.key = a)
                                            < SelectInSeq(seen, LAMBDA r : r.key = b)))
  IN FirstN([i \in DOMAIN ranked |->
               seen[SelectInSeq(seen, LAMBDA r : r.key = ranked[i])]], k)

\* Faulty variant: a result without labels passes the filter.
LabelledOrBare(results, tags) ==
  SelectSeq(results, LAMBDA r : tags = {} \/ r.tags = {} \/ r.tags \cap tags # {})

\* The label filter the TypeScript stores apply to what they fetched.
Labelled(results, tags) ==
  SelectSeq(results, LAMBDA r : tags = {} \/ r.tags \cap tags # {})

\* rowToResult, payloadToResult and the others keep the tags in the metadata.
LanceTsResult(row) == [key |-> row.key, tags |-> row.doc.tags]

QdrantTsResult(row) == [key |-> row.key, tags |-> row.doc.tags]

ChromaTsResult(row) == [key |-> row.key, tags |-> row.doc.tags]

\* A hit of the keyword index has the id and no metadata.
ChromaTsHit(id) == [key |-> id, tags |-> {}]

LanceTsVector(vs, limit) == [i \in DOMAIN FirstN(vs, limit) |-> LanceTsResult(vs[i])]

\* A full text search that fails, as without an index, finds nothing.
LanceTsText(ts, limit) ==
  IF ftsOnDisk THEN [i \in DOMAIN FirstN(ts, limit) |-> LanceTsResult(ts[i])] ELSE <<>>

LanceTsSearch(vs, ts, k, tags, hybrid) ==
  IF hybrid /\ fts
  THEN Labelled(RrfMerge(LanceTsVector(vs, 2 * k), LanceTsText(ts, 2 * k), k), tags)
  ELSE FirstN(Labelled(LanceTsVector(vs, IF tags = {} THEN k ELSE 4 * k), tags), k)

\* The rows fetched are put in the order cs of similarity and recency.
PgTsSearch(cs, ts, k, tags, hybrid) ==
  LET rows == [i \in DOMAIN cs |-> [key |-> cs[i].key, tags |-> cs[i].doc.tags]]
      text == [i \in DOMAIN FirstN(ts, 2 * k) |->
                 [key |-> ts[i].key, tags |-> ts[i].doc.tags]]
  IN Labelled(IF hybrid THEN RrfMerge(rows, text, k) ELSE FirstN(rows, k), tags)

QdrantTsSearch(vs, ts, k, tags, hybrid) ==
  LET Fetched(s, n) == [i \in DOMAIN FirstN(s, n) |-> QdrantTsResult(s[i])]
  IN IF hybrid
     THEN Labelled(RrfMerge(Fetched(vs, 2 * k), Fetched(ts, 2 * k), k), tags)
     ELSE FirstN(Labelled(Fetched(vs, IF tags = {} THEN k ELSE 4 * k), tags), k)

ChromaTsSearch(vs, hits, k, tags, hybrid) ==
  LET limit  == IF tags = {} THEN k ELSE 4 * k
      vector == [i \in DOMAIN FirstN(vs, limit) |-> ChromaTsResult(vs[i])]
      text   == [i \in DOMAIN FirstN(hits, limit) |-> ChromaTsHit(hits[i])]
  IN FirstN(Labelled(IF hybrid THEN RrfMerge(vector, text, k) ELSE vector, tags), k)

\* The Rust stores filter in the query.  LanceDB matches the packed tags with
\* LIKE, where an underscore stands for any character.
DocsToBatch(doc) == doc.tags

TagFilterExpr(packed, tags) ==
  \E t \in tags, u \in packed : t = u \/ <<t, u>> \in LikePairs

LanceRsSearch(vs, k, tags) ==
  FirstN(SelectSeq(vs, LAMBDA r : tags = {} \/ TagFilterExpr(DocsToBatch(r.doc), tags)), k)

\* The payload of a Qdrant point keeps the tags in an array.
DocToPoint(doc) == doc.tags

QdrantRsSearch(vs, k, tags) ==
  FirstN(SelectSeq(vs, LAMBDA r : tags = {} \/ DocToPoint(r.doc) \cap tags # {}), k)

PgRsSearch(vs, k, tags) ==
  FirstN(SelectSeq(vs, LAMBDA r : tags = {} \/ r.doc.tags \cap tags # {}), k)

\* ChromaDB metadata has a flag per tag.
DocToMeta(doc) == [t \in StoreTags |-> t \in doc.tags]

ChromaRsSearch(vs, k, tags) ==
  FirstN(SelectSeq(vs, LAMBDA r : tags = {} \/ \E t \in tags : DocToMeta(r.doc)[t]), k)

----------------------------------------------------------------------------

StoresNext ==
  \/ LanceTsInitialize \/ PgTsInitialize \/ QdrantTsInitialize \/ ChromaTsInitialize
  \/ LanceRsInitialize \/ PgRsInitialize \/ QdrantRsInitialize \/ ChromaRsInitialize
  \/ Restart
  \/ \E docs \in Batches : StartUpsert(docs)
  \/ LanceTsUpsert \/ PgTsUpsert \/ QdrantTsUpsert \/ ChromaTsUpsert
  \/ LanceRsUpsert \/ PgRsUpsert \/ QdrantRsUpsert \/ ChromaRsUpsert
  \/ \E files \in SUBSET DocFiles : StartDelete(files)
  \/ LanceTsDelete \/ PgTsDelete \/ QdrantTsDelete \/ ChromaTsDelete
  \/ LanceRsDelete \/ PgRsDelete \/ QdrantRsDelete \/ ChromaRsDelete
  \/ \E file \in DocFiles, keep \in SUBSET Ids : StartOrphans(file, keep)
  \/ LanceTsOrphans \/ PgTsOrphans \/ QdrantTsOrphans
  \/ ChromaTsList \/ ChromaTsOrphans
  \/ Return \/ Repeat \/ GiveUp
  \/ StartBuild \/ BuildPage
  \/ \E meta \in Metas : WriteMetaDelete(meta) \/ WriteMetaFile(meta)
  \/ WriteMetaAdd

StoresSpec == StoresInit /\ [][StoresNext]_storeVars

----------------------------------------------------------------------------
(* Properties.                                                              *)

\* The store's table, the writer's call and the caches of the store instance
\* are what the code can hold; the keyed stores have one row per chunk id.
StoresTypeOK ==
  /\ backend \in TsBackends \cup RsBackends /\ schema \in {"absent", "old", "ours"}
  /\ \A r \in held : r.doc \in Docs /\ (ready /\ backend # "pgTs" => r.key = r.doc.id)
  /\ \A r, q \in held : r.key = q.key => r = q
  /\ asked \subseteq Docs /\ mini \subseteq Ids
  /\ fts \in BOOLEAN /\ ftsOnDisk \in BOOLEAN /\ miniStale \in BOOLEAN
  /\ Len(metaRows) <= 1

\* When a call returns, after any number of failed attempts that landed in
\* part, the table holds what the completed calls asked for and nothing else.
\* The TypeScript Postgres table, whose inserts never conflict, keeps the rows
\* an upsert should have replaced as well.
HoldsWhatWasAsked ==
  ready /\ call = NoCall =>
    /\ asked \subseteq Content(held)
    /\ backend # "pgTs" => Content(held) = asked

\* The keyword index of the ChromaDB store that is not marked stale has the
\* chunks of the collection, unless a write was under way while it was built.
KeywordIndexFresh ==
  backend = "chromaTs" /\ ~miniStale /\ ~missed /\ call = NoCall =>
    mini = {r.doc.id : r \in held}

\* The meta read back after a kill at any point of a write is the one last
\* written or none, never the one of an earlier index.
MetaNeverStale ==
  /\ backend = "lanceTs" => LanceTsReadMeta \in {"unknown"} \cup ToSet(metaAsked)
  /\ backend = "lanceRs" => LanceRsReadMeta \in {"none", "error"} \cup ToSet(metaAsked)

\* A store, whichever it is, holds what it was asked to: its table, its keyword
\* index and its meta row follow the completed calls through failed attempts,
\* retries and kills.
ContentsAsAsked ==
  StoresTypeOK /\ HoldsWhatWasAsked /\ KeywordIndexFresh /\ MetaNeverStale

\* The answers of the configured store for one order of the rows.
Answers(vs, ts, k, tags, hybrid) ==
  CASE backend = "lanceTs"  -> {LanceTsSearch(vs, ts, k, tags, hybrid)}
    [] backend = "pgTs"     -> {PgTsSearch(cs, ts, k, tags, hybrid) :
                                  cs \in SetToSeqs(ToSet(FirstN(vs, 2 * k)))}
    [] backend = "qdrantTs" -> {QdrantTsSearch(vs, ts, k, tags, hybrid)}
    [] backend = "chromaTs" -> {ChromaTsSearch(vs, hits, k, tags, hybrid) :
                                  hits \in SetToSeqs(mini)}
    [] backend = "lanceRs"  -> {LanceRsSearch(vs, k, tags)}
    [] backend = "qdrantRs" -> {QdrantRsSearch(vs, k, tags)}
    [] backend = "pgRs"     -> {PgRsSearch(vs, k, tags)}
    [] backend = "chromaRs" -> {ChromaRsSearch(vs, k, tags)}

RowOf(key) == CHOOSE r \in held : r.key = key

\* A tag LanceDB's LIKE would read as a pattern for another one.
Wild(tags) == \E t \in tags, u \in StoreTags : <<t, u>> \in LikePairs

\* A search returns at most k rows, none twice and, asked for tags, only rows
\* of the table that carry one of them (an underscore in a tag aside, in the
\* engine's LanceDB).
SearchSound ==
  ready /\ call = NoCall =>
    \A vs \in SetToSeqs(held), k \in 1..2,
       tags \in SUBSET StoreTags, hybrid \in BOOLEAN :
      \A ts \in {<<>>, vs, Reverse(vs)} : \A answer \in Answers(vs, ts, k, tags, hybrid) :
        /\ Len(answer) <= k
        /\ \A i, j \in DOMAIN answer : answer[i].key = answer[j].key => i = j
        /\ tags # {} /\ ~(backend = "lanceRs" /\ Wild(tags)) =>
             \A i \in DOMAIN answer :
               /\ answer[i].key \in {r.key : r \in held}
               /\ RowOf(answer[i].key).doc.tags \cap tags # {}

\* Searches that cut to k before they look at the tags: every hybrid one of the
\* TypeScript stores, and every one of the TypeScript Postgres store.
CutsFirst(hybrid) ==
  \/ backend = "pgTs"
  \/ hybrid /\ (backend \in {"qdrantTs", "chromaTs"} \/ (backend = "lanceTs" /\ fts))

\* The engine's stores return the k nearest of the rows that match.  Of the
\* TypeScript stores:
\*   - without tags, a search, hybrid or not, returns as many rows as there are
\*     up to k;
\*   - a vector search with tags of LanceDB, Qdrant and ChromaDB returns the k
\*     nearest matches as long as no match ranks beyond the 4 k rows it fetches;
\*   - a search that cuts first (CutsFirst) promises much less: it may return
\*     fewer than k rows, or none, while matches are in the table, whenever more
\*     than k rows (or, in ChromaDB, ids of an outdated keyword index) compete.
\*     Only when there are no more than k does it return every match.
SearchComplete ==
  ready /\ call = NoCall =>
    \A vs \in SetToSeqs(held), k \in 1..2,
       tags \in SUBSET StoreTags, hybrid \in BOOLEAN :
      LET match == SelectSeq(vs, LAMBDA r : tags = {} \/ r.doc.tags \cap tags # {})
          competing == {r.key : r \in held} \cup (IF hybrid /\ backend = "chromaTs"
                                                  THEN mini ELSE {})
      IN \A ts \in {<<>>, Reverse(vs)} : \A answer \in Answers(vs, ts, k, tags, hybrid) :
           /\ backend \in RsBackends /\ ~(backend = "lanceRs" /\ Wild(tags)) =>
                answer = FirstN(match, k)
           /\ backend \in TsBackends /\ tags = {} =>
                Len(answer) >= Len(FirstN(vs, k))
           /\ backend \in TsBackends /\ ~CutsFirst(hybrid) /\ Len(vs) <= 4 * k =>
                [i \in DOMAIN answer |-> answer[i].key]
                  = [i \in DOMAIN FirstN(match, k) |-> match[i].key]
           /\ CutsFirst(hybrid) /\ Cardinality(competing) <= k =>
                KeysIn(match) \subseteq KeysIn(answer)

ExistingAnswers(hashes) ==
  CASE backend = "lanceTs"  -> LanceTsExisting(hashes)
    [] backend = "pgTs"     -> PgTsExisting(hashes)
    [] backend = "qdrantTs" -> QdrantTsExisting(hashes)
    [] backend = "chromaTs" -> ChromaTsExisting(hashes)
    [] backend = "lanceRs"  -> LanceRsExisting(hashes)
    [] backend = "qdrantRs" -> QdrantRsExisting(hashes)
    [] backend = "pgRs"     -> PgRsExisting(hashes)
    [] backend = "chromaRs" -> ChromaRsExisting(hashes)

StateAnswers ==
  CASE backend = "lanceTs"  -> StatesOf(held)
    [] backend = "pgTs"     -> PgTsState
    [] backend = "qdrantTs" -> QdrantTsState
    [] backend = "chromaTs" -> ChromaTsState
    [] backend = "lanceRs"  -> LanceRsState
    [] backend = "qdrantRs" -> QdrantRsState
    [] backend = "pgRs"     -> PgRsState
    [] backend = "chromaRs" -> ChromaRsState

\* Whatever the writer is told it need not send again was asked for by a call
\* that completed: a read that fails half way never names more, and only the
\* engine's ChromaDB store leaves files out.
ReadsHonest ==
  ready /\ call = NoCall =>
    /\ \A hashes \in SUBSET Ids : \A answer \in ExistingAnswers(hashes) :
         answer \subseteq hashes \cap {d.id : d \in asked}
    /\ \A state \in StateAnswers :
         /\ backend # "pgTs" => state \subseteq {<<d.file, d.rev>> : d \in asked}
         /\ backend # "chromaRs" =>
              {d.file : d \in asked} \subseteq {e[1] : e \in state}

\* What a store answers is not made up, and short only where SearchComplete says
\* so: searches give the nearest rows that match, and the lookups that decide what is not sent again name only
\* what was stored.
AnswersSound == SearchSound /\ SearchComplete /\ ReadsHonest
=============================================================================

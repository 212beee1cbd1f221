-------------------------- MODULE ComponentsProofs ---------------------------
(***************************************************************************)
(* Proofs about three components that share no state.  The vector stores:  *)
(* whichever backend is configured, its table, its keyword index and its   *)
(* meta row follow the completed calls, for any documents and any sizes of *)
(* batch and page.  The evaluation suite: what a report says was measured  *)
(* on whole archives and saved, however often the command was interrupted. *)
(* The throttle: the workers follow the memory, for any counts, hosts and  *)
(* watermarks.                                                             *)
(***************************************************************************)
EXTENDS Throttle, VectorStores, EvalSuite, Quality, SequenceTheorems,
        FiniteSetTheorems, WellFoundedInduction, TLAPS

-----------------------------------------------------------------------------
(* The invariant of the stores.                                             *)

Keyed == backend # "pgTs"

\* A row is a key and a document.  The stores that are keyed by the chunk id use
\* it, the TypeScript Postgres table the serial numbers spent so far.
Rows ==
  /\ backend \in TsBackends \cup RsBackends /\ schema \in {"absent", "old", "ours"}
  /\ ready \in BOOLEAN /\ (ready => schema = "ours")
  /\ serial \in Nat
  /\ \A r \in held : r.doc \in Docs /\ r = [key |-> r.key, doc |-> r.doc]
  /\ Keyed => \A r \in held : r.key = r.doc.id
  /\ ~Keyed /\ schema # "old" => \A r \in held : r.key \in Nat /\ r.key < serial
  /\ \A r, q \in held : r.key = q.key => r = q
  /\ asked \subseteq Docs
  /\ fts \in BOOLEAN /\ ftsOnDisk \in BOOLEAN

Distinct(s) == \A i, j \in DOMAIN s : s[i].id = s[j].id => i = j

\* What a call still has to send is a part of what it was given.
Called ==
  \/ call = NoCall
  \/ /\ ready
     /\ call = [op |-> call.op, docs |-> call.docs, files |-> call.files,
                keep |-> call.keep, left |-> call.left]
     /\ call.op \in {"upsert", "delete", "list", "orphans", "meta"}
     /\ call.docs \in Seq(Docs) /\ call.files \subseteq DocFiles
     /\ call.op = "upsert" =>
          /\ Distinct(call.docs)
          /\ call.left \in Seq(Docs) /\ Distinct(call.left)
          /\ ToSet(call.left) \subseteq ToSet(call.docs)
     /\ call.op \in {"delete", "list", "orphans"} => call.left \in Seq(call.files)
     /\ call.op \in {"list", "orphans"} =>
          backend \in TsBackends /\ (call.left # <<>> => ToSet(call.left) = call.files)
     /\ call.op = "meta" => backend = "lanceTs" /\ metaRows = <<>> /\ call.left = metaAsked
     /\ call.op = "list" => call.left # <<>>

Left == ToSet(call.left)

\* What the requests still to be sent make of the table is what the call wants,
\* whatever landed already and however often; the serial table keeps at least that.
Follows ==
  /\ call.op \in {"none", "meta"} =>
       asked \subseteq Content(held) /\ (Keyed => Content(held) = asked)
  /\ call.op = "upsert" =>
       /\ Wanted \subseteq Content(held) \cup Left
       /\ Keyed => Overwritten(Content(held), Left) = Wanted
  /\ call.op = "delete" =>
       /\ Wanted \subseteq Content(held)
       /\ Keyed => {d \in Content(held) : d.file \notin Left} = Wanted
  /\ call.op \in {"list", "orphans"} =>
       /\ Wanted \subseteq Content(held)
       /\ Keyed => {d \in Content(held) : d.file \notin Left \/ d.id \in call.keep} = Wanted

ListedIds == SetToSeq(HeldIds)

\* A build that no write disturbed has read the first ids of the collection; an
\* index that is not stale and was not disturbed is of the collection as it is, and
\* no write is under way that could change it.
Keywords ==
  /\ miniStale \in BOOLEAN /\ missed \in BOOLEAN /\ mini \subseteq Ids
  /\ build = NoBuild \/ (build \in [read : Nat, ids : SUBSET Ids] /\ backend = "chromaTs")
  /\ build # NoBuild /\ ~missed =>
       build.ids = {ListedIds[i] : i \in DOMAIN ListedIds \cap 1..build.read}
  /\ backend = "chromaTs" /\ ~miniStale /\ ~missed =>
       /\ mini = HeldIds
       /\ call.op \in {"none", "list"} \/ (call.op = "orphans" /\ call.left = <<>>)

\* The meta row is the last one written, or none, or torn.
MetaKept ==
  /\ metaAsked = <<>> \/ \E meta \in Metas : metaAsked = <<meta>>
  /\ metaRows \in {<<>>, metaAsked, <<Torn>>}
  /\ backend # "lanceRs" => metaRows \in {<<>>, metaAsked}

StoresInv == Rows /\ Called /\ Follows /\ Keywords /\ MetaKept

-----------------------------------------------------------------------------
(* Sequences.                                                              *)

\* SetToSeq lists a finite set, each element once.
LEMMA Listed ==
  ASSUME NEW S, IsFiniteSet(S)
  PROVE  /\ Cardinality(S) \in Nat
         /\ SetToSeq(S) \in [1..Cardinality(S) -> S]
         /\ \A i, j \in 1..Cardinality(S) : SetToSeq(S)[i] = SetToSeq(S)[j] => i = j
         /\ \A e \in S : \E i \in 1..Cardinality(S) : SetToSeq(S)[i] = e
<1>1. Cardinality(S) \in Nat /\ ExistsBijection(1..Cardinality(S), S)
  BY FS_CardinalityType
<1>2. \E f \in [1..Cardinality(S) -> S] : IsInjective(f)
  BY <1>1 DEF ExistsBijection, Bijection, Injection, IsInjective
<1>3. SetToSeq(S) \in [1..Cardinality(S) -> S] /\ IsInjective(SetToSeq(S))
  BY <1>2 DEF SetToSeq
<1>4. \A i, j \in 1..Cardinality(S) : SetToSeq(S)[i] = SetToSeq(S)[j] => i = j
  BY <1>3 DEF IsInjective
<1>5. SetToSeq(S) \in Injection(1..Cardinality(S), S)
  BY <1>3, <1>4 DEF Injection, IsInjective
<1>6. IsFiniteSet(1..Cardinality(S)) /\ Cardinality(1..Cardinality(S)) = Cardinality(S)
  BY <1>1, FS_Interval
<1>7. SetToSeq(S) \in Surjection(1..Cardinality(S), S)
  BY <1>5, <1>6, FS_Injection
<1> QED
  BY <1>1, <1>3, <1>4, <1>7 DEF Surjection

\* The same, as a sequence.
LEMMA ListedSeq ==
  ASSUME NEW S, IsFiniteSet(S)
  PROVE  SetToSeq(S) \in Seq(S) /\ ToSet(SetToSeq(S)) = S
<1>1. SetToSeq(S) \in [1..Cardinality(S) -> S] /\ Cardinality(S) \in Nat
  BY Listed
<1>2. SetToSeq(S) \in Seq(S)
  BY <1>1
<1>3. \A e \in S : \E i \in DOMAIN SetToSeq(S) : SetToSeq(S)[i] = e
  BY <1>1, Listed
<1> QED
  BY <1>1, <1>2, <1>3 DEF ToSet

\* A batch is cut off a sequence.
LEMMA Cut ==
  ASSUME NEW S, NEW s \in Seq(S), NEW n \in Nat, s # <<>>
  PROVE  LET first == FirstN(s, n)
             rest  == SubSeq(s, n + 1, Len(s))
         IN  /\ first \in Seq(S) /\ rest \in Seq(S)
             /\ ToSet(first) \cup ToSet(rest) = ToSet(s)
             /\ Distinct(s) =>
                  /\ Distinct(rest) /\ Distinct(first)
                  /\ \A d \in ToSet(first), e \in ToSet(rest) : d.id # e.id
<1> DEFINE m == IF n < Len(s) THEN n ELSE Len(s)
           first == FirstN(s, n)
           rest == SubSeq(s, n + 1, Len(s))
<1>1. Len(s) \in Nat /\ m \in 0..Len(s) /\ \A i \in 1..Len(s) : s[i] \in S
  OBVIOUS
<1>2. first = SubSeq(s, 1, m)
  BY DEF FirstN
<1> HIDE DEF first, m
<1>3. first \in Seq(S) /\ Len(first) = m /\ \A i \in 1..m : first[i] = s[i]
  BY <1>1, <1>2, SubSeqProperties
<1>4. rest \in Seq(S) /\ Len(rest) = Len(s) - m /\ \A i \in 1..Len(s) - m : rest[i] = s[i + m]
  <2>1. CASE n < Len(s)
    <3>1. m = n
      BY <2>1 DEF m
    <3> HIDE DEF rest
    <3>2. /\ rest \in Seq(S) /\ Len(rest) = Len(s) - (n + 1) + 1
          /\ \A i \in 1..Len(s) - (n + 1) + 1 : rest[i] = s[(n + 1) + i - 1]
      BY <1>1, <2>1, SubSeqProperties DEF rest
    <3> QED
      BY <1>1, <2>1, <3>1, <3>2
  <2>2. CASE ~(n < Len(s))
    <3>1. m = Len(s) /\ Len(s) < n + 1
      BY <1>1, <2>2 DEF m
    <3>2. rest = <<>>
      BY <1>1, <3>1, SubSeqEmpty
    <3> QED
      BY <1>1, <3>1, <3>2
  <2> QED
    BY <2>1, <2>2
<1> HIDE DEF rest
<1>5. ToSet(first) \cup ToSet(rest) = ToSet(s)
  <2>1. DOMAIN first = 1..m /\ DOMAIN rest = 1..Len(s) - m /\ DOMAIN s = 1..Len(s)
    BY <1>1, <1>3, <1>4
  <2>2. \A i \in 1..Len(s) : i \in 1..m \/ (i - m \in 1..Len(s) - m /\ s[i] = rest[i - m])
    BY <1>1, <1>4
  <2>3. \A i \in 1..Len(s) : s[i] \in ToSet(first) \cup ToSet(rest)
    BY <1>3, <2>1, <2>2 DEF ToSet
  <2>4. \A i \in 1..m : first[i] \in ToSet(s)
    BY <1>1, <1>3, <2>1 DEF ToSet
  <2>5. \A i \in 1..Len(s) - m : rest[i] \in ToSet(s)
    BY <1>1, <1>4, <2>1 DEF ToSet
  <2>6. ToSet(s) \subseteq ToSet(first) \cup ToSet(rest)
    BY <2>1, <2>3 DEF ToSet
  <2>7. ToSet(first) \subseteq ToSet(s) /\ ToSet(rest) \subseteq ToSet(s)
    BY <2>1, <2>4, <2>5 DEF ToSet
  <2> QED
    BY <2>6, <2>7
<1>6. ASSUME Distinct(s)
      PROVE  /\ Distinct(rest) /\ Distinct(first)
             /\ \A d \in ToSet(first), e \in ToSet(rest) : d.id # e.id
  <2>1. \A i, j \in 1..Len(s) : s[i].id = s[j].id => i = j
    BY <1>1, <1>6 DEF Distinct
  <2>2. Distinct(first)
    <3>1. \A i, j \in 1..m : first[i].id = first[j].id => i = j
      BY <1>1, <1>3, <2>1
    <3>2. DOMAIN first = 1..m
      BY <1>3
    <3> QED
      BY <3>1, <3>2 DEF Distinct
  <2>3. Distinct(rest)
    <3>1. \A i, j \in 1..Len(s) - m : rest[i].id = rest[j].id => i = j
      <4> SUFFICES ASSUME NEW i \in 1..Len(s) - m, NEW j \in 1..Len(s) - m,
                          rest[i].id = rest[j].id
                   PROVE  i = j
        OBVIOUS
      <4>1. i + m \in 1..Len(s) /\ j + m \in 1..Len(s)
        BY <1>1
      <4>2. s[i + m].id = s[j + m].id
        BY <1>4
      <4>3. i + m = j + m
        BY <2>1, <4>1, <4>2
      <4> QED
        BY <1>1, <4>3
    <3>2. DOMAIN rest = 1..Len(s) - m
      BY <1>4
    <3> QED
      BY <3>1, <3>2 DEF Distinct
  <2>4. \A i \in 1..m, j \in 1..Len(s) - m : first[i].id # rest[j].id
    BY <1>1, <1>3, <1>4, <2>1
  <2> QED
    BY <1>3, <1>4, <2>2, <2>3, <2>4 DEF ToSet
<1> QED
  BY <1>3, <1>4, <1>5, <1>6 DEF first, rest

-----------------------------------------------------------------------------
(* The rows.                                                               *)

\* Put replaces by id.
LEMMA PutContent ==
  ASSUME NEW rows, NEW docs
  PROVE  Content(Put(rows, docs)) = Overwritten(Content(rows), docs)
<1> DEFINE ids == {d.id : d \in docs}
           kept == {r \in rows : r.doc.id \notin ids}
           new == {[key |-> d.id, doc |-> d] : d \in docs}
<1>1. {r.doc : r \in kept} = {d \in {r.doc : r \in rows} : d.id \notin ids}
  OBVIOUS
<1>2. {r.doc : r \in new} = docs
  <2>1. \A d \in docs : [key |-> d.id, doc |-> d].doc = d
    OBVIOUS
  <2>2. \A r \in new : r.doc \in docs
    BY <2>1
  <2>3. \A d \in docs : \E r \in new : r.doc = d
    <3> SUFFICES ASSUME NEW d \in docs PROVE \E r \in new : r.doc = d
      OBVIOUS
    <3> WITNESS [key |-> d.id, doc |-> d] \in new
    <3> QED
      BY <2>1
  <2> HIDE DEF new
  <2> QED
    BY <2>2, <2>3
<1>3. {r.doc : r \in kept \cup new} = {r.doc : r \in kept} \cup {r.doc : r \in new}
  OBVIOUS
<1> QED
  BY <1>1, <1>2, <1>3 DEF Content, Put, Overwritten

\* It leaves the rows keyed and one for each id.
LEMMA PutRows ==
  ASSUME NEW rows, NEW docs, docs \subseteq Docs,
         \A r \in rows : r.doc \in Docs /\ r = [key |-> r.key, doc |-> r.doc] /\ r.key = r.doc.id,
         \A r, q \in rows : r.key = q.key => r = q,
         \A d, e \in docs : d.id = e.id => d = e
  PROVE  /\ \A r \in Put(rows, docs) :
              r.doc \in Docs /\ r = [key |-> r.key, doc |-> r.doc] /\ r.key = r.doc.id
         /\ \A r, q \in Put(rows, docs) : r.key = q.key => r = q
<1>1. ASSUME NEW r \in Put(rows, docs)
      PROVE  \/ r \in rows /\ r.key \notin {d.id : d \in docs}
             \/ \E d \in docs : r = [key |-> d.id, doc |-> d]
  BY <1>1 DEF Put
<1>2. ASSUME NEW r \in Put(rows, docs)
      PROVE  r.doc \in Docs /\ r = [key |-> r.key, doc |-> r.doc] /\ r.key = r.doc.id
  BY <1>1
<1>3. ASSUME NEW r \in Put(rows, docs), NEW q \in Put(rows, docs), r.key = q.key
      PROVE  r = q
  <2>1. CASE r \in rows /\ r.key \notin {d.id : d \in docs}
    BY <1>1, <1>3, <2>1
  <2>2. CASE q \in rows /\ q.key \notin {d.id : d \in docs}
    BY <1>1, <1>3, <2>2
  <2>3. CASE \E d, e \in docs : r = [key |-> d.id, doc |-> d] /\ q = [key |-> e.id, doc |-> e]
    BY <1>3, <2>3
  <2> QED
    BY <1>1, <2>1, <2>2, <2>3
<1> QED
  BY <1>2, <1>3

\* The files of a store are finitely many.
LEMMA FilesFinite ==
  ASSUME NEW S, S \subseteq DocFiles
  PROVE  IsFiniteSet(S)
<1> DEFINE f == [d \in Docs |-> d.file]
<1>1. f \in Surjection(Docs, DocFiles)
  BY DEF Surjection, DocFiles
<1>2. IsFiniteSet(DocFiles)
  BY <1>1, StoresAssumption, FS_Surjection
<1> QED
  BY <1>2, FS_Subset

\* And so are the ids.
LEMMA IdsFinite ==
  ASSUME NEW S, S \subseteq Ids
  PROVE  IsFiniteSet(S)
<1> DEFINE f == [d \in Docs |-> d.id]
<1>1. f \in Surjection(Docs, Ids)
  BY DEF Surjection, Ids
<1>2. IsFiniteSet(Ids)
  BY <1>1, StoresAssumption, FS_Surjection
<1> QED
  BY <1>2, FS_Subset

-----------------------------------------------------------------------------
(* Initialize, restart and the start of a call.                            *)

\* The process begins on what an earlier one left.
LEMMA StoresInitInv == StoresInit => StoresInv
<1> SUFFICES ASSUME StoresInit PROVE StoresInv
  OBVIOUS
<1>1. /\ backend \in TsBackends \cup RsBackends /\ schema \in {"absent", "old"}
      /\ ready = FALSE /\ call = NoCall /\ serial = 1 /\ call.op = "none"
      /\ miniStale = TRUE /\ missed = FALSE /\ mini = {} /\ build = NoBuild
      /\ metaRows = <<>> /\ metaAsked = <<>> /\ fts = FALSE /\ ftsOnDisk = FALSE
      /\ asked = Content(held)
  BY DEF StoresInit, NoCall
<1>2. /\ held = {} \/ \E d \in Docs : held = {[key |-> d.id, doc |-> d]}
      /\ schema = "old" \/ held = {}
  BY DEF StoresInit
<1>3. /\ \A r \in held : r.doc \in Docs /\ r = [key |-> r.key, doc |-> r.doc] /\ r.key = r.doc.id
      /\ \A r, q \in held : r.key = q.key => r = q
  BY <1>2
<1>4. asked \subseteq Docs
  BY <1>1, <1>3 DEF Content
<1>5. Rows
  BY <1>1, <1>2, <1>3, <1>4 DEF Rows
<1>6. Called /\ Follows /\ Keywords /\ MetaKept
  BY <1>1 DEF Called, Follows, Keywords, MetaKept
<1> QED
  BY <1>5, <1>6 DEF StoresInv

\* A table of an older schema is dropped with what it held; any other is taken as
\* it is.
LEMMA InitializeKeeps ==
  ASSUME StoresInv,
         \/ LanceTsInitialize \/ PgTsInitialize \/ QdrantTsInitialize \/ ChromaTsInitialize
         \/ LanceRsInitialize \/ PgRsInitialize \/ QdrantRsInitialize \/ ChromaRsInitialize
  PROVE  StoresInv'
<1> USE DEF StoresInv
<1>1. Opened
  BY DEF LanceTsInitialize, PgTsInitialize, QdrantTsInitialize, ChromaTsInitialize,
         LanceRsInitialize, PgRsInitialize, QdrantRsInitialize, ChromaRsInitialize,
         DropOldTable, GetOrCreate
<1>2. /\ ~ready /\ ready' = TRUE /\ schema' = "ours"
      /\ miniStale' = TRUE /\ mini' = {} /\ build' = NoBuild /\ missed' = FALSE
      /\ UNCHANGED <<backend, serial, call, metaAsked>>
  BY <1>1 DEF Opened
<1>3. call = NoCall /\ call' = NoCall /\ call.op = "none"
  BY <1>2 DEF Called, NoCall
<1>4. /\ \/ held' = {} /\ asked' = {}
         \/ held' = held /\ asked' = asked /\ (backend = "pgTs" => schema # "old")
      /\ metaRows' \in {metaRows, <<>>}
      /\ fts' \in BOOLEAN /\ ftsOnDisk' \in BOOLEAN
  BY <1>2
     DEF LanceTsInitialize, PgTsInitialize, QdrantTsInitialize, ChromaTsInitialize,
         LanceRsInitialize, PgRsInitialize, QdrantRsInitialize, ChromaRsInitialize,
         DropOldTable, GetOrCreate, Rows
<1>5. Rows'
  BY <1>2, <1>4 DEF Rows, Keyed
<1>6. Follows'
  BY <1>2, <1>3, <1>4 DEF Follows, Keyed, Content
<1> QED
  BY <1>2, <1>3, <1>4, <1>5, <1>6 DEF Called, Keywords, MetaKept

\* There is no call, or one of some kind.
LEMMA CallKinds ==
  ASSUME Called
  PROVE  /\ call = NoCall <=> call.op = "none"
         /\ call.op \in {"none", "upsert", "delete", "list", "orphans", "meta"}
BY DEF Called, NoCall

\* A batch of documents has none twice.
LEMMA BatchIsDistinct ==
  ASSUME NEW docs \in Batches
  PROVE  docs \in Seq(Docs) /\ Distinct(docs)
<1>1. Cardinality(Ids) \in Nat
  BY IdsFinite, FS_CardinalityType
<1>2. docs \in UNION {[1..m -> Docs] : m \in 0..Cardinality(Ids)}
  BY DEF Batches, SeqOf
<1>3. PICK m \in 0..Cardinality(Ids) : docs \in [1..m -> Docs]
  BY <1>2
<1>4. docs \in Seq(Docs)
  BY <1>1, <1>3
<1> QED
  BY <1>4 DEF Batches, Distinct

\* An upsert begins, with everything to send.
LEMMA StartUpsertKeeps ==
  ASSUME StoresInv, NEW docs \in Batches, StartUpsert(docs)
  PROVE  StoresInv'
<1> USE DEF StoresInv
<1>1. /\ ready /\ call = NoCall /\ call.op = "none"
      /\ call' = [op |-> "upsert", docs |-> docs, files |-> {}, keep |-> {}, left |-> docs]
      /\ miniStale' = (miniStale \/ backend = "chromaTs")
      /\ missed' = (missed /\ build # NoBuild)
      /\ UNCHANGED <<backend, schema, ready, held, serial, asked, fts, ftsOnDisk, mini, build,
                     metaRows, metaAsked>>
  BY DEF StartUpsert, NoCall
<1>2. docs \in Seq(Docs) /\ Distinct(docs)
  BY BatchIsDistinct
<1>3. Rows' /\ MetaKept'
  BY <1>1 DEF Rows, Keyed, MetaKept
<1>4. Called'
  BY <1>1, <1>2 DEF Called
<1>5. Follows'
  BY <1>1 DEF Follows, Keyed, Wanted, Overwritten, Left, Content
<1>6. Keywords'
  BY <1>1 DEF Keywords, HeldIds, ListedIds
<1> QED
  BY <1>3, <1>4, <1>5, <1>6

\* So does a deletion.
LEMMA StartDeleteKeeps ==
  ASSUME StoresInv, NEW files \in SUBSET DocFiles, StartDelete(files)
  PROVE  StoresInv'
<1> USE DEF StoresInv
<1>1. /\ ready /\ call = NoCall /\ call.op = "none"
      /\ call' = [op |-> "delete", docs |-> <<>>, files |-> files, keep |-> {},
                  left |-> SetToSeq(files)]
      /\ miniStale' = (miniStale \/ backend = "chromaTs")
      /\ missed' = (missed /\ build # NoBuild)
      /\ UNCHANGED <<backend, schema, ready, held, serial, asked, fts, ftsOnDisk, mini, build,
                     metaRows, metaAsked>>
  BY DEF StartDelete, NoCall
<1>2. SetToSeq(files) \in Seq(files) /\ ToSet(SetToSeq(files)) = files
  BY FilesFinite, ListedSeq
<1>3. Rows' /\ MetaKept'
  BY <1>1 DEF Rows, Keyed, MetaKept
<1>4. Called'
  BY <1>1, <1>2 DEF Called
<1>5. Wanted' = {d \in asked : d.file \notin files} /\ Left' = files
  BY <1>1, <1>2 DEF Wanted, Left
<1>6. Follows'
  BY <1>1, <1>5 DEF Follows, Keyed, Content
<1>7. Keywords'
  BY <1>1 DEF Keywords, HeldIds, ListedIds
<1> QED
  BY <1>3, <1>4, <1>6, <1>7

\* And the deletion of what a file no longer has.
LEMMA StartOrphansKeeps ==
  ASSUME StoresInv, NEW file \in DocFiles, NEW keep \in SUBSET Ids, StartOrphans(file, keep)
  PROVE  StoresInv'
<1> USE DEF StoresInv
<1>1. CASE keep = {} /\ backend # "chromaTs"
  BY <1>1, StartDeleteKeeps DEF StartOrphans
<1>2. CASE ~(keep = {} /\ backend # "chromaTs")
  <2> DEFINE op == IF backend = "chromaTs" THEN "list" ELSE "orphans"
  <2>1. /\ backend \in TsBackends /\ ready /\ call = NoCall /\ call.op = "none"
        /\ call' = [op |-> op, docs |-> <<>>, files |-> {file}, keep |-> keep, left |-> <<file>>]
        /\ UNCHANGED <<backend, schema, ready, held, serial, asked, fts, ftsOnDisk, miniStale,
                       mini, build, missed, metaRows, metaAsked>>
    BY <1>2 DEF StartOrphans, NoCall
  <2>2. op \in {"list", "orphans"} /\ (op = "orphans" => backend # "chromaTs")
    OBVIOUS
  <2> HIDE DEF op
  <2>3. <<file>> \in Seq({file}) /\ ToSet(<<file>>) = {file} /\ <<file>> # <<>>
    BY DEF ToSet
  <2>4. Rows' /\ MetaKept'
    BY <2>1 DEF Rows, Keyed, MetaKept
  <2>5. Called'
    BY <2>1, <2>2, <2>3 DEF Called
  <2>6. /\ Wanted' = {d \in asked : d.file \notin {file} \/ d.id \in keep}
        /\ Left' = {file} /\ call'.op = op /\ call'.keep = keep
    BY <2>1, <2>2, <2>3 DEF Wanted, Left
  <2>7. Follows'
    BY <2>1, <2>2, <2>6 DEF Follows, Keyed, Content
  <2>8. Keywords'
    BY <2>1, <2>2 DEF Keywords, HeldIds, ListedIds
  <2> QED
    BY <2>4, <2>5, <2>7, <2>8
<1> QED
  BY <1>1, <1>2

-----------------------------------------------------------------------------
(* The end of a call.                                                      *)

\* After a call that was given up the table is what it is.
LEMMA EndsKeep ==
  ASSUME StoresInv,
         call' = NoCall, asked' = Content(held),
         ready' \in BOOLEAN, ready' => ready,
         schema' = schema \/ (~ready' /\ backend = "lanceTs" /\ schema' = "old"),
         UNCHANGED <<backend, held, serial, fts, ftsOnDisk, miniStale, mini, build,
                     missed, metaRows, metaAsked>>
  PROVE  StoresInv'
<1> USE DEF StoresInv
<1>1. Content(held) \subseteq Docs
  BY DEF Content, Rows
<1>2. Rows'
  BY <1>1 DEF Rows, Keyed
<1>3. call'.op = "none"
  BY DEF NoCall
<1>4. Called' /\ MetaKept'
  BY DEF Called, MetaKept
<1>5. Follows'
  BY <1>3 DEF Follows, Content
<1>6. Keywords'
  BY <1>3 DEF Keywords, HeldIds, ListedIds
<1> QED
  BY <1>2, <1>4, <1>5, <1>6

\* The process ends, the caller gives up, or the statement is refused.
LEMMA StopKeeps ==
  ASSUME StoresInv, Restart \/ GiveUp \/ PgTsOrphans
  PROVE  StoresInv'
<1>1. /\ call' = NoCall /\ asked' = Content(held)
      /\ ready' \in BOOLEAN /\ (ready' => ready)
      /\ schema' = schema \/ (~ready' /\ backend = "lanceTs" /\ schema' = "old")
      /\ UNCHANGED <<backend, held, serial, fts, ftsOnDisk, miniStale, mini, build,
                     missed, metaRows, metaAsked>>
  <2>1. ready \in BOOLEAN
    BY DEF StoresInv, Rows
  <2>2. CASE Restart
    <3>1. ready' = FALSE /\ schema' \in {schema, IF backend = "lanceTs" THEN "old" ELSE schema}
      BY <2>2 DEF Restart
    <3>2. schema' = schema \/ (~ready' /\ backend = "lanceTs" /\ schema' = "old")
      BY <3>1
    <3> QED
      BY <2>2, <3>1, <3>2 DEF Restart
  <2>3. CASE GiveUp \/ PgTsOrphans
    BY <2>1, <2>3 DEF GiveUp, PgTsOrphans
  <2> QED
    BY <2>2, <2>3
<1> QED
  BY <1>1, EndsKeep

\* A call with nothing left to send has done what it wants.
LEMMA ReturnKeeps ==
  ASSUME StoresInv, Return
  PROVE  StoresInv'
<1> USE DEF StoresInv
<1>1. /\ call.op \in {"upsert", "delete", "orphans"} /\ call.left = <<>>
      /\ asked' = Wanted /\ call' = NoCall /\ call'.op = "none"
      /\ UNCHANGED <<backend, schema, ready, held, serial, fts, ftsOnDisk, miniStale, mini,
                     build, missed, metaRows, metaAsked>>
  BY DEF Return, NoCall
<1>2. Left = {}
  BY <1>1 DEF Left, ToSet
<1>3. Wanted \subseteq Content(held) /\ (Keyed => Content(held) = Wanted)
  BY <1>1, <1>2 DEF Follows, Overwritten
<1>4. Content(held) \subseteq Docs
  BY DEF Content, Rows
<1>5. Rows'
  BY <1>1, <1>3, <1>4 DEF Rows, Keyed
<1>6. Follows'
  BY <1>1, <1>3 DEF Follows, Keyed, Content
<1>7. Called' /\ MetaKept'
  BY <1>1 DEF Called, MetaKept
<1>8. Keywords'
  BY <1>1 DEF Keywords, HeldIds, ListedIds
<1> QED
  BY <1>5, <1>6, <1>7, <1>8

\* A call may begin again: what landed is sent once more.
LEMMA RepeatKeeps ==
  ASSUME StoresInv, Repeat
  PROVE  StoresInv'
<1> USE DEF StoresInv
<1>1. call.op \in {"upsert", "delete"} /\ call.left # <<>> /\ call # NoCall
  BY DEF Repeat, NoCall
<1> DEFINE again == IF call.op = "upsert" THEN call.docs ELSE SetToSeq(call.files)
<1>2. /\ call' = [call EXCEPT !.left = again]
      /\ miniStale' = (miniStale \/ backend = "chromaTs")
      /\ missed' = (missed /\ build # NoBuild)
      /\ UNCHANGED <<backend, schema, ready, held, serial, asked, fts, ftsOnDisk, mini, build,
                     metaRows, metaAsked>>
  BY <1>1 DEF Repeat
<1>3. /\ call = [op |-> call.op, docs |-> call.docs, files |-> call.files,
                 keep |-> call.keep, left |-> call.left]
      /\ call.docs \in Seq(Docs) /\ call.files \subseteq DocFiles
      /\ call.op = "upsert" => Distinct(call.docs)
  BY <1>1 DEF Called
<1>4. SetToSeq(call.files) \in Seq(call.files) /\ ToSet(SetToSeq(call.files)) = call.files
  BY <1>3, FilesFinite, ListedSeq
<1> HIDE DEF again
<1>5. call' = [op |-> call.op, docs |-> call.docs, files |-> call.files,
               keep |-> call.keep, left |-> again]
  BY <1>2, <1>3
<1>6. Rows' /\ MetaKept'
  BY <1>2 DEF Rows, Keyed, MetaKept
<1>7. Called'
  BY <1>1, <1>2, <1>3, <1>4, <1>5 DEF Called, again
<1>8. Wanted' = Wanted /\ Left' = ToSet(again) /\ Content(held)' = Content(held)
  BY <1>2, <1>5 DEF Wanted, Left, Content
<1>9. Follows'
  <2>1. CASE call.op = "upsert"
    <3>1. again = call.docs /\ Left \subseteq ToSet(call.docs)
      BY <1>1, <2>1 DEF again, Called, Left
    <3>2. Wanted = Overwritten(asked, ToSet(call.docs))
      BY <2>1 DEF Wanted
    <3>3. Wanted \subseteq Content(held) \cup Left /\ (Keyed => Overwritten(Content(held), Left) = Wanted)
      BY <2>1 DEF Follows
    <3>4. Keyed => Overwritten(Content(held), ToSet(call.docs)) = Wanted
      BY <3>1, <3>2, <3>3 DEF Overwritten
    <3> QED
      BY <1>2, <1>5, <1>8, <2>1, <3>1, <3>3, <3>4 DEF Follows, Keyed
  <2>2. CASE call.op = "delete"
    <3>1. ToSet(again) = call.files /\ Left \subseteq call.files
      BY <1>1, <1>4, <2>2 DEF again, Called, Left, ToSet
    <3>2. Wanted = {d \in asked : d.file \notin call.files}
      BY <2>2 DEF Wanted
    <3>3. Wanted \subseteq Content(held)
          /\ (Keyed => {d \in Content(held) : d.file \notin Left} = Wanted)
      BY <2>2 DEF Follows
    <3>4. Keyed => {d \in Content(held) : d.file \notin call.files} = Wanted
      BY <3>1, <3>2, <3>3
    <3> QED
      BY <1>2, <1>5, <1>8, <2>2, <3>1, <3>3, <3>4 DEF Follows, Keyed
  <2> QED
    BY <1>1, <2>1, <2>2
<1>10. Keywords'
  BY <1>1, <1>2 DEF Keywords, HeldIds, ListedIds
<1> QED
  BY <1>6, <1>7, <1>9, <1>10

\* The rows to delete are listed; if there are none nothing is sent.
LEMMA ListKeeps ==
  ASSUME StoresInv, ChromaTsList
  PROVE  StoresInv'
<1> USE DEF StoresInv
<1> DEFINE left == IF Orphans = {} THEN <<>> ELSE call.left
<1>1. /\ backend = "chromaTs" /\ call.op = "list" /\ call # NoCall
      /\ call' = [call EXCEPT !.op = "orphans", !.left = left]
      /\ miniStale' = (miniStale \/ Orphans # {})
      /\ missed' = (missed /\ (Orphans = {} \/ build # NoBuild))
      /\ UNCHANGED <<backend, schema, ready, held, serial, asked, fts, ftsOnDisk, mini, build,
                     metaRows, metaAsked>>
  BY DEF ChromaTsList, NoCall
<1>2. /\ call = [op |-> call.op, docs |-> call.docs, files |-> call.files,
                 keep |-> call.keep, left |-> call.left]
      /\ call.docs \in Seq(Docs) /\ call.files \subseteq DocFiles
      /\ ready /\ call.left \in Seq(call.files) /\ call.left # <<>> /\ Left = call.files
  BY <1>1 DEF Called, Left
<1>3. left \in {<<>>, call.left} /\ left \in Seq(call.files)
  BY <1>2
<1>4. left = <<>> <=> Orphans = {}
  BY <1>2
<1> HIDE DEF left
<1>5. call' = [op |-> "orphans", docs |-> call.docs, files |-> call.files,
               keep |-> call.keep, left |-> left]
  BY <1>1, <1>2
<1>6. Rows' /\ MetaKept'
  BY <1>1 DEF Rows, Keyed, MetaKept
<1>7. Called'
  BY <1>1, <1>2, <1>3, <1>5 DEF Called, Left
<1>8. Wanted' = Wanted /\ Left' = ToSet(left) /\ Content(held)' = Content(held)
  BY <1>1, <1>5 DEF Wanted, Left, Content
<1>9. ToSet(<<>>) = {}
  BY DEF ToSet
<1>10. /\ Wanted \subseteq Content(held)
       /\ {d \in Content(held) : d.file \notin call.files \/ d.id \in call.keep} = Wanted
  BY <1>1, <1>2 DEF Follows, Keyed
<1>11. Orphans = {} => \A d \in Content(held) : d.file \notin call.files \/ d.id \in call.keep
  BY DEF Orphans, OfFiles, Content
<1>12. {d \in Content(held) : d.file \notin ToSet(left) \/ d.id \in call.keep} = Wanted
  <2>1. CASE left = <<>>
    BY <1>4, <1>9, <1>10, <1>11, <2>1
  <2>2. CASE left # <<>>
    BY <1>2, <1>3, <1>10, <2>2 DEF Left
  <2> QED
    BY <2>1, <2>2
<1>13. Follows'
  BY <1>5, <1>8, <1>10, <1>12 DEF Follows
<1>14. Keywords'
  <2>1. HeldIds' = HeldIds /\ ListedIds' = ListedIds
    BY <1>1 DEF HeldIds, ListedIds
  <2>2. miniStale \in BOOLEAN /\ missed \in BOOLEAN
    BY DEF Keywords
  <2>3. CASE Orphans = {}
    <3>1. miniStale' = miniStale /\ missed' = missed
      BY <1>1, <2>2, <2>3
    <3>2. call'.op = "orphans" /\ call'.left = <<>>
      BY <1>4, <1>5, <2>3
    <3> QED
      BY <1>1, <2>1, <3>1, <3>2 DEF Keywords
  <2>4. CASE Orphans # {}
    <3>1. miniStale' = TRUE /\ missed' = (missed /\ build # NoBuild)
      BY <1>1, <2>4
    <3>2. missed' \in BOOLEAN /\ (build # NoBuild /\ ~missed' => ~missed)
      BY <3>1
    <3> QED
      BY <1>1, <2>1, <3>1, <3>2 DEF Keywords
  <2> QED
    BY <2>3, <2>4
<1> QED
  BY <1>6, <1>7, <1>13, <1>14

-----------------------------------------------------------------------------
(* A request lands.                                                        *)

\* What the parts of the invariant ask of a request that lands.
LEMMA LandKeeps ==
  ASSUME StoresInv, NEW rows, NEW left, Land(rows, left),
         call.op \in {"upsert", "delete", "orphans"}, call.left # <<>>,
         serial' \in Nat, fts' \in BOOLEAN, ftsOnDisk' \in BOOLEAN,
         \A r \in rows : r.doc \in Docs /\ r = [key |-> r.key, doc |-> r.doc],
         Keyed => \A r \in rows : r.key = r.doc.id,
         ~Keyed => \A r \in rows : r.key \in Nat /\ r.key < serial',
         \A r, q \in rows : r.key = q.key => r = q,
         call.op = "upsert" =>
           left \in Seq(Docs) /\ Distinct(left) /\ ToSet(left) \subseteq Left,
         call.op \in {"delete", "orphans"} => left \in Seq(call.files),
         call.op = "orphans" => left = <<>>,
         call.op = "upsert" =>
           /\ Wanted \subseteq Content(rows) \cup ToSet(left)
           /\ Keyed => Overwritten(Content(rows), ToSet(left)) = Wanted,
         call.op = "delete" =>
           /\ Wanted \subseteq Content(rows)
           /\ Keyed => {d \in Content(rows) : d.file \notin ToSet(left)} = Wanted,
         call.op = "orphans" =>
           Wanted \subseteq Content(rows) /\ (Keyed => Content(rows) = Wanted)
  PROVE  StoresInv'
<1> USE DEF StoresInv
<1>1. /\ held' = rows /\ call' = [call EXCEPT !.left = left]
      /\ missed' = (missed \/ build # NoBuild)
      /\ UNCHANGED <<backend, schema, ready, asked, miniStale, mini, build, metaRows, metaAsked>>
  BY DEF Land
<1>2. /\ call = [op |-> call.op, docs |-> call.docs, files |-> call.files,
                 keep |-> call.keep, left |-> call.left]
      /\ call.docs \in Seq(Docs) /\ call.files \subseteq DocFiles /\ ready
  BY DEF Called, NoCall
<1>3. call' = [op |-> call.op, docs |-> call.docs, files |-> call.files,
               keep |-> call.keep, left |-> left]
  BY <1>1, <1>2
<1>4. Rows'
  BY <1>1, <1>2 DEF Rows, Keyed
<1>5. Called'
  <2>1. call.op = "upsert" => Distinct(call.docs) /\ Left \subseteq ToSet(call.docs)
    BY DEF Called, Left, NoCall
  <2>2. call.op = "orphans" => backend \in TsBackends
    BY DEF Called, NoCall
  <2> QED
    BY <1>1, <1>2, <1>3, <2>1, <2>2 DEF Called
<1>6. Wanted' = Wanted /\ Left' = ToSet(left) /\ Content(held)' = Content(rows) /\ ToSet(<<>>) = {}
  BY <1>1, <1>3 DEF Wanted, Left, Content, ToSet
<1>7. Follows'
  BY <1>1, <1>3, <1>6 DEF Follows, Keyed
<1>8. Keywords'
  BY <1>1, <1>3 DEF Keywords
<1>9. MetaKept'
  BY <1>1 DEF MetaKept
<1> QED
  BY <1>4, <1>5, <1>7, <1>8, <1>9

\* Documents are put in by id, some now and some later.
LEMMA PutKeeps ==
  ASSUME StoresInv, Keyed, call.op = "upsert", call.left # <<>>,
         NEW first \in Seq(Docs), NEW rest \in Seq(Docs),
         ToSet(first) \cup ToSet(rest) = Left, Distinct(first), Distinct(rest),
         \A d \in ToSet(first), e \in ToSet(rest) : d.id # e.id,
         Land(Put(held, ToSet(first)), rest), serial' = serial,
         fts' \in BOOLEAN, ftsOnDisk' \in BOOLEAN
  PROVE  StoresInv'
<1> DEFINE rows == Put(held, ToSet(first))
<1>1. Rows /\ Follows
  BY DEF StoresInv
<1>2. ToSet(first) \subseteq Docs
  BY DEF ToSet
<1>3. \A d, e \in ToSet(first) : d.id = e.id => d = e
  BY DEF ToSet, Distinct
<1>4. /\ \A r \in rows : r.doc \in Docs /\ r = [key |-> r.key, doc |-> r.doc] /\ r.key = r.doc.id
      /\ \A r, q \in rows : r.key = q.key => r = q
  BY <1>1, <1>2, <1>3, PutRows DEF Rows
<1>5. Content(rows) = Overwritten(Content(held), ToSet(first))
  BY PutContent
<1>6. Overwritten(Content(held), Left) = Wanted
  BY <1>1 DEF Follows
<1>7. Overwritten(Content(rows), ToSet(rest)) = Wanted
  BY <1>5, <1>6 DEF Overwritten
<1>8. Wanted \subseteq Content(rows) \cup ToSet(rest)
  BY <1>7 DEF Overwritten
<1>9. ToSet(rest) \subseteq Left
  OBVIOUS
<1>10. serial' \in Nat
  BY <1>1 DEF Rows
<1> HIDE DEF rows
<1>11. Land(rows, rest)
  BY DEF rows
<1> QED
  BY <1>4, <1>7, <1>8, <1>9, <1>10, <1>11, LandKeeps

\* What is left of an upsert are distinct documents.
LEMMA LeftDocs ==
  ASSUME StoresInv, call.op = "upsert"
  PROVE  call.left \in Seq(Docs) /\ Distinct(call.left) /\ ToSet(<<>>) = {} /\ <<>> \in Seq(Docs)
         /\ Distinct(<<>>)
BY DEF StoresInv, Called, NoCall, ToSet, Distinct

\* LanceDB takes the documents at once, Qdrant and ChromaDB in batches, the
\* engine's Postgres one by one.
LEMMA KeyedUpsertsKeep ==
  ASSUME StoresInv,
         \/ LanceTsUpsert \/ LanceRsUpsert \/ PgRsUpsert
         \/ QdrantTsUpsert \/ QdrantRsUpsert \/ ChromaTsUpsert \/ ChromaRsUpsert
  PROVE  StoresInv'
<1> DEFINE s == call.left
<1>1. call.op = "upsert" /\ s # <<>> /\ Keyed
  BY DEF LanceTsUpsert, LanceRsUpsert, PgRsUpsert, QdrantTsUpsert, QdrantRsUpsert,
         ChromaTsUpsert, ChromaRsUpsert, NextBatch, Upserting, Keyed
<1>2. s \in Seq(Docs) /\ Distinct(s) /\ ToSet(<<>>) = {} /\ <<>> \in Seq(Docs) /\ Distinct(<<>>)
  BY <1>1, LeftDocs
<1>3. fts \in BOOLEAN /\ ftsOnDisk \in BOOLEAN /\ Left = ToSet(s)
  BY DEF StoresInv, Rows, Left
<1>4. fts' \in BOOLEAN /\ ftsOnDisk' \in BOOLEAN /\ serial' = serial
  BY <1>3
     DEF LanceTsUpsert, LanceRsUpsert, PgRsUpsert, QdrantTsUpsert, QdrantRsUpsert,
         ChromaTsUpsert, ChromaRsUpsert, NextBatch
<1> HIDE DEF s
<1>5. CASE Land(Put(held, ToSet(s)), <<>>)
  BY <1>1, <1>2, <1>3, <1>4, <1>5, PutKeeps DEF s
<1>6. CASE PgRsUpsert
  <2>1. Land(Put(held, {Head(s)}), Tail(s))
    BY <1>6 DEF PgRsUpsert, s
  <2>2. /\ FirstN(s, 1) \in Seq(Docs) /\ SubSeq(s, 1 + 1, Len(s)) \in Seq(Docs)
        /\ ToSet(FirstN(s, 1)) \cup ToSet(SubSeq(s, 1 + 1, Len(s))) = ToSet(s)
        /\ Distinct(SubSeq(s, 1 + 1, Len(s))) /\ Distinct(FirstN(s, 1))
        /\ \A d \in ToSet(FirstN(s, 1)), e \in ToSet(SubSeq(s, 1 + 1, Len(s))) : d.id # e.id
    BY <1>1, <1>2, Cut DEF s
  <2>3. Tail(s) = SubSeq(s, 1 + 1, Len(s))
    BY <1>1, <1>2, TailIsSubSeq DEF s
  <2>4. ToSet(FirstN(s, 1)) = {Head(s)}
    <3>1. Len(s) \in Nat /\ Len(s) >= 1 /\ s[1] \in Docs /\ Head(s) = s[1]
      BY <1>1, <1>2 DEF s
    <3>2. FirstN(s, 1) = SubSeq(s, 1, 1)
      BY <3>1 DEF FirstN
    <3>3. /\ SubSeq(s, 1, 1) \in Seq(Docs) /\ Len(SubSeq(s, 1, 1)) = 1
          /\ SubSeq(s, 1, 1)[1] = s[1]
      <4>1. \A i \in 1..1 : s[i] \in Docs
        BY <3>1
      <4>2. /\ SubSeq(s, 1, 1) \in Seq(Docs)
            /\ Len(SubSeq(s, 1, 1)) = IF 1 <= 1 THEN 1 - 1 + 1 ELSE 0
            /\ \A i \in 1..1 - 1 + 1 : SubSeq(s, 1, 1)[i] = s[1 + i - 1]
        BY <4>1, SubSeqProperties
      <4> QED
        BY <4>2
    <3>4. DOMAIN SubSeq(s, 1, 1) = {1}
      BY <3>3
    <3> QED
      BY <3>1, <3>2, <3>3, <3>4 DEF ToSet
  <2> QED
    BY <1>1, <1>3, <1>4, <2>1, <2>2, <2>3, <2>4, PutKeeps DEF s
<1>7. CASE NextBatch("qdrantTs") \/ NextBatch("qdrantRs") \/ NextBatch("chromaTs") \/ NextBatch("chromaRs")
  <2>1. Land(Put(held, ToSet(FirstN(s, BATCH))), SubSeq(s, BATCH + 1, Len(s)))
    BY <1>7 DEF NextBatch, s
  <2>2. BATCH \in Nat
    BY StoresAssumption
  <2>3. /\ FirstN(s, BATCH) \in Seq(Docs) /\ SubSeq(s, BATCH + 1, Len(s)) \in Seq(Docs)
        /\ ToSet(FirstN(s, BATCH)) \cup ToSet(SubSeq(s, BATCH + 1, Len(s))) = ToSet(s)
        /\ Distinct(SubSeq(s, BATCH + 1, Len(s))) /\ Distinct(FirstN(s, BATCH))
        /\ \A d \in ToSet(FirstN(s, BATCH)), e \in ToSet(SubSeq(s, BATCH + 1, Len(s))) :
             d.id # e.id
    BY <1>1, <1>2, <2>2, Cut DEF s
  <2> QED
    BY <1>1, <1>3, <1>4, <2>1, <2>3, PutKeeps DEF s
<1> QED
  BY <1>5, <1>6, <1>7
     DEF LanceTsUpsert, LanceRsUpsert, QdrantTsUpsert, QdrantRsUpsert,
         ChromaTsUpsert, ChromaRsUpsert, s

\* The head of a sequence of distinct documents and the rest of it.
LEMMA TailSet ==
  ASSUME NEW S, NEW s \in Seq(S), s # <<>>
  PROVE  /\ Head(s) \in S /\ Tail(s) \in Seq(S)
         /\ ToSet(s) = {Head(s)} \cup ToSet(Tail(s))
         /\ Distinct(s) => Distinct(Tail(s))
<1>1. /\ Head(s) = s[1] /\ s[1] \in S /\ Tail(s) \in Seq(S) /\ Len(s) \in Nat /\ Len(s) >= 1
      /\ DOMAIN s = 1..Len(s) /\ DOMAIN Tail(s) = 1..Len(s) - 1
      /\ \A i \in 1..Len(s) - 1 : Tail(s)[i] = s[i + 1]
  BY HeadTailProperties
<1>2. \A i \in 1..Len(s) : s[i] \in {Head(s)} \cup ToSet(Tail(s))
  <2> SUFFICES ASSUME NEW i \in 1..Len(s), i # 1 PROVE s[i] \in ToSet(Tail(s))
    BY <1>1
  <2>1. i - 1 \in 1..Len(s) - 1 /\ (i - 1) + 1 = i
    BY <1>1
  <2>2. s[i] = Tail(s)[i - 1]
    BY <1>1, <2>1
  <2> QED
    BY <1>1, <2>1, <2>2 DEF ToSet
<1>3. \A i \in 1..Len(s) - 1 : i + 1 \in 1..Len(s)
  BY <1>1
<1>4. ToSet(s) = {Head(s)} \cup ToSet(Tail(s))
  <2>1. ToSet(s) = {s[i] : i \in 1..Len(s)}
    BY <1>1 DEF ToSet
  <2>2. ToSet(Tail(s)) = {s[i + 1] : i \in 1..Len(s) - 1}
    BY <1>1 DEF ToSet
  <2>3. ToSet(s) \subseteq {Head(s)} \cup ToSet(Tail(s))
    BY <1>2, <2>1
  <2>4. ToSet(Tail(s)) \subseteq ToSet(s)
    BY <1>3, <2>1, <2>2
  <2>5. Head(s) \in ToSet(s)
    BY <1>1, <2>1
  <2> QED
    BY <2>3, <2>4, <2>5
<1>5. ASSUME Distinct(s) PROVE Distinct(Tail(s))
  <2>1. \A i, j \in 1..Len(s) : s[i].id = s[j].id => i = j
    BY <1>1, <1>5 DEF Distinct
  <2>2. \A i, j \in 1..Len(s) - 1 : Tail(s)[i].id = Tail(s)[j].id => i = j
    <3> SUFFICES ASSUME NEW i \in 1..Len(s) - 1, NEW j \in 1..Len(s) - 1,
                        Tail(s)[i].id = Tail(s)[j].id
                 PROVE  i = j
      OBVIOUS
    <3>1. s[i + 1].id = s[j + 1].id /\ i + 1 \in 1..Len(s) /\ j + 1 \in 1..Len(s)
      BY <1>1, <1>3
    <3>2. i + 1 = j + 1
      BY <2>1, <3>1
    <3> QED
      BY <3>2
  <2> QED
    BY <1>1, <2>2 DEF Distinct
<1> QED
  BY <1>1, <1>4, <1>5

\* The serial table takes the next document under a number of its own.
LEMMA PgTsUpsertKeeps ==
  ASSUME StoresInv, PgTsUpsert
  PROVE  StoresInv'
<1> DEFINE s == call.left
           d == Head(s)
           row == [key |-> serial, doc |-> d]
           rows == held \cup {row}
<1>1. /\ call.op = "upsert" /\ s # <<>> /\ ~Keyed /\ call # NoCall
      /\ Land(rows, Tail(s)) /\ serial' = serial + 1 /\ fts' = fts /\ ftsOnDisk' = ftsOnDisk
  BY DEF PgTsUpsert, Upserting, Keyed, NoCall
<1>2. Rows /\ Follows /\ ready /\ schema = "ours"
  BY <1>1 DEF StoresInv, Rows, Called
<1>3. s \in Seq(Docs) /\ Distinct(s)
  BY <1>1, LeftDocs
<1>4. d \in Docs /\ Tail(s) \in Seq(Docs)
  BY <1>1, <1>3, TailSet
<1>5. ToSet(s) = {d} \cup ToSet(Tail(s)) /\ Distinct(Tail(s))
  BY <1>1, <1>3, TailSet
<1> HIDE DEF d
<1>6. row.key = serial /\ row.doc = d /\ row = [key |-> row.key, doc |-> row.doc]
  OBVIOUS
<1> HIDE DEF row
<1>7. Content(rows) = Content(held) \cup {d}
  BY <1>6 DEF Content
<1>8. \A r \in rows : r.doc \in Docs /\ r = [key |-> r.key, doc |-> r.doc]
  BY <1>2, <1>4, <1>6 DEF Rows
<1>9. /\ serial' \in Nat
      /\ \A r \in held : r.key \in Nat /\ r.key < serial
  BY <1>1, <1>2 DEF Rows
<1>10. \A r \in rows : r.key \in Nat /\ r.key < serial'
  BY <1>1, <1>2, <1>6, <1>9 DEF Rows
<1>11. \A r, q \in rows : r.key = q.key => r = q
  <2>1. serial \in Nat /\ \A r, q \in held : r.key = q.key => r = q
    BY <1>2 DEF Rows
  <2>2. \A r \in held : r.key # serial
    BY <1>9, <2>1
  <2> QED
    BY <1>6, <2>1, <2>2
<1>12. Wanted \subseteq Content(rows) \cup ToSet(Tail(s))
  <2>1. Wanted \subseteq Content(held) \cup ToSet(s)
    BY <1>1, <1>2 DEF Follows, Left
  <2> QED
    BY <1>5, <1>7, <2>1
<1>13. ToSet(Tail(s)) \subseteq Left
  BY <1>5 DEF Left
<1>14. fts' \in BOOLEAN /\ ftsOnDisk' \in BOOLEAN
  BY <1>1, <1>2 DEF Rows
<1> HIDE DEF rows, s
<1> QED
  BY <1>1, <1>4, <1>5, <1>8, <1>9, <1>10, <1>11, <1>12, <1>13, <1>14, LandKeeps DEF s

\* Rows go: what is left of them is as it was.
LEMMA RowsLess ==
  ASSUME StoresInv, call # NoCall, NEW rows, rows \subseteq held
  PROVE  /\ \A r \in rows : r.doc \in Docs /\ r = [key |-> r.key, doc |-> r.doc]
         /\ Keyed => \A r \in rows : r.key = r.doc.id
         /\ ~Keyed => \A r \in rows : r.key \in Nat /\ r.key < serial
         /\ \A r, q \in rows : r.key = q.key => r = q
         /\ serial \in Nat /\ fts \in BOOLEAN /\ ftsOnDisk \in BOOLEAN
<1>1. schema # "old"
  BY DEF StoresInv, Called, Rows
<1> QED
  BY <1>1 DEF StoresInv, Rows

\* The rows of some files leave the table: their documents, no others.
LEMMA ContentLess ==
  ASSUME NEW files
  PROVE  Content(held \ OfFiles(held, files)) = {d \in Content(held) : d.file \notin files}
BY DEF Content, OfFiles

\* A deletion by file is one request for all the files.
LEMMA DeletesAtOnceKeep ==
  ASSUME StoresInv,
         \/ LanceTsDelete \/ LanceRsDelete \/ PgTsDelete \/ PgRsDelete
         \/ QdrantTsDelete \/ ChromaTsDelete \/ ChromaRsDelete
  PROVE  StoresInv'
<1> DEFINE rows == held \ OfFiles(held, call.files)
<1>1. /\ call.op = "delete" /\ call.left # <<>> /\ call # NoCall
      /\ Land(rows, <<>>)
      /\ serial' = serial /\ fts' = fts /\ ftsOnDisk' = ftsOnDisk
  BY DEF LanceTsDelete, LanceRsDelete, PgTsDelete, PgRsDelete, QdrantTsDelete, ChromaTsDelete,
         ChromaRsDelete, DeleteAtOnce, NoCall
<1>2. Content(rows) = {d \in Content(held) : d.file \notin call.files}
  BY ContentLess
<1>3. ToSet(<<>>) = {} /\ <<>> \in Seq(call.files) /\ Left \subseteq call.files
  BY <1>1 DEF StoresInv, Called, Left, ToSet
<1>4. Wanted = {d \in asked : d.file \notin call.files}
  BY <1>1 DEF Wanted
<1>5. Wanted \subseteq Content(held) /\ (Keyed => {d \in Content(held) : d.file \notin Left} = Wanted)
  BY <1>1 DEF StoresInv, Follows
<1>6. Wanted \subseteq Content(rows)
  BY <1>2, <1>4, <1>5
<1>7. Keyed => {d \in Content(rows) : d.file \notin {}} = Wanted
  BY <1>2, <1>3, <1>4, <1>5
<1>8. rows \subseteq held
  OBVIOUS
<1> HIDE DEF rows
<1> QED
  BY <1>1, <1>3, <1>6, <1>7, <1>8, RowsLess, LandKeeps

\* The engine's Qdrant store sends one request for each file.
LEMMA QdrantRsDeleteKeeps ==
  ASSUME StoresInv, QdrantRsDelete
  PROVE  StoresInv'
<1> DEFINE s == call.left
           rows == held \ OfFiles(held, {Head(s)})
<1>1. /\ call.op = "delete" /\ s # <<>> /\ call # NoCall
      /\ Land(rows, Tail(s))
      /\ serial' = serial /\ fts' = fts /\ ftsOnDisk' = ftsOnDisk
  BY DEF QdrantRsDelete, NoCall
<1>2. Content(rows) = {d \in Content(held) : d.file \notin {Head(s)}}
  BY ContentLess
<1>3. s \in Seq(call.files)
  BY <1>1 DEF StoresInv, Called
<1>4. Head(s) \in call.files /\ Tail(s) \in Seq(call.files) /\ Left = {Head(s)} \cup ToSet(Tail(s))
  BY <1>1, <1>3, TailSet DEF Left
<1>5. Wanted = {d \in asked : d.file \notin call.files}
  BY <1>1 DEF Wanted
<1>6. Wanted \subseteq Content(held) /\ (Keyed => {d \in Content(held) : d.file \notin Left} = Wanted)
  BY <1>1 DEF StoresInv, Follows
<1>7. Wanted \subseteq Content(rows)
  BY <1>2, <1>4, <1>5, <1>6
<1>8. Keyed => {d \in Content(rows) : d.file \notin ToSet(Tail(s))} = Wanted
  BY <1>2, <1>4, <1>6
<1>9. rows \subseteq held
  OBVIOUS
<1> HIDE DEF rows
<1> QED
  BY <1>1, <1>4, <1>7, <1>8, <1>9, RowsLess, LandKeeps

\* The chunks a file no longer has go at once.
LEMMA OrphansKeep ==
  ASSUME StoresInv, LanceTsOrphans \/ QdrantTsOrphans \/ ChromaTsOrphans
  PROVE  StoresInv'
<1> DEFINE rows == held \ Orphans
<1>1. /\ call.op = "orphans" /\ call.left # <<>> /\ call # NoCall
      /\ Land(rows, <<>>)
      /\ serial' = serial /\ fts' = fts /\ ftsOnDisk' = ftsOnDisk
  BY DEF LanceTsOrphans, QdrantTsOrphans, ChromaTsOrphans, OrphansAtOnce, NoCall
<1>2. Content(rows) = {d \in Content(held) : d.file \notin call.files \/ d.id \in call.keep}
  BY DEF Content, Orphans, OfFiles
<1>3. ToSet(<<>>) = {} /\ <<>> \in Seq(call.files) /\ Left = call.files
  BY <1>1 DEF StoresInv, Called, Left, ToSet
<1>4. Wanted = {d \in asked : d.file \notin call.files \/ d.id \in call.keep}
  BY <1>1 DEF Wanted
<1>5. /\ Wanted \subseteq Content(held)
      /\ Keyed => {d \in Content(held) : d.file \notin Left \/ d.id \in call.keep} = Wanted
  BY <1>1 DEF StoresInv, Follows
<1>6. Wanted \subseteq Content(rows)
  BY <1>2, <1>4, <1>5
<1>7. Keyed => Content(rows) = Wanted
  BY <1>2, <1>3, <1>5
<1>8. rows \subseteq held
  OBVIOUS
<1> HIDE DEF rows
<1> QED
  BY <1>1, <1>3, <1>6, <1>7, <1>8, RowsLess, LandKeeps

-----------------------------------------------------------------------------
(* The keyword index and the meta.                                         *)

\* A build begins with nothing read.
LEMMA StartBuildKeeps ==
  ASSUME StoresInv, StartBuild
  PROVE  StoresInv'
<1> USE DEF StoresInv
<1>1. /\ backend = "chromaTs" /\ miniStale /\ build' = [read |-> 0, ids |-> {}]
      /\ UNCHANGED <<backend, schema, ready, held, serial, call, asked, fts, ftsOnDisk,
                     miniStale, mini, missed, metaRows, metaAsked>>
  BY DEF StartBuild
<1>2. Rows' /\ MetaKept' /\ Called' /\ Follows'
  BY <1>1 DEF Rows, Keyed, MetaKept, Called, Follows, Content, Wanted, Left
<1>3. HeldIds' = HeldIds /\ ListedIds' = ListedIds
  BY <1>1 DEF HeldIds, ListedIds
<1>4. build'.ids = {ListedIds[i] : i \in DOMAIN ListedIds \cap 1..build'.read}
  <2>1. build'.ids = {} /\ build'.read = 0 /\ 1..0 = {}
    BY <1>1
  <2> QED
    BY <2>1
<1>5. build' \in [read : Nat, ids : SUBSET Ids]
  BY <1>1
<1>6. Keywords'
  BY <1>1, <1>3, <1>4, <1>5 DEF Keywords
<1> QED
  BY <1>2, <1>6

\* The ids of a page extend the first ids of the collection to more of them; a page
\* that is not full is the last.
LEMMA PageExtends ==
  ASSUME StoresInv, NEW n \in Nat
  PROVE  /\ PageAt(n) \subseteq Ids
         /\ {ListedIds[i] : i \in DOMAIN ListedIds \cap 1..n} \cup PageAt(n)
              = {ListedIds[i] : i \in DOMAIN ListedIds \cap 1..(n + PAGE)}
         /\ Cardinality(PageAt(n)) < PAGE =>
              {ListedIds[i] : i \in DOMAIN ListedIds \cap 1..(n + PAGE)} = HeldIds
<1> DEFINE c == Cardinality(HeldIds)
           s == ListedIds
<1>1. HeldIds \subseteq Ids /\ IsFiniteSet(HeldIds)
  <2>1. HeldIds \subseteq Ids
    BY DEF StoresInv, Rows, HeldIds, Ids
  <2> QED
    BY <2>1, IdsFinite
<1>2. /\ c \in Nat /\ s \in [1..c -> HeldIds]
      /\ \A i, j \in 1..c : s[i] = s[j] => i = j
      /\ \A e \in HeldIds : \E i \in 1..c : s[i] = e
  BY <1>1, Listed DEF ListedIds
<1>3. PAGE \in Nat /\ PAGE >= 1
  BY StoresAssumption
<1>4. PageAt(n) = {s[i] : i \in 1..c \cap (n + 1)..(n + PAGE)}
  <2>1. s = SetToSeq({r.doc.id : r \in held}) /\ DOMAIN s = 1..c
    BY <1>2 DEF ListedIds, HeldIds
  <2> QED
    BY <2>1 DEF PageAt
<1> HIDE DEF c, s
<1>5. PageAt(n) \subseteq HeldIds
  BY <1>2, <1>4
<1>6. {s[i] : i \in 1..c \cap 1..n} \cup PageAt(n) = {s[i] : i \in 1..c \cap 1..(n + PAGE)}
  <2>1. 1..c \cap 1..(n + PAGE) = (1..c \cap 1..n) \cup (1..c \cap (n + 1)..(n + PAGE))
    BY <1>2, <1>3
  <2> QED
    BY <1>4, <2>1
<1>7. ASSUME Cardinality(PageAt(n)) < PAGE
      PROVE  {s[i] : i \in 1..c \cap 1..(n + PAGE)} = HeldIds
  <2>1. n + PAGE >= c
    <3> SUFFICES ASSUME n + PAGE < c PROVE FALSE
      BY <1>2, <1>3
    <3> DEFINE f == [i \in (n + 1)..(n + PAGE) |-> s[i]]
    <3>1. (n + 1)..(n + PAGE) \subseteq 1..c
      BY <1>2, <1>3
    <3>2. 1..c \cap (n + 1)..(n + PAGE) = (n + 1)..(n + PAGE)
      BY <3>1
    <3>3. PageAt(n) = {s[i] : i \in (n + 1)..(n + PAGE)}
      BY <1>4, <3>2
    <3>4. \A i, j \in (n + 1)..(n + PAGE) : s[i] = s[j] => i = j
      BY <1>2, <3>1
    <3>5. f \in Bijection((n + 1)..(n + PAGE), PageAt(n))
      BY <3>3, <3>4 DEF Bijection, Injection, Surjection, IsInjective
    <3> HIDE DEF f
    <3>6. /\ IsFiniteSet((n + 1)..(n + PAGE))
          /\ Cardinality((n + 1)..(n + PAGE)) = PAGE
      <4>1. n + 1 \in Int /\ n + PAGE \in Int /\ ~(n + 1 > n + PAGE)
        BY <1>3
      <4>2. /\ IsFiniteSet((n + 1)..(n + PAGE))
            /\ Cardinality((n + 1)..(n + PAGE)) = (n + PAGE) - (n + 1) + 1
        BY <4>1, FS_Interval
      <4> QED
        BY <1>3, <4>2
    <3>7. Cardinality(PageAt(n)) = PAGE
      BY <3>5, <3>6, FS_Bijection DEF ExistsBijection
    <3> QED
      BY <1>3, <1>7, <3>7
  <2>2. 1..c \cap 1..(n + PAGE) = 1..c
    BY <1>2, <1>3, <2>1
  <2> QED
    BY <1>2, <2>2
<1>8. DOMAIN s = 1..c
  BY <1>2
<1> QED
  BY <1>1, <1>5, <1>6, <1>7, <1>8 DEF s

\* A page is read: the build has the first ids of the collection as it is, unless a
\* write changed it since the build began.
LEMMA BuildPageKeeps ==
  ASSUME StoresInv, BuildPage
  PROVE  StoresInv'
<1> USE DEF StoresInv
<1> DEFINE page == PageAt(build.read)
           ids == build.ids \cup page
<1>1. /\ ready /\ build # NoBuild
      /\ \/ /\ Cardinality(page) < PAGE
            /\ mini' = ids /\ miniStale' = FALSE /\ build' = NoBuild
            /\ missed' = (missed \/ call # NoCall)
         \/ /\ ~(Cardinality(page) < PAGE)
            /\ build' = [read |-> build.read + PAGE, ids |-> ids]
            /\ mini' = mini /\ miniStale' = miniStale /\ missed' = missed
      /\ UNCHANGED <<backend, schema, ready, held, serial, call, asked, fts, ftsOnDisk,
                     metaRows, metaAsked>>
  BY DEF BuildPage
<1>2. /\ build.read \in Nat /\ build.ids \subseteq Ids /\ backend = "chromaTs"
      /\ ~missed => build.ids = {ListedIds[i] : i \in DOMAIN ListedIds \cap 1..build.read}
  BY <1>1 DEF Keywords
<1>3. PAGE \in Nat
  BY StoresAssumption
<1>4. /\ page \subseteq Ids
      /\ {ListedIds[i] : i \in DOMAIN ListedIds \cap 1..build.read} \cup page
           = {ListedIds[i] : i \in DOMAIN ListedIds \cap 1..(build.read + PAGE)}
      /\ Cardinality(page) < PAGE =>
           {ListedIds[i] : i \in DOMAIN ListedIds \cap 1..(build.read + PAGE)} = HeldIds
  BY <1>2, PageExtends
<1> HIDE DEF page
<1>5. /\ ids \subseteq Ids
      /\ ~missed => ids = {ListedIds[i] : i \in DOMAIN ListedIds \cap 1..(build.read + PAGE)}
  BY <1>2, <1>4
<1> HIDE DEF ids
<1>6. Rows' /\ MetaKept' /\ Called' /\ Follows'
  BY <1>1 DEF Rows, Keyed, MetaKept, Called, Follows, Content, Wanted, Left
<1>7. HeldIds' = HeldIds /\ ListedIds' = ListedIds
  BY <1>1 DEF HeldIds, ListedIds
<1>8. Keywords'
  <2>1. CASE Cardinality(page) < PAGE
    <3>1. /\ mini' = ids /\ miniStale' = FALSE /\ build' = NoBuild
          /\ missed' = (missed \/ call # NoCall)
      BY <1>1, <2>1
    <3>2. missed' \in BOOLEAN
      BY <3>1
    <3>3. ~missed' => mini' = HeldIds /\ call = NoCall
      BY <1>4, <1>5, <2>1, <3>1
    <3>4. ~missed' => call'.op = "none"
      BY <1>1, <3>3 DEF NoCall
    <3> QED
      BY <1>1, <1>5, <1>7, <3>1, <3>2, <3>3, <3>4 DEF Keywords
  <2>2. CASE ~(Cardinality(page) < PAGE)
    <3>1. /\ build' = [read |-> build.read + PAGE, ids |-> ids]
          /\ mini' = mini /\ miniStale' = miniStale /\ missed' = missed
      BY <1>1, <2>2
    <3>2. build' \in [read : Nat, ids : SUBSET Ids]
      BY <1>2, <1>3, <1>5, <3>1
    <3>3. ~missed' => build'.ids = {ListedIds'[i] : i \in DOMAIN ListedIds' \cap 1..build'.read}
      BY <1>5, <1>7, <3>1
    <3> QED
      BY <1>1, <1>2, <1>7, <3>1, <3>2, <3>3 DEF Keywords
  <2> QED
    BY <2>1, <2>2
<1> QED
  BY <1>6, <1>8

\* The TypeScript LanceDB store deletes the meta row and adds the new one, the
\* engine's writes a file.
LEMMA MetaKeeps ==
  ASSUME StoresInv,
         \/ \E meta \in Metas : WriteMetaDelete(meta) \/ WriteMetaFile(meta)
         \/ WriteMetaAdd
  PROVE  StoresInv'
<1> USE DEF StoresInv
<1>1. ASSUME NEW meta \in Metas, WriteMetaDelete(meta)
      PROVE  StoresInv'
  <2>1. /\ backend = "lanceTs" /\ ready /\ call = NoCall /\ call.op = "none"
        /\ call' = [op |-> "meta", docs |-> <<>>, files |-> {}, keep |-> {}, left |-> <<meta>>]
        /\ metaRows' = <<>> /\ metaAsked' = <<meta>>
        /\ UNCHANGED <<backend, schema, ready, held, serial, asked, fts, ftsOnDisk, miniStale,
                       mini, build, missed>>
    BY <1>1 DEF WriteMetaDelete, NoCall
  <2>2. Rows' /\ MetaKept' /\ Called'
    BY <2>1 DEF Rows, Keyed, MetaKept, Called
  <2>3. Follows'
    BY <2>1 DEF Follows, Keyed, Content
  <2>4. Keywords'
    BY <2>1 DEF Keywords, HeldIds, ListedIds
  <2> QED
    BY <2>2, <2>3, <2>4
<1>2. ASSUME NEW meta \in Metas, WriteMetaFile(meta)
      PROVE  StoresInv'
  <2>1. /\ backend = "lanceRs" /\ call = NoCall /\ call.op = "none"
        /\ metaRows' \in {<<meta>>, <<Torn>>} /\ metaAsked' = <<meta>>
        /\ UNCHANGED <<backend, schema, ready, held, serial, call, asked, fts, ftsOnDisk,
                       miniStale, mini, build, missed>>
    BY <1>2 DEF WriteMetaFile, NoCall
  <2>2. Rows' /\ MetaKept' /\ Called'
    BY <2>1 DEF Rows, Keyed, MetaKept, Called
  <2>3. Follows'
    BY <2>1 DEF Follows, Keyed, Content
  <2>4. Keywords'
    BY <2>1 DEF Keywords, HeldIds, ListedIds
  <2> QED
    BY <2>2, <2>3, <2>4
<1>3. CASE WriteMetaAdd
  <2>1. /\ call.op = "meta" /\ call # NoCall /\ call' = NoCall /\ call'.op = "none"
        /\ metaRows' = metaRows \o call.left
        /\ UNCHANGED <<backend, schema, ready, held, serial, asked, fts, ftsOnDisk, miniStale,
                       mini, build, missed, metaAsked>>
    BY <1>3 DEF WriteMetaAdd, NoCall
  <2>2. metaRows = <<>> /\ call.left = metaAsked /\ backend = "lanceTs"
    BY <2>1 DEF Called
  <2>3. metaRows' = metaAsked
    BY <2>1, <2>2 DEF MetaKept
  <2>4. Rows' /\ MetaKept' /\ Called'
    BY <2>1, <2>3 DEF Rows, Keyed, MetaKept, Called
  <2>5. Follows'
    BY <2>1 DEF Follows, Keyed, Content
  <2>6. Keywords'
    BY <2>1, <2>2 DEF Keywords, HeldIds, ListedIds
  <2> QED
    BY <2>4, <2>5, <2>6
<1> QED
  BY <1>1, <1>2, <1>3

-----------------------------------------------------------------------------
(* The theorem about the stores.                                           *)

\* Every step of the store and of its writer keeps the invariant.
LEMMA StoresStepInv == StoresInv /\ [StoresNext]_storeVars => StoresInv'
<1> SUFFICES ASSUME StoresInv, [StoresNext]_storeVars PROVE StoresInv'
  OBVIOUS
<1>1. ASSUME NEW docs \in Batches, StartUpsert(docs)
      PROVE  StoresInv'
  BY <1>1, StartUpsertKeeps
<1>2. ASSUME NEW files \in SUBSET DocFiles, StartDelete(files)
      PROVE  StoresInv'
  BY <1>2, StartDeleteKeeps
<1>3. ASSUME NEW file \in DocFiles, NEW keep \in SUBSET Ids, StartOrphans(file, keep)
      PROVE  StoresInv'
  BY <1>3, StartOrphansKeeps
<1>4. CASE \E meta \in Metas : WriteMetaDelete(meta) \/ WriteMetaFile(meta)
  BY <1>4, MetaKeeps
<1>5. CASE UNCHANGED storeVars
  <2>1. UNCHANGED <<backend, schema, ready, held, serial, call, asked, fts, ftsOnDisk,
                    miniStale, mini, build, missed, metaRows, metaAsked>>
    BY <1>5 DEF storeVars
  <2>2. Rows' /\ Called' /\ MetaKept'
    BY <2>1 DEF StoresInv, Rows, Keyed, Called, MetaKept
  <2>3. Follows'
    BY <2>1 DEF StoresInv, Follows, Keyed, Content, Wanted, Left
  <2>4. Keywords'
    BY <2>1 DEF StoresInv, Keywords, HeldIds, ListedIds
  <2> QED
    BY <2>2, <2>3, <2>4 DEF StoresInv
<1>6. CASE \/ LanceTsInitialize \/ PgTsInitialize \/ QdrantTsInitialize \/ ChromaTsInitialize
           \/ LanceRsInitialize \/ PgRsInitialize \/ QdrantRsInitialize \/ ChromaRsInitialize
  BY <1>6, InitializeKeeps
<1>7. CASE \/ LanceTsUpsert \/ LanceRsUpsert \/ PgRsUpsert
           \/ QdrantTsUpsert \/ QdrantRsUpsert \/ ChromaTsUpsert \/ ChromaRsUpsert
  BY <1>7, KeyedUpsertsKeep
<1>8. CASE PgTsUpsert
  BY <1>8, PgTsUpsertKeeps
<1>9. CASE \/ LanceTsDelete \/ LanceRsDelete \/ PgTsDelete \/ PgRsDelete
           \/ QdrantTsDelete \/ ChromaTsDelete \/ ChromaRsDelete
  BY <1>9, DeletesAtOnceKeep
<1>10. CASE QdrantRsDelete
  BY <1>10, QdrantRsDeleteKeeps
<1>11. CASE LanceTsOrphans \/ QdrantTsOrphans \/ ChromaTsOrphans
  BY <1>11, OrphansKeep
<1>12. CASE Restart \/ GiveUp \/ PgTsOrphans
  BY <1>12, StopKeeps
<1>13. CASE Return \/ Repeat \/ ChromaTsList
  BY <1>13, ReturnKeeps, RepeatKeeps, ListKeeps
<1>14. CASE StartBuild \/ BuildPage \/ WriteMetaAdd
  BY <1>14, StartBuildKeeps, BuildPageKeeps, MetaKeeps
<1> QED
  BY <1>1, <1>2, <1>3, <1>4, <1>5, <1>6, <1>7, <1>8, <1>9, <1>10, <1>11, <1>12, <1>13, <1>14
     DEF StoresNext

\* The invariant is what callers of a store rely on.
LEMMA StoresInvSound == StoresInv => ContentsAsAsked
<1> SUFFICES ASSUME StoresInv PROVE ContentsAsAsked
  OBVIOUS
<1> USE DEF StoresInv
<1>1. MetaNeverStale /\ Len(metaRows) <= 1
  <2>1. metaAsked = <<>> \/ \E meta \in Metas : metaAsked = <<meta>>
    BY DEF MetaKept
  <2>2. metaRows = <<>> \/ metaRows = <<Torn>> \/ (metaRows = metaAsked /\ metaRows # <<>>)
    BY DEF MetaKept
  <2>3. CASE metaRows = <<>>
    BY <2>3 DEF MetaNeverStale, LanceTsReadMeta, LanceRsReadMeta
  <2>4. CASE metaRows = <<Torn>> /\ backend = "lanceRs"
    BY <2>4 DEF MetaNeverStale, LanceTsReadMeta, LanceRsReadMeta
  <2>5. CASE metaRows = metaAsked /\ metaRows # <<>>
    <3>1. PICK meta \in Metas : metaAsked = <<meta>> /\ metaRows = <<meta>>
      BY <2>1, <2>5
    <3>2. Head(metaRows) = meta /\ meta \in ToSet(metaAsked) /\ Len(metaRows) = 1
      BY <3>1 DEF ToSet
    <3> QED
      BY <2>5, <3>2 DEF MetaNeverStale, LanceTsReadMeta, LanceRsReadMeta
  <2> QED
    BY <2>2, <2>3, <2>4, <2>5 DEF MetaKept
<1>2. call = NoCall => call.op = "none"
  BY DEF NoCall
<1>3. HoldsWhatWasAsked
  BY <1>2 DEF HoldsWhatWasAsked, Follows, Keyed
<1>4. KeywordIndexFresh
  BY DEF KeywordIndexFresh, Keywords, HeldIds
<1>5. StoresTypeOK
  BY <1>1 DEF StoresTypeOK, Rows, Keyed, Keywords
<1> QED
  BY <1>1, <1>3, <1>4, <1>5 DEF ContentsAsAsked

\* Whichever backend is configured, through failed requests, repeated calls, calls
\* given up and kills (upsert, deleteBySourceFile, deleteOrphanedChunks and writeMeta
\* of the four stores in both languages): when a call returns, the table holds what
\* the completed calls asked for, one row for each id; the TypeScript Postgres table,
\* whose inserts never conflict, holds at least that.  The keyword index that is not
\* stale is of the collection unless a write fell into its build, and the meta read
\* back is the last one written or none.
THEOREM StoresHoldWhatWasAsked == StoresSpec => []ContentsAsAsked
<1>1. StoresInit => StoresInv
  BY StoresInitInv
<1>2. StoresInv /\ [StoresNext]_storeVars => StoresInv'
  BY StoresStepInv
<1>3. StoresInv => ContentsAsAsked
  BY StoresInvSound
<1> QED
  BY <1>1, <1>2, <1>3, PTL DEF StoresSpec

-----------------------------------------------------------------------------
(* The invariant of the suite.                                             *)

AtVariant == {"archive", "extract", "remove", "rename", "plugins", "install", "evaluate",
              "save", "progress"}

Results == Seq(experiments)

SuiteTypes ==
  /\ edition \in Editions /\ kills \in 0..MaxKills
  /\ published \in [Databases -> Nat \ {0}]
  /\ cacheDir \in [Databases -> [versions : SUBSET Nat, whole : BOOLEAN]]
  /\ stagingDir \in [Databases -> [versions : SUBSET Nat, whole : BOOLEAN]]
  /\ \A d \in Databases :
       /\ cacheDir[d].versions \subseteq 1..published[d]
       /\ stagingDir[d].versions \subseteq 1..published[d]
  /\ modules \in [Databases -> {"absent", "partial", "whole"}]
  /\ progressFile \in [Editions -> [kind : {"absent", "torn", "saved"}, results : Results]]
  /\ suite \in [step : AtVariant \cup {"idle", "variant", "reported"}, at : Nat,
                noCache : BOOLEAN, results : Results]

\* Results a run of this edition may have: of variants that are not skipped, each
\* once.
Credible(results, e) ==
  /\ \A i \in DOMAIN results :
       /\ results[i].edition = e
       /\ \E j \in DOMAIN Variants : ~Variants[j].skip /\ results[i].name = Variants[j].name
  /\ \A i, j \in DOMAIN results : results[i].name = results[j].name => i = j

StartOf(s, t) == Len(s) <= Len(t) /\ \A i \in 1..Len(s) : s[i] = t[i]

\* What the progress files hold could be resumed.
Progress ==
  \A e \in Editions :
    /\ progressFile[e].kind = "saved" <=> progressFile[e].results # <<>>
    /\ Credible(progressFile[e].results, e)

\* A command has a result of every variant it passed, and what was saved before it
\* is the start of its results unless it was told not to use the cache.
Underway ==
  /\ suite.at <= Len(Variants) + 1
  /\ suite.step # "idle" =>
       /\ suite.at >= 1
       /\ Credible(suite.results, edition)
       /\ \A j \in 1..suite.at - 1 : ~Variants[j].skip => Variants[j].name \in ResultNames
       /\ ~suite.noCache => StartOf(progressFile[edition].results, suite.results)
  /\ suite.step \in AtVariant =>
       suite.at \in DOMAIN Variants /\ ~Variants[suite.at].skip
  /\ suite.step \in AtVariant \ {"progress"} => Variants[suite.at].name \notin ResultNames
  /\ suite.step = "progress" => Variants[suite.at].name \in ResultNames
  /\ suite.step = "reported" => suite.at = Len(Variants) + 1

\* A directory that exists under its name is whole; the one an extraction just
\* finished in the staging place too.
Archives ==
  /\ \A d \in Databases : cacheDir[d].whole \/ cacheDir[d].versions = {}
  /\ suite.step \in {"remove", "rename"} => stagingDir[Database].whole
  /\ suite.step \in {"plugins", "install", "evaluate", "save"} => cacheDir[Database].whole
  /\ \A r \in experiments : r.seen.whole

SuiteInv == SuiteTypes /\ Progress /\ Underway /\ Archives

-----------------------------------------------------------------------------
(* Steps of the suite.                                                     *)

\* The variants are a sequence, and each has its run directory.
LEMMA VariantsListed ==
  /\ Len(Variants) \in Nat /\ DOMAIN Variants = 1..Len(Variants)
  /\ \A i \in DOMAIN Variants : Variants[i].db \in Databases /\ Variants[i].skip \in BOOLEAN
BY SuiteAssumption DEF Databases

\* Nothing has been run.
LEMMA SuiteInitInv == SuiteInit => SuiteInv
<1> SUFFICES ASSUME SuiteInit PROVE SuiteInv
  OBVIOUS
<1> USE DEF SuiteInit
<1>1. <<>> \in Results /\ Len(Variants) \in Nat /\ MaxEdits \in Nat /\ MaxKills \in Nat
  BY VariantsListed, SuiteAssumption DEF Results
<1>2. SuiteTypes
  BY <1>1 DEF SuiteTypes, Editions, NoDir, NoProgress, NoSuite
<1>3. Progress
  BY DEF Progress, Credible, NoProgress
<1>4. Underway /\ Archives
  BY <1>1 DEF Underway, Archives, NoSuite, NoDir, AtVariant
<1> QED
  BY <1>2, <1>3, <1>4 DEF SuiteInv

\* A step that only moves the command on keeps the invariant if it leads to where the
\* invariant asks no more of it than is known.
LEMMA MovesOn ==
  ASSUME SuiteInv,
         UNCHANGED <<edition, published, cacheDir, stagingDir, progressFile, experiments, kills>>,
         modules' \in [Databases -> {"absent", "partial", "whole"}],
         suite' \in [step : AtVariant \cup {"idle", "variant", "reported"}, at : Nat,
                     noCache : BOOLEAN, results : Results],
         Underway',
         suite'.step \in {"remove", "rename"} => stagingDir[Variants[suite'.at].db].whole,
         suite'.step \in {"plugins", "install", "evaluate", "save"} =>
           cacheDir[Variants[suite'.at].db].whole
  PROVE  SuiteInv'
<1>1. SuiteTypes'
  BY DEF SuiteInv, SuiteTypes, Results
<1>2. Progress'
  BY DEF SuiteInv, Progress
<1>3. Archives'
  BY DEF SuiteInv, Archives, Database
<1> QED
  BY <1>1, <1>2, <1>3 DEF SuiteInv

\* The command goes to another step for the same variant, with what it knows.
LEMMA GoesOn ==
  ASSUME SuiteInv, NEW step \in AtVariant \ {"progress"},
         suite.step \in AtVariant \ {"progress"},
         suite' = [suite EXCEPT !.step = step],
         UNCHANGED <<edition, published, cacheDir, stagingDir, progressFile, experiments, kills>>,
         modules' \in [Databases -> {"absent", "partial", "whole"}],
         step \in {"remove", "rename"} => stagingDir[Database].whole,
         step \in {"plugins", "install", "evaluate", "save"} => cacheDir[Database].whole
  PROVE  SuiteInv'
<1>1. /\ suite \in [step : AtVariant \cup {"idle", "variant", "reported"}, at : Nat,
                    noCache : BOOLEAN, results : Results]
      /\ Underway
  BY DEF SuiteInv, SuiteTypes
<1>2. /\ suite'.step = step /\ suite'.at = suite.at /\ suite'.noCache = suite.noCache
      /\ suite'.results = suite.results
      /\ suite' \in [step : AtVariant \cup {"idle", "variant", "reported"}, at : Nat,
                     noCache : BOOLEAN, results : Results]
  BY <1>1
<1>3. ResultNames' = ResultNames
  BY <1>2 DEF ResultNames
<1>4. suite.step # "idle" /\ step # "idle" /\ step # "progress" /\ step # "reported"
  BY DEF AtVariant
<1>5. Underway'
  BY <1>1, <1>2, <1>3, <1>4 DEF Underway
<1> QED
  BY <1>2, <1>5, MovesOn DEF Database

\* The command ends: nothing is asked of it any more.
LEMMA CommandEnds ==
  ASSUME SuiteInv, suite' = NoSuite,
         UNCHANGED <<edition, published, cacheDir, stagingDir, modules, progressFile, experiments,
                     kills>>
  PROVE  SuiteInv'
<1>1. <<>> \in Results /\ Len(Variants) \in Nat
  BY VariantsListed DEF Results
<1>2. /\ suite'.step = "idle" /\ suite'.at = 0
      /\ suite' \in [step : AtVariant \cup {"idle", "variant", "reported"}, at : Nat,
                     noCache : BOOLEAN, results : Results]
  BY <1>1 DEF NoSuite
<1>3. Underway'
  BY <1>1, <1>2 DEF Underway, AtVariant
<1>4. modules' \in [Databases -> {"absent", "partial", "whole"}]
  BY DEF SuiteInv, SuiteTypes
<1> QED
  BY <1>2, <1>3, <1>4, MovesOn

\* A command resumes what one of the same edition saved.
LEMMA BeginSuiteKeeps ==
  ASSUME SuiteInv, NEW noCache \in BOOLEAN, BeginSuite(noCache)
  PROVE  SuiteInv'
<1>1. /\ suite' = [step |-> "variant", at |-> 1, noCache |-> noCache,
                   results |-> Resumed(noCache)]
      /\ UNCHANGED <<edition, published, cacheDir, stagingDir, modules, progressFile,
                     experiments, kills>>
  BY DEF BeginSuite
<1>2. /\ Resumed(noCache) \in Results /\ Credible(Resumed(noCache), edition)
      /\ ~noCache => Resumed(noCache) = progressFile[edition].results
      /\ progressFile[edition].results \in Results
  <2>1. progressFile[edition].results \in Results /\ Credible(progressFile[edition].results, edition)
    BY DEF SuiteInv, SuiteTypes, Progress
  <2>2. <<>> \in Results /\ Credible(<<>>, edition)
    BY DEF Results, Credible
  <2> QED
    BY <2>1, <2>2 DEF Resumed
<1> DEFINE r == Resumed(noCache)
<1> HIDE DEF r
<1>3. /\ suite' \in [step : AtVariant \cup {"idle", "variant", "reported"}, at : Nat,
                     noCache : BOOLEAN, results : Results]
      /\ suite'.step = "variant" /\ suite'.at = 1 /\ suite'.noCache = noCache /\ suite'.results = r
  BY <1>1, <1>2 DEF r
<1>4. \A s \in Results : StartOf(s, s)
  BY DEF Results, StartOf
<1>5. Underway'
  BY <1>1, <1>2, <1>3, <1>4, VariantsListed DEF Underway, AtVariant, r
<1>6. modules' \in [Databases -> {"absent", "partial", "whole"}]
  BY <1>1 DEF SuiteInv, SuiteTypes
<1> QED
  BY <1>1, <1>3, <1>5, <1>6, MovesOn

\* A variant that is skipped or has its result is passed by.
LEMMA NextVariantKeeps ==
  ASSUME SuiteInv, NextVariant
  PROVE  SuiteInv'
<1> DEFINE pass == Variants[suite.at].skip \/ Variants[suite.at].name \in ResultNames
<1>1. /\ suite.step = "variant" /\ suite.at <= Len(Variants)
      /\ suite' = IF pass THEN [suite EXCEPT !.at = @ + 1] ELSE [suite EXCEPT !.step = "archive"]
      /\ UNCHANGED <<edition, published, cacheDir, stagingDir, modules, progressFile,
                     experiments, kills>>
  BY DEF NextVariant, Go
<1>2. /\ suite \in [step : AtVariant \cup {"idle", "variant", "reported"}, at : Nat,
                    noCache : BOOLEAN, results : Results]
      /\ Underway /\ modules' \in [Databases -> {"absent", "partial", "whole"}]
  BY <1>1 DEF SuiteInv, SuiteTypes
<1>3. /\ suite.at \in 1..Len(Variants) /\ suite.at \in DOMAIN Variants
      /\ Len(Variants) \in Nat /\ Variants[suite.at].skip \in BOOLEAN
  BY <1>1, <1>2, VariantsListed DEF Underway
<1>4. CASE pass
  <2>1. /\ suite'.step = "variant" /\ suite'.at = suite.at + 1 /\ suite'.noCache = suite.noCache
        /\ suite'.results = suite.results
        /\ suite' \in [step : AtVariant \cup {"idle", "variant", "reported"}, at : Nat,
                       noCache : BOOLEAN, results : Results]
    BY <1>1, <1>2, <1>4
  <2>2. ResultNames' = ResultNames
    BY <2>1 DEF ResultNames
  <2>3. \A j \in 1..suite'.at - 1 : j \in 1..suite.at - 1 \/ j = suite.at
    BY <1>2, <2>1
  <2>4. \A j \in 1..suite'.at - 1 : ~Variants[j].skip => Variants[j].name \in ResultNames'
    BY <1>1, <1>2, <1>4, <2>2, <2>3 DEF Underway
  <2>5. Underway'
    BY <1>1, <1>2, <1>3, <2>1, <2>2, <2>4 DEF Underway, AtVariant
  <2> QED
    BY <1>1, <1>2, <2>1, <2>5, MovesOn
<1>5. CASE ~pass
  <2>1. /\ suite'.step = "archive" /\ suite'.at = suite.at /\ suite'.noCache = suite.noCache
        /\ suite'.results = suite.results
        /\ suite' \in [step : AtVariant \cup {"idle", "variant", "reported"}, at : Nat,
                       noCache : BOOLEAN, results : Results]
    BY <1>1, <1>2, <1>5 DEF AtVariant
  <2>2. ResultNames' = ResultNames
    BY <2>1 DEF ResultNames
  <2>3. Underway'
    BY <1>1, <1>2, <1>3, <1>5, <2>1, <2>2 DEF Underway, AtVariant
  <2> QED
    BY <1>1, <1>2, <2>1, <2>3, MovesOn
<1> QED
  BY <1>4, <1>5

\* Steps for the same variant, which change no directory.
LEMMA VariantStepsKeep ==
  ASSUME SuiteInv,
         DownloadAndExtractTo \/ EnsurePluginsInstalled \/ Installed \/ Evaluate
  PROVE  SuiteInv'
<1> USE DEF AtVariant
<1>1. /\ Database \in Databases
      /\ modules \in [Databases -> {"absent", "partial", "whole"}]
      /\ cacheDir[Database].whole \/ cacheDir[Database].versions = {}
  <2>1. suite.step \in AtVariant
    BY DEF DownloadAndExtractTo, EnsurePluginsInstalled, Installed, Evaluate
  <2>2. Database \in Databases
    BY <2>1, VariantsListed DEF SuiteInv, Underway, Database
  <2> QED
    BY <2>2 DEF SuiteInv, SuiteTypes, Archives
<1>2. CASE DownloadAndExtractTo
  <2>1. CASE ~suite.noCache /\ cacheDir[Database].versions # {}
    BY <1>1, <1>2, <2>1, GoesOn DEF DownloadAndExtractTo, Go
  <2>2. CASE ~(~suite.noCache /\ cacheDir[Database].versions # {})
    BY <1>1, <1>2, <2>2, GoesOn DEF DownloadAndExtractTo, Go
  <2> QED
    BY <2>1, <2>2
<1>3. CASE EnsurePluginsInstalled
  <2>1. cacheDir[Database].whole
    BY <1>3 DEF EnsurePluginsInstalled, SuiteInv, Archives
  <2>2. CASE ~Variants[suite.at].pins \/ modules[Database] # "absent"
    BY <1>1, <1>3, <2>1, <2>2, GoesOn DEF EnsurePluginsInstalled, Go
  <2>3. CASE ~(~Variants[suite.at].pins \/ modules[Database] # "absent")
    BY <1>1, <1>3, <2>1, <2>3, GoesOn DEF EnsurePluginsInstalled, Go
  <2> QED
    BY <2>2, <2>3
<1>4. CASE Installed
  <2>1. cacheDir[Database].whole
    BY <1>4 DEF Installed, SuiteInv, Archives
  <2> QED
    BY <1>1, <1>4, <2>1, GoesOn DEF Installed, Go
<1>5. CASE Evaluate
  <2>1. cacheDir[Database].whole
    BY <1>5 DEF Evaluate, SuiteInv, Archives
  <2> QED
    BY <1>1, <1>5, <2>1, GoesOn DEF Evaluate, Go
<1> QED
  BY <1>2, <1>3, <1>4, <1>5

\* Files reach the staging directory: it holds versions published so far.
LEMMA StagingKeeps ==
  ASSUME SuiteInv, Database \in Databases, NEW dir,
         dir \in {NoDir} \cup [versions : {stagingDir[Database].versions \cup {published[Database]}},
                               whole : BOOLEAN],
         stagingDir' = [stagingDir EXCEPT ![Database] = dir],
         UNCHANGED <<edition, published, cacheDir, modules, progressFile, experiments, kills>>
  PROVE  /\ stagingDir' \in [Databases -> [versions : SUBSET Nat, whole : BOOLEAN]]
         /\ \A d \in Databases : stagingDir'[d].versions \subseteq 1..published[d]
         /\ stagingDir'[Database] = dir
<1>1. /\ stagingDir \in [Databases -> [versions : SUBSET Nat, whole : BOOLEAN]]
      /\ published[Database] \in Nat \ {0}
      /\ \A d \in Databases : stagingDir[d].versions \subseteq 1..published[d]
  BY DEF SuiteInv, SuiteTypes
<1>2. /\ dir.versions \subseteq 1..published[Database] /\ dir.whole \in BOOLEAN
      /\ dir \in [versions : SUBSET Nat, whole : BOOLEAN]
  <2>1. stagingDir[Database].versions \cup {published[Database]} \subseteq 1..published[Database]
    BY <1>1
  <2>2. stagingDir[Database].versions \cup {published[Database]} \in SUBSET Nat
    BY <1>1, <2>1
  <2>3. NoDir.versions = {} /\ NoDir \in [versions : SUBSET Nat, whole : BOOLEAN]
    BY DEF NoDir
  <2> QED
    BY <2>1, <2>2, <2>3
<1> QED
  BY <1>1, <1>2

\* An extraction makes the staging directory whole before it takes the name.
LEMMA ExtractionKeeps ==
  ASSUME SuiteInv, ExtractSome \/ ExtractAll \/ ExtractFails
  PROVE  SuiteInv'
<1> USE DEF AtVariant
<1>1. suite.step = "extract" /\ Underway /\ Progress /\ Archives /\ SuiteTypes
  BY DEF ExtractSome, ExtractAll, ExtractFails, SuiteInv
<1>2. Database \in Databases /\ suite.at \in DOMAIN Variants
  BY <1>1, VariantsListed DEF Underway, Database
<1>3. /\ suite \in [step : AtVariant \cup {"idle", "variant", "reported"}, at : Nat,
                    noCache : BOOLEAN, results : Results]
      /\ \A d \in Databases : published[d] \in Nat \ {0}
  BY <1>1 DEF SuiteTypes
<1>4. UNCHANGED <<edition, published, cacheDir, modules, progressFile, experiments, kills>>
  BY DEF ExtractSome, ExtractAll, ExtractFails
<1> DEFINE dir(w) == [versions |-> stagingDir[Database].versions \cup {published[Database]}, whole |-> w]
<1>5. PICK new : /\ stagingDir' = [stagingDir EXCEPT ![Database] = new]
                 /\ new = NoDir \/ \E w \in BOOLEAN : new = dir(w)
                 /\ ExtractAll => new.whole
  <2>1. ExtractSome => stagingDir' = [stagingDir EXCEPT ![Database] = dir(FALSE)]
    BY DEF ExtractSome
  <2>2. ExtractAll => stagingDir' = [stagingDir EXCEPT ![Database] = dir(TRUE)]
    BY DEF ExtractAll
  <2>3. ExtractFails => stagingDir' = [stagingDir EXCEPT ![Database] = NoDir]
    BY DEF ExtractFails
  <2> dir(TRUE).whole
    OBVIOUS
  <2> HIDE DEF dir
  <2>4. CASE ExtractAll
    BY <2>2, <2>4
  <2>5. CASE ~ExtractAll /\ ExtractSome
    BY <2>1, <2>5
  <2>6. CASE ~ExtractAll /\ ExtractFails
    BY <2>3, <2>6
  <2> QED
    BY <2>4, <2>5, <2>6
<1>6. /\ stagingDir' \in [Databases -> [versions : SUBSET Nat, whole : BOOLEAN]]
      /\ \A d \in Databases : stagingDir'[d].versions \subseteq 1..published[d]
      /\ stagingDir'[Database] = new
  BY <1>2, <1>4, <1>5, StagingKeeps
<1>7. /\ suite' \in [step : AtVariant \cup {"idle", "variant", "reported"}, at : Nat,
                     noCache : BOOLEAN, results : Results]
      /\ \/ suite'.step = "idle" /\ suite'.at = 0
         \/ /\ suite'.step \in {"extract", "rename", "remove"}
            /\ suite'.at = suite.at /\ suite'.noCache = suite.noCache
            /\ suite'.results = suite.results
            /\ ExtractAll \/ suite'.step = "extract"
  <2>1. CASE ExtractSome
    BY <1>1, <1>3, <2>1 DEF ExtractSome
  <2>2. CASE ExtractAll
    BY <1>3, <2>2 DEF ExtractAll, Go
  <2>3. CASE ExtractFails
    <3>1. <<>> \in Results
      BY DEF Results
    <3> QED
      BY <2>3, <3>1 DEF ExtractFails, NoSuite
  <2> QED
    BY <2>1, <2>2, <2>3
<1>8. SuiteTypes'
  BY <1>1, <1>4, <1>6, <1>7 DEF SuiteTypes, Results
<1>9. Progress'
  BY <1>1, <1>4 DEF Progress
<1>10. suite'.results = suite.results => ResultNames' = ResultNames
  BY DEF ResultNames
<1>11. Underway'
  BY <1>1, <1>3, <1>4, <1>7, <1>10, VariantsListed DEF Underway
<1>12. suite'.at = suite.at => Database' = Database
  BY DEF Database
<1>13. Archives'
  BY <1>1, <1>4, <1>5, <1>6, <1>7, <1>12 DEF Archives
<1> QED
  BY <1>8, <1>9, <1>11, <1>13 DEF SuiteInv

\* The whole directory takes the name, after the old one went.
LEMMA ReplaceKeeps ==
  ASSUME SuiteInv, RemoveOld \/ RenameStaging
  PROVE  SuiteInv'
<1> USE DEF AtVariant
<1>1. suite.step \in {"remove", "rename"} /\ Underway /\ Progress /\ Archives /\ SuiteTypes
  BY DEF RemoveOld, RenameStaging, SuiteInv
<1>2. Database \in Databases /\ stagingDir[Database].whole
  BY <1>1, VariantsListed DEF Underway, Database, Archives
<1>3. /\ suite \in [step : AtVariant \cup {"idle", "variant", "reported"}, at : Nat,
                    noCache : BOOLEAN, results : Results]
      /\ cacheDir \in [Databases -> [versions : SUBSET Nat, whole : BOOLEAN]]
      /\ stagingDir \in [Databases -> [versions : SUBSET Nat, whole : BOOLEAN]]
      /\ NoDir \in [versions : SUBSET Nat, whole : BOOLEAN] /\ NoDir.versions = {}
  BY <1>1 DEF SuiteTypes, NoDir
<1>4. /\ UNCHANGED <<edition, published, modules, progressFile, experiments, kills>>
      /\ \/ /\ cacheDir' = [cacheDir EXCEPT ![Database] = NoDir] /\ stagingDir' = stagingDir
            /\ suite' = [suite EXCEPT !.step = "rename"]
         \/ /\ cacheDir' = [cacheDir EXCEPT ![Database] = stagingDir[Database]]
            /\ stagingDir' = [stagingDir EXCEPT ![Database] = NoDir]
            /\ suite' = [suite EXCEPT !.step = "plugins"]
  BY DEF RemoveOld, RenameStaging, Go
<1>5. /\ cacheDir' \in [Databases -> [versions : SUBSET Nat, whole : BOOLEAN]]
      /\ stagingDir' \in [Databases -> [versions : SUBSET Nat, whole : BOOLEAN]]
      /\ \A d \in Databases :
           /\ cacheDir'[d].versions \subseteq 1..published[d]
           /\ stagingDir'[d].versions \subseteq 1..published[d]
  <2>1. \A d \in Databases :
          /\ cacheDir[d].versions \subseteq 1..published[d]
          /\ stagingDir[d].versions \subseteq 1..published[d]
    BY <1>1 DEF SuiteTypes
  <2> HIDE DEF AtVariant
  <2>2. CASE /\ cacheDir' = [cacheDir EXCEPT ![Database] = NoDir]
             /\ stagingDir' = stagingDir
    BY <1>2, <1>3, <2>1, <2>2
  <2>3. CASE /\ cacheDir' = [cacheDir EXCEPT ![Database] = stagingDir[Database]]
             /\ stagingDir' = [stagingDir EXCEPT ![Database] = NoDir]
    BY <1>2, <1>3, <2>1, <2>3
  <2> QED
    BY <1>4, <2>2, <2>3
<1>6. /\ suite' \in [step : AtVariant \cup {"idle", "variant", "reported"}, at : Nat,
                     noCache : BOOLEAN, results : Results]
      /\ suite'.step \in {"rename", "plugins"}
      /\ suite'.at = suite.at /\ suite'.noCache = suite.noCache
      /\ suite'.results = suite.results
  BY <1>3, <1>4
<1>7. ResultNames' = ResultNames /\ Database' = Database
  BY <1>6 DEF ResultNames, Database
<1>8. SuiteTypes'
  BY <1>1, <1>4, <1>5, <1>6 DEF SuiteTypes, Results
<1>9. Progress'
  BY <1>1, <1>4 DEF Progress
<1>10. Underway'
  BY <1>1, <1>4, <1>6, <1>7 DEF Underway
<1>11. \A d \in Databases : cacheDir'[d].whole \/ cacheDir'[d].versions = {}
  BY <1>1, <1>2, <1>3, <1>4 DEF Archives
<1>12. /\ suite'.step = "rename" => stagingDir'[Database].whole
       /\ suite'.step = "plugins" => cacheDir'[Database].whole
  BY <1>2, <1>3, <1>4
<1>13. Archives'
  BY <1>1, <1>4, <1>6, <1>7, <1>11, <1>12 DEF Archives
<1> QED
  BY <1>8, <1>9, <1>10, <1>13 DEF SuiteInv

\* The run is saved before it counts as a result.
LEMMA SaveRunKeeps ==
  ASSUME SuiteInv, SaveRun
  PROVE  SuiteInv'
<1> USE DEF AtVariant
<1> DEFINE r == Result
           s == suite.results
           t == Append(s, r)
<1>1. suite.step = "save" /\ Underway /\ Progress /\ Archives /\ SuiteTypes
  BY DEF SaveRun, SuiteInv
<1>2. /\ experiments' = experiments \cup {r}
      /\ suite' = [suite EXCEPT !.step = "progress", !.results = t]
      /\ UNCHANGED <<edition, published, cacheDir, stagingDir, modules, progressFile, kills>>
  BY DEF SaveRun
<1>3. /\ suite \in [step : AtVariant \cup {"idle", "variant", "reported"}, at : Nat,
                    noCache : BOOLEAN, results : Results]
      /\ suite.at \in DOMAIN Variants /\ ~Variants[suite.at].skip
      /\ Variants[suite.at].name \notin ResultNames
      /\ Credible(s, edition) /\ suite.at >= 1
      /\ cacheDir[Database].whole /\ edition \in Editions
  BY <1>1 DEF Underway, Archives, SuiteTypes
<1>4. r.name = Variants[suite.at].name /\ r.edition = edition /\ r.seen = cacheDir[Database]
  BY DEF Result
<1> HIDE DEF r
<1>5. /\ s \in Seq(experiments) /\ s \in Seq(experiments \cup {r})
      /\ \A i \in 1..Len(s) : s[i] \in experiments
      /\ Len(s) \in Nat /\ DOMAIN s = 1..Len(s)
  <2>1. s \in Seq(experiments)
    BY <1>3 DEF Results
  <2>2. \A i \in 1..Len(s) : s[i] \in experiments
    BY <2>1
  <2>3. s \in Seq(experiments \cup {r})
    BY <2>1, <2>2
  <2> QED
    BY <2>1, <2>2, <2>3
<1>6. /\ t \in Seq(experiments \cup {r}) /\ Len(t) = Len(s) + 1
      /\ DOMAIN t = 1..Len(s) + 1
      /\ \A i \in 1..Len(s) : t[i] = s[i]
      /\ t[Len(s) + 1] = r
  BY <1>5
<1> HIDE DEF s, t
<1>7. /\ suite' \in [step : AtVariant \cup {"idle", "variant", "reported"}, at : Nat,
                     noCache : BOOLEAN, results : Results']
      /\ suite'.step = "progress"
      /\ suite'.at = suite.at /\ suite'.noCache = suite.noCache /\ suite'.results = t
  <2>1. Results' = Seq(experiments \cup {r})
    BY <1>2 DEF Results
  <2>2. t \in Results'
    BY <1>6, <2>1
  <2> QED
    BY <1>2, <1>3, <2>2
<1>8. \A i \in 1..Len(s) + 1 : i \in 1..Len(s) \/ i = Len(s) + 1
  BY <1>5
<1>9. \A i \in 1..Len(s) : s[i].name # r.name
  BY <1>3, <1>4, <1>5 DEF ResultNames, s
<1>10. Credible(t, edition)
  <2>1. \A i \in 1..Len(s) + 1 :
          /\ t[i].edition = edition
          /\ \E j \in DOMAIN Variants : ~Variants[j].skip /\ t[i].name = Variants[j].name
    <3>1. \A i \in 1..Len(s) :
            /\ t[i].edition = edition
            /\ \E j \in DOMAIN Variants : ~Variants[j].skip /\ t[i].name = Variants[j].name
      BY <1>3, <1>5, <1>6 DEF Credible
    <3>2. /\ t[Len(s) + 1].edition = edition
          /\ \E j \in DOMAIN Variants : ~Variants[j].skip /\ t[Len(s) + 1].name = Variants[j].name
      BY <1>3, <1>4, <1>6
    <3> QED
      BY <1>8, <3>1, <3>2
  <2>2. \A i, j \in 1..Len(s) + 1 : t[i].name = t[j].name => i = j
    <3>1. \A i, j \in 1..Len(s) : s[i].name = s[j].name => i = j
      BY <1>3, <1>5 DEF Credible
    <3> QED
      BY <1>6, <1>8, <1>9, <3>1
  <2> QED
    BY <1>6, <2>1, <2>2 DEF Credible
<1>11. ResultNames' = ResultNames \cup {r.name}
  <2>1. ResultNames' = {t[i].name : i \in 1..Len(s) + 1}
    BY <1>6, <1>7 DEF ResultNames
  <2>2. ResultNames = {s[i].name : i \in 1..Len(s)}
    BY <1>5 DEF ResultNames, s
  <2>3. Len(s) + 1 \in 1..Len(s) + 1 /\ \A i \in 1..Len(s) : i \in 1..Len(s) + 1
    BY <1>5
  <2>4. \A n \in ResultNames' : n \in ResultNames \cup {r.name}
    BY <1>6, <1>8, <2>1, <2>2
  <2>5. \A n \in ResultNames \cup {r.name} : n \in ResultNames'
    BY <1>6, <2>1, <2>2, <2>3
  <2> QED
    BY <2>4, <2>5
<1>12. ~suite.noCache => StartOf(progressFile[edition].results, t)
  <2> SUFFICES ASSUME ~suite.noCache PROVE StartOf(progressFile[edition].results, t)
    OBVIOUS
  <2> DEFINE p == progressFile[edition].results
  <2>1. StartOf(p, s) /\ p \in Results
    BY <1>1, <1>3 DEF Underway, SuiteTypes, s
  <2>2. Len(p) \in Nat
    BY <2>1 DEF Results
  <2> HIDE DEF p
  <2>3. Len(p) <= Len(s) /\ \A i \in 1..Len(p) : p[i] = s[i]
    BY <2>1 DEF StartOf
  <2>4. \A i \in 1..Len(p) : i \in 1..Len(s)
    BY <1>5, <2>2, <2>3
  <2>5. Len(p) <= Len(t) /\ \A i \in 1..Len(p) : p[i] = t[i]
    BY <1>5, <1>6, <2>2, <2>3, <2>4
  <2> QED
    BY <2>5 DEF StartOf, p
<1>13. Underway'
  BY <1>1, <1>2, <1>3, <1>4, <1>7, <1>10, <1>11, <1>12 DEF Underway
<1>14. progressFile' \in [Editions -> [kind : {"absent", "torn", "saved"}, results : Results']]
  <2>1. \A q \in Seq(experiments) : q \in Seq(experiments \cup {r})
    <3> SUFFICES ASSUME NEW q \in Seq(experiments) PROVE q \in Seq(experiments \cup {r})
      OBVIOUS
    <3>1. \A i \in 1..Len(q) : q[i] \in experiments \cup {r}
      OBVIOUS
    <3> QED
      BY <3>1
  <2>2. Results \subseteq Results'
    BY <1>2, <2>1 DEF Results
  <2>3. progressFile \in [Editions -> [kind : {"absent", "torn", "saved"}, results : Results]]
    BY <1>1 DEF SuiteTypes
  <2> HIDE DEF AtVariant
  <2> QED
    BY <1>2, <2>2, <2>3
<1>15. SuiteTypes'
  BY <1>1, <1>2, <1>7, <1>14 DEF SuiteTypes
<1>16. Progress'
  BY <1>1, <1>2 DEF Progress
<1>17. \A e \in experiments' : e.seen.whole
  BY <1>1, <1>2, <1>3, <1>4 DEF Archives
<1>18. Archives'
  BY <1>1, <1>2, <1>7, <1>17 DEF Archives
<1> QED
  BY <1>13, <1>15, <1>16, <1>18 DEF SuiteInv

\* The results reach the progress file, or the write fails and is ignored.
LEMMA WriteProgressKeeps ==
  ASSUME SuiteInv, WriteProgress
  PROVE  SuiteInv'
<1> DEFINE p == progressFile
<1>1. suite.step = "progress" /\ Underway /\ Progress /\ Archives /\ SuiteTypes
  BY DEF WriteProgress, SuiteInv
<1>2. /\ progressFile' = [p EXCEPT ![edition] = Saved(suite.results)] \/ progressFile' = p
      /\ suite' = [suite EXCEPT !.step = "variant", !.at = @ + 1]
      /\ UNCHANGED <<edition, published, cacheDir, stagingDir, modules, experiments, kills>>
  BY DEF WriteProgress
<1>3. /\ suite \in [step : AtVariant \cup {"idle", "variant", "reported"}, at : Nat,
                    noCache : BOOLEAN, results : Results]
      /\ edition \in Editions
      /\ p \in [Editions -> [kind : {"absent", "torn", "saved"}, results : Results]]
  BY <1>1 DEF SuiteTypes
<1>4. /\ suite.at \in 1..Len(Variants) /\ Len(Variants) \in Nat
      /\ Variants[suite.at].name \in ResultNames
      /\ Credible(suite.results, edition)
      /\ ~suite.noCache => StartOf(p[edition].results, suite.results)
  BY <1>1, VariantsListed DEF Underway, AtVariant
<1>5. suite.results # <<>>
  <2> SUFFICES ASSUME suite.results = <<>> PROVE FALSE
    OBVIOUS
  <2>1. DOMAIN suite.results = {}
    OBVIOUS
  <2> QED
    BY <1>4, <2>1 DEF ResultNames
<1>6. /\ suite' \in [step : AtVariant \cup {"idle", "variant", "reported"}, at : Nat,
                     noCache : BOOLEAN, results : Results]
      /\ suite'.step = "variant" /\ suite'.at = suite.at + 1
      /\ suite'.noCache = suite.noCache /\ suite'.results = suite.results
  <2>1. suite' = [suite EXCEPT !.step = "variant", !.at = suite.at + 1] /\ suite.at + 1 \in Nat
    BY <1>2, <1>3
  <2>2. suite' = [step |-> "variant", at |-> suite.at + 1, noCache |-> suite.noCache,
                  results |-> suite.results]
    BY <1>3, <2>1
  <2> QED
    BY <1>3, <2>1, <2>2
<1>7. ResultNames' = ResultNames
  BY <1>6 DEF ResultNames
<1>8. /\ Saved(suite.results).kind = "saved" /\ Saved(suite.results).results = suite.results
      /\ Saved(suite.results) \in [kind : {"absent", "torn", "saved"}, results : Results]
  BY <1>3 DEF Saved
<1>9. /\ p[edition] \in [kind : {"absent", "torn", "saved"}, results : Results]
      /\ progressFile'[edition] \in {p[edition], Saved(suite.results)}
      /\ \A e \in Editions : e # edition => progressFile'[e] = p[e]
      /\ progressFile' \in [Editions -> [kind : {"absent", "torn", "saved"}, results : Results]]
  BY <1>2, <1>3, <1>8
<1>10. SuiteTypes'
  BY <1>1, <1>2, <1>6, <1>9 DEF SuiteTypes, Results
<1>11. Progress'
  BY <1>1, <1>2, <1>3, <1>4, <1>5, <1>8, <1>9 DEF Progress
<1>12. ~suite.noCache => StartOf(progressFile'[edition].results, suite.results)
  <2>1. StartOf(suite.results, suite.results)
    BY <1>3 DEF StartOf, Results
  <2> QED
    BY <1>4, <1>8, <1>9, <2>1
<1>13. \A j \in 1..suite'.at - 1 : ~Variants[j].skip => Variants[j].name \in ResultNames'
  <2>1. \A j \in 1..suite'.at - 1 : j \in 1..suite.at - 1 \/ j = suite.at
    BY <1>4, <1>6
  <2> QED
    BY <1>1, <1>4, <1>7, <2>1 DEF Underway
<1>14. Underway'
  BY <1>2, <1>4, <1>6, <1>7, <1>12, <1>13 DEF Underway, AtVariant
<1>15. Archives'
  BY <1>1, <1>2, <1>6 DEF Archives
<1> QED
  BY <1>10, <1>11, <1>14, <1>15 DEF SuiteInv

\* The file of a reported suite goes; a kill may tear the one being written.
LEMMA FileGoesKeeps ==
  ASSUME SuiteInv, Finish \/ KillSuite
  PROVE  SuiteInv'
<1> DEFINE p == progressFile
<1>1. Underway /\ Progress /\ Archives /\ SuiteTypes
  BY DEF SuiteInv
<1>2. /\ suite \in [step : AtVariant \cup {"idle", "variant", "reported"}, at : Nat,
                    noCache : BOOLEAN, results : Results]
      /\ edition \in Editions /\ kills \in 0..MaxKills /\ MaxKills \in Nat
      /\ p \in [Editions -> [kind : {"absent", "torn", "saved"}, results : Results]]
      /\ <<>> \in Results /\ Len(Variants) \in Nat
  BY <1>1, SuiteAssumption, VariantsListed DEF SuiteTypes, Results
<1>3. /\ UNCHANGED <<edition, published, cacheDir, stagingDir, modules, experiments>>
      /\ kills' \in 0..MaxKills
      /\ \/ progressFile' = p
         \/ progressFile' = [p EXCEPT ![edition] = NoProgress]
         \/ progressFile' = [p EXCEPT ![edition] = TornProgress]
      /\ \/ suite' = NoSuite
         \/ /\ suite.step = "variant" /\ suite.at > Len(Variants)
            /\ suite' = [suite EXCEPT !.step = "reported"]
            /\ progressFile' = [p EXCEPT ![edition] = NoProgress]
  <2>1. CASE Finish
    BY <1>2, <2>1 DEF Finish
  <2>2. CASE KillSuite
    BY <1>2, <2>2 DEF KillSuite
  <2> QED
    BY <2>1, <2>2
<1>4. /\ NoProgress \in [kind : {"absent", "torn", "saved"}, results : Results]
      /\ TornProgress \in [kind : {"absent", "torn", "saved"}, results : Results]
      /\ NoProgress.results = <<>> /\ NoProgress.kind = "absent"
      /\ TornProgress.results = <<>> /\ TornProgress.kind = "torn"
  BY <1>2 DEF NoProgress, TornProgress
<1>5. /\ progressFile'[edition] \in {p[edition], NoProgress, TornProgress}
      /\ \A e \in Editions : e # edition => progressFile'[e] = p[e]
      /\ progressFile' \in [Editions -> [kind : {"absent", "torn", "saved"}, results : Results]]
  BY <1>2, <1>3, <1>4
<1>6. Progress'
  <2>1. \A e \in Editions : Credible(<<>>, e)
    BY DEF Credible
  <2> QED
    BY <1>1, <1>3, <1>4, <1>5, <2>1 DEF Progress
<1>7. /\ suite' \in [step : AtVariant \cup {"idle", "variant", "reported"}, at : Nat,
                     noCache : BOOLEAN, results : Results]
      /\ suite'.step \in {"idle", "reported"}
  <2>1. CASE suite' = NoSuite
    BY <1>2, <2>1 DEF NoSuite
  <2>2. CASE suite' = [suite EXCEPT !.step = "reported"]
    BY <1>2, <2>2
  <2> QED
    BY <1>3, <2>1, <2>2
<1>8. SuiteTypes'
  BY <1>1, <1>3, <1>5, <1>7 DEF SuiteTypes, Results
<1>9. Underway'
  <2>1. CASE suite' = NoSuite
    <3>1. suite'.step = "idle" /\ suite'.at = 0
      BY <2>1 DEF NoSuite
    <3> QED
      BY <1>2, <3>1 DEF Underway, AtVariant
  <2>2. CASE /\ suite.step = "variant" /\ suite.at > Len(Variants)
             /\ suite' = [suite EXCEPT !.step = "reported"]
             /\ progressFile' = [p EXCEPT ![edition] = NoProgress]
    <3>1. /\ suite'.step = "reported" /\ suite'.at = suite.at /\ suite'.noCache = suite.noCache
          /\ suite'.results = suite.results
      BY <1>2, <2>2
    <3>2. ResultNames' = ResultNames
      BY <3>1 DEF ResultNames
    <3>3. suite.at = Len(Variants) + 1
      BY <1>1, <1>2, <2>2 DEF Underway
    <3>4. StartOf(progressFile'[edition].results, suite.results)
      <4>1. progressFile'[edition].results = <<>>
        BY <1>2, <1>4, <2>2
      <4>2. Len(suite.results) \in Nat
        BY <1>2 DEF Results
      <4> QED
        BY <4>1, <4>2 DEF StartOf
    <3> QED
      BY <1>1, <1>2, <1>3, <2>2, <3>1, <3>2, <3>3, <3>4 DEF Underway, AtVariant
  <2> QED
    BY <1>3, <2>1, <2>2
<1>10. Archives'
  BY <1>1, <1>3, <1>7 DEF Archives
<1> QED
  BY <1>6, <1>8, <1>9, <1>10 DEF SuiteInv

\* An edit comes between two commands; the results saved for the other editions stay.
LEMMA EditSuiteKeeps ==
  ASSUME SuiteInv, EditSuite
  PROVE  SuiteInv'
<1>1. /\ suite.step = "idle" /\ edition < MaxEdits /\ edition' = edition + 1
      /\ UNCHANGED <<published, cacheDir, stagingDir, modules, progressFile, experiments,
                     suite, kills>>
  BY DEF EditSuite
<1>2. edition' \in Editions
  BY <1>1, SuiteAssumption DEF SuiteInv, SuiteTypes, Editions
<1>3. SuiteTypes'
  BY <1>1, <1>2 DEF SuiteInv, SuiteTypes, Results
<1>4. Progress' /\ Underway'
  BY <1>1 DEF SuiteInv, Progress, Underway, AtVariant
<1>5. Archives'
  BY <1>1 DEF SuiteInv, Archives
<1> QED
  BY <1>3, <1>4, <1>5 DEF SuiteInv

\* Another archive behind a URL changes no directory.
LEMMA PublishKeeps ==
  ASSUME SuiteInv, NEW d \in Databases, Publish(d)
  PROVE  SuiteInv'
<1>1. /\ published' = [published EXCEPT ![d] = @ + 1]
      /\ UNCHANGED <<edition, cacheDir, stagingDir, modules, progressFile, experiments,
                     suite, kills>>
  BY DEF Publish
<1>2. published \in [Databases -> Nat \ {0}]
  BY DEF SuiteInv, SuiteTypes
<1>3. /\ published' \in [Databases -> Nat \ {0}]
      /\ \A b \in Databases : published'[b] >= published[b]
  BY <1>1, <1>2
<1>4. \A b \in Databases : 1..published[b] \subseteq 1..published'[b]
  BY <1>2, <1>3
<1>5. SuiteTypes'
  BY <1>1, <1>3, <1>4 DEF SuiteInv, SuiteTypes, Results
<1>6. Progress' /\ Underway'
  BY <1>1 DEF SuiteInv, Progress, Underway, ResultNames
<1>7. Archives'
  BY <1>1 DEF SuiteInv, Archives, Database
<1> QED
  BY <1>5, <1>6, <1>7 DEF SuiteInv

\* Every step of the suite keeps the invariant.
LEMMA SuiteStepInv == SuiteInv /\ [SuiteNext]_suiteVars => SuiteInv'
<1> SUFFICES ASSUME SuiteInv, [SuiteNext]_suiteVars PROVE SuiteInv'
  OBVIOUS
<1>1. ASSUME NEW noCache \in BOOLEAN, BeginSuite(noCache)
      PROVE  SuiteInv'
  BY <1>1, BeginSuiteKeeps
<1>2. CASE NextVariant
  BY <1>2, NextVariantKeeps
<1>3. CASE DownloadAndExtractTo \/ EnsurePluginsInstalled \/ Installed \/ Evaluate
  BY <1>3, VariantStepsKeep
<1>4. CASE ExtractSome \/ ExtractAll \/ ExtractFails
  BY <1>4, ExtractionKeeps
<1>5. CASE RemoveOld \/ RenameStaging
  BY <1>5, ReplaceKeeps
<1>6. CASE Throw \/ Leave
  BY <1>6, CommandEnds DEF Throw, Leave
<1>7. CASE SaveRun
  BY <1>7, SaveRunKeeps
<1>8. CASE WriteProgress
  BY <1>8, WriteProgressKeeps
<1>9. CASE Finish \/ KillSuite
  BY <1>9, FileGoesKeeps
<1>10. CASE EditSuite
  BY <1>10, EditSuiteKeeps
<1>11. ASSUME NEW d \in Databases, Publish(d)
       PROVE  SuiteInv'
  BY <1>11, PublishKeeps
<1>12. CASE UNCHANGED suiteVars
  <2>1. UNCHANGED <<edition, published, cacheDir, stagingDir, modules, progressFile,
                    experiments, suite, kills>>
    BY <1>12 DEF suiteVars
  <2>2. SuiteTypes'
    BY <2>1 DEF SuiteInv, SuiteTypes, Results
  <2>3. Progress' /\ Underway' /\ Archives'
    BY <2>1 DEF SuiteInv, Progress, Underway, Archives, ResultNames, Database
  <2> QED
    BY <2>2, <2>3 DEF SuiteInv
<1> QED
  BY <1>1, <1>2, <1>3, <1>4, <1>5, <1>6, <1>7, <1>8, <1>9, <1>10, <1>11, <1>12 DEF SuiteNext

-----------------------------------------------------------------------------
(* The theorems about the suite.                                           *)

\* The invariant is what a reader of a report relies on.
LEMMA SuiteInvSound == SuiteInv => ReportSound
<1> SUFFICES ASSUME SuiteInv PROVE ReportSound
  OBVIOUS
<1> USE DEF SuiteInv
<1>1. SuiteTypeOK
  <2>1. suite.at \in 0..(Len(Variants) + 1)
    BY VariantsListed DEF SuiteTypes, Underway
  <2> QED
    BY <2>1 DEF SuiteTypeOK, SuiteTypes, Progress
<1>2. WholeArchives
  BY DEF WholeArchives, Archives
<1>3. ReportComplete
  <2> SUFFICES ASSUME suite.step = "reported"
               PROVE  /\ ResultNames = {Variants[i].name : i \in {j \in DOMAIN Variants : ~Variants[j].skip}}
                      /\ \A i, j \in DOMAIN suite.results :
                           suite.results[i].name = suite.results[j].name => i = j
    BY DEF ReportComplete
  <2>1. /\ Credible(suite.results, edition) /\ suite.at - 1 = Len(Variants)
        /\ \A j \in 1..suite.at - 1 : ~Variants[j].skip => Variants[j].name \in ResultNames
    BY VariantsListed DEF Underway
  <2>2. \A n \in ResultNames : \E j \in DOMAIN Variants : ~Variants[j].skip /\ n = Variants[j].name
    BY <2>1 DEF Credible, ResultNames
  <2>3. \A j \in DOMAIN Variants : ~Variants[j].skip => Variants[j].name \in ResultNames
    BY <2>1, VariantsListed
  <2>4. ResultNames = {Variants[i].name : i \in {j \in DOMAIN Variants : ~Variants[j].skip}}
    BY <2>2, <2>3
  <2> QED
    BY <2>1, <2>4 DEF Credible
<1>4. ResultsOfThisSuite
  BY DEF ResultsOfThisSuite, Underway, Credible
<1>5. DoneWasSaved
  <2> SUFFICES ASSUME NEW e \in Editions
               PROVE  ToSet(progressFile[e].results) \subseteq experiments
    BY DEF DoneWasSaved
  <2>1. progressFile[e].results \in Seq(experiments)
    BY DEF SuiteTypes, Results
  <2> QED
    BY <2>1 DEF ToSet
<1> QED
  BY <1>1, <1>2, <1>3, <1>4, <1>5 DEF ReportSound

\* For any list of variants, sharing run directories or names or not, and any number
\* of edits, kills, publications and failed extractions (runSuite, downloadAndExtractTo,
\* saveRun and writeProgress): a report has every variant once, measured on a whole
\* archive, of the present edition, and saved.
THEOREM ReportsAreSound == SuiteSpec => []ReportSound
<1>1. SuiteInit => SuiteInv
  BY SuiteInitInv
<1>2. SuiteInv /\ [SuiteNext]_suiteVars => SuiteInv'
  BY SuiteStepInv
<1>3. SuiteInv => ReportSound
  BY SuiteInvSound
<1> QED
  BY <1>1, <1>2, <1>3, PTL DEF SuiteSpec

\* A start of a sequence is a prefix of it.
LEMMA StartIsPrefix ==
  ASSUME NEW S, NEW s \in Seq(S), NEW t \in Seq(S), StartOf(s, t)
  PROVE  IsPrefix(s, t)
<1>1. Len(s) \in Nat /\ Len(t) \in Nat /\ Len(s) <= Len(t) /\ \A i \in 1..Len(s) : s[i] = t[i]
  BY DEF StartOf
<1>2. SubSeq(s, 1, Len(s)) = [i \in 1..Len(s) |-> s[i]]
  BY <1>1
<1>3. SubSeq(t, 1, Len(s)) = [i \in 1..Len(s) |-> t[i]]
  BY <1>1
<1>4. [i \in 1..Len(s) |-> s[i]] = [i \in 1..Len(s) |-> t[i]]
  BY <1>1
<1> QED
  BY <1>1, <1>2, <1>3, <1>4 DEF IsPrefix

\* A step that changes a progress file adds to it, tears it, or ends what it was for.
LEMMA ProgressGrows ==
  ASSUME SuiteInv, SuiteNext, NEW e \in Editions, progressFile'[e] # progressFile[e]
  PROVE  \/ progressFile'[e] = TornProgress
         \/ suite'.step = "reported"
         \/ suite.noCache
         \/ IsPrefix(progressFile[e].results, progressFile'[e].results)
<1>1. /\ progressFile \in [Editions -> [kind : {"absent", "torn", "saved"}, results : Results]]
      /\ suite \in [step : AtVariant \cup {"idle", "variant", "reported"}, at : Nat,
                    noCache : BOOLEAN, results : Results]
      /\ edition \in Editions
  BY DEF SuiteInv, SuiteTypes
<1>2. WriteProgress \/ Finish \/ KillSuite
  BY DEF SuiteNext, BeginSuite, NextVariant, DownloadAndExtractTo, ExtractSome, ExtractAll,
         ExtractFails, RemoveOld, RenameStaging, EnsurePluginsInstalled, Installed, Evaluate,
         Throw, SaveRun, Leave, EditSuite, Publish
<1>3. CASE WriteProgress
  <2>1. suite.step = "progress" /\ progressFile' = [progressFile EXCEPT ![edition] = Saved(suite.results)]
    BY <1>3 DEF WriteProgress
  <2>2. e = edition /\ progressFile'[e] = Saved(suite.results)
    BY <1>1, <2>1
  <2>3. progressFile'[e].results = suite.results
    BY <2>2 DEF Saved
  <2>4. ~suite.noCache => StartOf(progressFile[e].results, suite.results)
    BY <2>1, <2>2 DEF SuiteInv, Underway
  <2>5. progressFile[e].results \in Seq(experiments) /\ suite.results \in Seq(experiments)
    BY <1>1 DEF Results
  <2> QED
    BY <2>3, <2>4, <2>5, StartIsPrefix
<1>4. CASE Finish
  <2>1. suite' = [suite EXCEPT !.step = "reported"]
    BY <1>4 DEF Finish
  <2> QED
    BY <1>1, <2>1
<1>5. CASE KillSuite
  <2>1. progressFile' = [progressFile EXCEPT ![edition] = TornProgress]
    BY <1>5 DEF KillSuite
  <2> QED
    BY <1>1, <2>1
<1> QED
  BY <1>2, <1>3, <1>4, <1>5

\* What runSuite saved of its progress is lost to a torn write, to a run that was told
\* not to use the cache, and to nothing else before the suite is reported.
THEOREM ProgressIsKept == SuiteSpec => NoWorkLost
<1> DEFINE Grows == \A e \in Editions :
                      progressFile'[e] # progressFile[e] =>
                        \/ progressFile'[e] = TornProgress
                        \/ suite'.step = "reported"
                        \/ suite.noCache
                        \/ IsPrefix(progressFile[e].results, progressFile'[e].results)
<1>1. SuiteInit => SuiteInv
  BY SuiteInitInv
<1>2. SuiteInv /\ [SuiteNext]_suiteVars => SuiteInv'
  BY SuiteStepInv
<1>3. SuiteInv /\ [SuiteNext]_suiteVars => [Grows]_suiteVars
  BY ProgressGrows
<1> QED
  BY <1>1, <1>2, <1>3, PTL DEF SuiteSpec, NoWorkLost

-----------------------------------------------------------------------------
(* The throttle.                                                           *)

ThrottleInv ==
  strategy \in Strategies /\ spawned = strategy.max /\ available \in Nat

\* Division rounds down.
LEMMA Division ==
  ASSUME NEW n \in Int, NEW d \in Nat \ {0}
  PROVE  n \div d \in Int /\ d * (n \div d) <= n /\ n < d * (n \div d) + d
OBVIOUS

\* What rounding means without a division.
LEMMA RoundedBetween ==
  ASSUME NEW n \in Int, NEW d \in Nat \ {0}
  PROVE  /\ Rounded(n, d) \in Int
         /\ 2 * d * Rounded(n, d) <= 2 * n + d
         /\ 2 * n + d < 2 * d * Rounded(n, d) + 2 * d
<1> DEFINE m == 2 * n + d
           e == 2 * d
<1>1. m \in Int /\ e \in Nat \ {0}
  OBVIOUS
<1>2. Rounded(n, d) = m \div e
  BY DEF Rounded
<1> HIDE DEF m, e
<1>3. m \div e \in Int /\ e * (m \div e) <= m /\ m < e * (m \div e) + e
  BY <1>1, Division
<1>4. Rounded(n, d) \in Int /\ e * Rounded(n, d) <= m /\ m < e * Rounded(n, d) + e
  BY <1>2, <1>3
<1> QED
  BY <1>4 DEF m, e

\* Quotients of numbers that are close are close.
LEMMA Quotients ==
  ASSUME NEW e \in Nat \ {0}, NEW p \in Int, NEW q \in Int, NEW k \in Nat,
         e * p < e * q + k * e
  PROVE  p < q + k
<1>1. SUFFICES ASSUME p >= q + k PROVE FALSE
  OBVIOUS
<1>2. e * (p - q - k) >= 0
  <2>1. p - q - k \in Nat
    BY <1>1
  <2>2. \A j \in Nat : e * j >= 0
    OBVIOUS
  <2> QED
    BY <2>1, <2>2
<1>3. e * (p - q - k) = e * p - e * q - k * e
  OBVIOUS
<1> QED
  BY <1>2, <1>3

\* Rounding is monotone, and adding at most one divisor adds at most one.
LEMMA RoundedFollows ==
  ASSUME NEW m \in Int, NEW n \in Int, NEW d \in Nat \ {0}, m <= n
  PROVE  /\ Rounded(m, d) <= Rounded(n, d)
         /\ n - m <= d => Rounded(n, d) <= Rounded(m, d) + 1
<1> DEFINE p == Rounded(m, d)
           q == Rounded(n, d)
           e == 2 * d
<1>1. /\ p \in Int /\ e * p <= 2 * m + d /\ 2 * m + d < e * p + e
      /\ q \in Int /\ e * q <= 2 * n + d /\ 2 * n + d < e * q + e
  BY RoundedBetween
<1>2. e \in Nat \ {0} /\ e = d + d
  OBVIOUS
<1> HIDE DEF p, q, e
<1>3. p <= q
  <2>1. e * p < e * q + 1 * e
    <3>1. e * p \in Int /\ e * q \in Int
      BY <1>1, <1>2
    <3> QED
      BY <1>1, <1>2, <3>1
  <2>2. p < q + 1
    BY <1>1, <1>2, <2>1, Quotients
  <2> QED
    BY <1>1, <2>2
<1>4. ASSUME n - m <= d PROVE q <= p + 1
  <2>1. e * q < e * p + 2 * e
    <3>1. e * p \in Int /\ e * q \in Int
      BY <1>1, <1>2
    <3> QED
      BY <1>1, <1>2, <1>4, <3>1
  <2>2. q < p + 2
    BY <1>1, <1>2, <2>1, Quotients
  <2> QED
    BY <1>1, <2>2
<1> QED
  BY <1>3, <1>4 DEF p, q

\* At the watermarks the line is at its bounds.
LEMMA RoundedAtEnds ==
  ASSUME NEW k \in Nat, NEW d \in Nat \ {0}
  PROVE  Rounded(0, d) = 0 /\ Rounded(d * k, d) = k
<1> DEFINE z == Rounded(0, d)
           q == Rounded(d * k, d)
           e == 2 * d
<1>1. d * k \in Int /\ 0 \in Int
  OBVIOUS
<1>2. /\ z \in Int /\ e * z <= 2 * 0 + d /\ 2 * 0 + d < e * z + e
      /\ q \in Int /\ e * q <= 2 * (d * k) + d /\ 2 * (d * k) + d < e * q + e
  BY <1>1, RoundedBetween
<1>3. e \in Nat \ {0} /\ e = d + d /\ 2 * (d * k) = e * k /\ e * 0 = 0
  OBVIOUS
<1> HIDE DEF z, q, e
<1>4. e * z \in Int /\ e * q \in Int /\ e * k \in Int
  BY <1>2, <1>3
<1>5. z < 0 + 1 /\ 0 < z + 1
  <2>1. e * z < e * 0 + 1 * e /\ e * 0 < e * z + 1 * e
    BY <1>2, <1>3, <1>4
  <2> QED
    BY <1>2, <1>3, <2>1, Quotients
<1>6. q < k + 1 /\ k < q + 1
  <2>1. e * q < e * k + 1 * e /\ e * k < e * q + 1 * e
    BY <1>2, <1>3, <1>4
  <2> QED
    BY <1>2, <1>3, <2>1, Quotients
<1>7. z = 0 /\ q = k
  BY <1>2, <1>5, <1>6
<1> QED
  BY <1>7 DEF z, q

\* The bounds keep the order and widen no distance.
LEMMA ClampedFollows ==
  ASSUME NEW x \in Int, NEW y \in Int, NEW hi \in Nat \ {0}, x <= y
  PROVE  /\ Clamped(x, 1, hi) \in 1..hi
         /\ Clamped(x, 1, hi) <= Clamped(y, 1, hi)
         /\ y <= x + 1 => Clamped(y, 1, hi) <= Clamped(x, 1, hi) + 1
BY DEF Clamped, Larger, Smaller

\* Beyond its ends a range gives the end.
LEMMA ClampedAtEnds ==
  ASSUME NEW x \in Int, NEW hi \in Nat \ {0}
  PROVE  /\ x <= 1 => Clamped(x, 1, hi) = 1
         /\ x >= hi => Clamped(x, 1, hi) = hi
BY DEF Clamped, Larger, Smaller

\* The line through the two watermarks, as a function of the memory.
LEMMA ScaledFollows ==
  ASSUME NEW s \in Strategies, NEW a \in Nat, NEW b \in Nat, a <= b
  PROVE  /\ Scaled(s, a) \in Int /\ Scaled(s, b) \in Int
         /\ Scaled(s, a) <= Scaled(s, b)
         /\ b = a + 1 /\ s.high - s.low >= s.max => Scaled(s, b) <= Scaled(s, a) + 1
         /\ b <= s.low => Scaled(s, b) <= 1
         /\ a >= s.high => Scaled(s, a) >= s.max
<1> DEFINE k == s.max - 1
           d == s.high - s.low
           u == a - s.low
           v == b - s.low
<1>1. /\ k \in Nat /\ d \in Nat \ {0} /\ u \in Int /\ v \in Int /\ u <= v
      /\ s.max = k + 1 /\ s.low \in Int /\ s.high \in Int
  BY DEF Strategies
<1>2. Scaled(s, a) = 1 + Rounded(u * k, d) /\ Scaled(s, b) = 1 + Rounded(v * k, d)
  BY DEF Scaled
<1>3. /\ b = a + 1 => v = u + 1
      /\ b <= s.low => v <= 0
      /\ a >= s.high => u >= d
  BY <1>1
<1> HIDE DEF k, d, u, v
<1>4. u * k \in Int /\ v * k \in Int /\ d * k \in Int /\ 0 \in Int
  BY <1>1
<1>5. u * k <= v * k
  <2>1. v - u \in Nat
    BY <1>1
  <2>2. (v - u) * k >= 0 /\ (v - u) * k = v * k - u * k
    <3>1. \A i, j \in Nat : i * j >= 0
      OBVIOUS
    <3>2. (v - u) * k = v * k - u * k
      BY <1>1
    <3> QED
      BY <1>1, <2>1, <3>1, <3>2
  <2> QED
    BY <1>4, <2>2
<1>6. /\ Rounded(u * k, d) \in Int /\ Rounded(v * k, d) \in Int
      /\ Rounded(u * k, d) <= Rounded(v * k, d)
      /\ v * k - u * k <= d => Rounded(v * k, d) <= Rounded(u * k, d) + 1
  BY <1>1, <1>4, <1>5, RoundedBetween, RoundedFollows
<1>7. ASSUME b = a + 1, d >= s.max PROVE v * k - u * k <= d
  <2>1. v * k = u * k + k
    BY <1>1, <1>3, <1>7
  <2> QED
    BY <1>1, <1>4, <1>7, <2>1
<1>8. ASSUME b <= s.low PROVE Rounded(v * k, d) <= 0
  <2>1. v * k <= 0
    <3>1. -v \in Nat /\ (-v) * k = -(v * k)
      BY <1>1, <1>3, <1>8
    <3>2. \A i, j \in Nat : i * j >= 0
      OBVIOUS
    <3>3. (-v) * k >= 0
      BY <1>1, <3>1, <3>2
    <3> QED
      BY <1>4, <3>1, <3>3
  <2>2. Rounded(v * k, d) <= Rounded(0, d)
    BY <1>1, <1>4, <2>1, RoundedFollows
  <2>3. Rounded(0, d) = 0
    BY <1>1, RoundedAtEnds
  <2> QED
    BY <2>2, <2>3
<1>9. ASSUME a >= s.high PROVE Rounded(u * k, d) >= k
  <2>1. d * k <= u * k
    <3>1. u - d \in Nat /\ (u - d) * k = u * k - d * k
      BY <1>1, <1>3, <1>9
    <3>2. \A i, j \in Nat : i * j >= 0
      OBVIOUS
    <3>3. (u - d) * k >= 0
      BY <1>1, <3>1, <3>2
    <3> QED
      BY <1>4, <3>1, <3>3
  <2>2. Rounded(d * k, d) <= Rounded(u * k, d)
    BY <1>1, <1>4, <2>1, RoundedFollows
  <2>3. Rounded(d * k, d) = k
    BY <1>1, RoundedAtEnds
  <2> QED
    BY <2>2, <2>3
<1> QED
  BY <1>1, <1>2, <1>6, <1>7, <1>8, <1>9 DEF d

\* A strategy answers with the line, kept between one worker and all: more memory
\* never means fewer workers, and a MB more at most one more where there is a MB for
\* each.
LEMMA WorkersFollow ==
  ASSUME NEW s \in Strategies, NEW a \in Nat, NEW b \in Nat, a <= b
  PROVE  /\ CurrentWorkers(s, a) \in 1..s.max
         /\ CurrentWorkers(s, a) <= CurrentWorkers(s, b)
         /\ b = a + 1 /\ s.high - s.low >= s.max =>
              CurrentWorkers(s, b) <= CurrentWorkers(s, a) + 1
<1>1. s.max \in Nat \ {0} /\ s.kind \in {"fixed", "ram"} /\ s.low \in Nat /\ s.high \in Nat
  BY DEF Strategies
<1>2. ASSUME NEW mb \in Nat PROVE WorkersFor(s, mb) = Clamped(Scaled(s, mb), 1, s.max)
  <2>1. /\ Scaled(s, mb) \in Int
        /\ mb <= s.low => Scaled(s, mb) <= 1
        /\ mb >= s.high => Scaled(s, mb) >= s.max
    BY ScaledFollows
  <2>2. /\ mb <= s.low => Clamped(Scaled(s, mb), 1, s.max) = 1
        /\ mb >= s.high => Clamped(Scaled(s, mb), 1, s.max) = s.max
    BY <1>1, <2>1, ClampedAtEnds
  <2> QED
    BY <1>1, <2>2 DEF WorkersFor
<1>3. CASE s.kind = "fixed"
  BY <1>1, <1>3 DEF CurrentWorkers
<1>4. CASE s.kind = "ram"
  <2>1. /\ CurrentWorkers(s, a) = Clamped(Scaled(s, a), 1, s.max)
        /\ CurrentWorkers(s, b) = Clamped(Scaled(s, b), 1, s.max)
    BY <1>2, <1>4 DEF CurrentWorkers
  <2>2. /\ Scaled(s, a) \in Int /\ Scaled(s, b) \in Int
        /\ Scaled(s, a) <= Scaled(s, b)
        /\ b = a + 1 /\ s.high - s.low >= s.max => Scaled(s, b) <= Scaled(s, a) + 1
    BY ScaledFollows
  <2> DEFINE x == Scaled(s, a)
             y == Scaled(s, b)
             hi == s.max
  <2>3. x \in Int /\ y \in Int /\ hi \in Nat \ {0} /\ x <= y
    BY <1>1, <2>2
  <2> HIDE DEF x, y, hi
  <2>4. /\ Clamped(x, 1, hi) \in 1..hi
        /\ Clamped(x, 1, hi) <= Clamped(y, 1, hi)
        /\ y <= x + 1 => Clamped(y, 1, hi) <= Clamped(x, 1, hi) + 1
    BY <2>3, ClampedFollows
  <2> QED
    BY <2>1, <2>2, <2>4 DEF x, y, hi
<1> QED
  BY <1>1, <1>3, <1>4

\* Whatever is configured and however small the host, the watermarks stay apart and
\* as many workers are spawned as the strategy may ask for.
LEMMA ThrottleInitInv == ThrottleInit => ThrottleInv
<1> SUFFICES ASSUME ThrottleInit PROVE ThrottleInv
  OBVIOUS
<1> USE ThrottleAssumption
<1> DEFINE Sound(r) == r.strategy \in Strategies /\ Larger(r.workers, 1) = r.strategy.max
                       /\ r = [workers |-> r.workers, strategy |-> r.strategy]
<1>1. ASSUME NEW n \in Nat PROVE FixedWorkers(Larger(n, 1)) \in Strategies
                                 /\ FixedWorkers(Larger(n, 1)).max = Larger(n, 1)
  BY DEF FixedWorkers, Strategies, Larger
<1>2. ASSUME NEW s \in [kind : {"fixed", "ram"}, max : Nat \ {0}, low : Nat, high : Nat],
             NEW low \in Nat, NEW high \in Nat
      PROVE  /\ WithWatermarks(s, low, high) \in Strategies
             /\ WithWatermarks(s, low, high).max = s.max
  <2> DEFINE top == Larger(high, low + 1)
             w == WithWatermarks(s, low, high)
  <2>1. top \in Nat /\ low < top
    BY DEF Larger
  <2> HIDE DEF top
  <2>2. w = [s EXCEPT !.low = low, !.high = top]
    BY DEF WithWatermarks, top
  <2>3. /\ w \in [kind : {"fixed", "ram"}, max : Nat \ {0}, low : Nat, high : Nat]
        /\ w.low = low /\ w.high = top /\ w.max = s.max
    BY <2>1, <2>2
  <2> QED
    BY <2>1, <2>3 DEF Strategies
<1>3. ASSUME NEW t \in Nat PROVE DefaultLow(t) \in Nat /\ DefaultHigh(t) \in Nat
  <2>1. Rounded(15 * t, 100) \in Int /\ Rounded(t, 2) \in Int
    BY RoundedBetween
  <2>2. \A x \in Int : \A y \in Nat : Larger(x, y) \in Nat
    BY DEF Larger
  <2>3. DefaultLow(t) \in Nat
    BY <2>1, <2>2 DEF DefaultLow
  <2>4. DefaultLow(t) + 128 \in Nat
    BY <2>3
  <2>5. Larger(Rounded(t, 2), DefaultLow(t) + 128) \in Nat
    BY <2>1, <2>2, <2>4
  <2> QED
    BY <2>3, <2>5 DEF DefaultHigh
<1>4. ASSUME NEW n \in Nat, NEW t \in Nat
      PROVE  /\ NewRamSampling(n, t) \in Strategies
             /\ NewRamSampling(n, t).max = Larger(n, 1)
  <2>1. Larger(t, 1) \in Nat
    BY DEF Larger
  <2>2. /\ WithSource(n) \in [kind : {"fixed", "ram"}, max : Nat \ {0}, low : Nat, high : Nat]
        /\ WithSource(n).max = Larger(n, 1)
    BY DEF WithSource, Larger
  <2>3. DefaultLow(Larger(t, 1)) \in Nat /\ DefaultHigh(Larger(t, 1)) \in Nat
    BY <1>3, <2>1
  <2> QED
    BY <1>2, <2>2, <2>3 DEF NewRamSampling
<1>5. ASSUME NEW r \in Resolved PROVE Sound(r)
  <2>1. PICK a \in Counts, c \in Counts, s \in {"fixed", "ramSampling", "none"},
             t \in TotalSet : r = ResolveConcurrency(a, c, s, 4, TRUE, t)
    <3>1. \E a \in Counts, c \in Counts, s \in {"fixed", "ramSampling", "none"},
             t \in TotalSet : r = ResolveConcurrency(a, c, s, 4, TRUE, t)
      BY SMTT(30) DEF Resolved, ResolveConcurrency
    <3> QED
      BY <3>1, Zenon
  <2> DEFINE explicit == IF a # Unset THEN a ELSE c
             ceiling  == IF explicit # Unset THEN explicit ELSE 4
  <2>2. ceiling \in Nat /\ t \in Nat
    OBVIOUS
  <2>3. /\ r = [workers |-> r.workers, strategy |-> r.strategy]
        /\ r.workers = ceiling
        /\ \/ r.strategy = NewRamSampling(ceiling, t)
           \/ r.strategy = FixedWorkers(Larger(ceiling, 1))
    BY <2>1 DEF ResolveConcurrency
  <2> HIDE DEF explicit, ceiling
  <2> QED
    BY <1>1, <1>4, <2>2, <2>3
<1>6. ASSUME NEW r \in Tuned PROVE Sound(r)
  <2>1. PICK q \in Resolved, w \in Watermarks :
             r = [q EXCEPT !.strategy = WithWatermarks(q.strategy, w[1], w[2])]
    BY DEF Tuned
  <2>2. Sound(q) /\ w[1] \in Nat /\ w[2] \in Nat
    BY <1>5
  <2>3. q.strategy \in [kind : {"fixed", "ram"}, max : Nat \ {0}, low : Nat, high : Nat]
    BY <2>2 DEF Strategies
  <2>4. /\ WithWatermarks(q.strategy, w[1], w[2]) \in Strategies
        /\ WithWatermarks(q.strategy, w[1], w[2]).max = q.strategy.max
    BY <1>2, <2>2, <2>3
  <2>5. /\ r.strategy = WithWatermarks(q.strategy, w[1], w[2])
        /\ r.workers = q.workers
        /\ r = [workers |-> r.workers, strategy |-> r.strategy]
    BY <2>1, <2>2
  <2> QED
    BY <2>2, <2>4, <2>5
<1>7. PICK r \in Resolved \cup Tuned :
           strategy = r.strategy /\ spawned = Larger(r.workers, 1)
  BY DEF ThrottleInit
<1>8. Sound(r)
  BY <1>5, <1>6
<1> QED
  BY <1>7, <1>8 DEF ThrottleInit, ThrottleInv

\* Counts that differ by one at most.
LEMMA OneApart ==
  ASSUME NEW m \in Nat, NEW p \in 1..m, NEW q \in 1..m, p <= q, q <= p + 1
  PROVE  q - p \in -1..1 /\ p - q \in -1..1
OBVIOUS

\* For any counts, hosts and watermarks (RamSampling::workers_for and
\* resolve_concurrency): never fewer than one worker nor more than were spawned, in step
\* with the memory, without cliffs.
THEOREM ThrottleFollowsMemory == ThrottleSpec => FollowsMemory
<1> DEFINE InStep ==
      /\ Active' \in 1..spawned
      /\ available' > available => Active' >= Active
      /\ available' < available => Active' <= Active
      /\ strategy.high - strategy.low >= strategy.max => Active' - Active \in -1..1
<1>1. ThrottleInit => ThrottleInv /\ Active \in 1..spawned
  BY ThrottleInitInv, WorkersFollow DEF ThrottleInv, Active
<1>2. ThrottleInv /\ [Drift]_throttleVars => ThrottleInv' /\ [InStep]_throttleVars
  <2> SUFFICES ASSUME ThrottleInv, [Drift]_throttleVars
               PROVE  ThrottleInv' /\ [InStep]_throttleVars
    OBVIOUS
  <2>1. CASE UNCHANGED throttleVars
    BY <2>1 DEF ThrottleInv, throttleVars
  <2>2. CASE Drift
    <3> DEFINE b == available'
    <3>1. /\ strategy \in Strategies /\ spawned = strategy.max /\ available \in Nat
          /\ strategy' = strategy /\ spawned' = spawned
          /\ b \in Nat /\ (b = available + 1 \/ available = b + 1)
      BY <2>2 DEF Drift, ThrottleInv
    <3>2. Active = CurrentWorkers(strategy, available) /\ Active' = CurrentWorkers(strategy, b)
      BY <3>1 DEF Active
    <3>3. ThrottleInv'
      BY <3>1 DEF ThrottleInv
    <3> HIDE DEF b
    <3>4. strategy.max \in Nat
      BY <3>1 DEF Strategies
    <3>5. CurrentWorkers(strategy, available) \in 1..strategy.max
          /\ CurrentWorkers(strategy, b) \in 1..strategy.max
      BY <3>1, WorkersFollow
    <3>6. CASE b = available + 1
      <4>1. /\ CurrentWorkers(strategy, available) <= CurrentWorkers(strategy, b)
            /\ strategy.high - strategy.low >= strategy.max =>
                 CurrentWorkers(strategy, b) <= CurrentWorkers(strategy, available) + 1
        BY <3>1, <3>6, WorkersFollow
      <4>2. /\ Active \in 1..strategy.max /\ Active' \in 1..strategy.max /\ Active <= Active'
            /\ strategy.high - strategy.low >= strategy.max => Active' <= Active + 1
        BY <3>2, <3>5, <4>1
      <4>3. strategy.high - strategy.low >= strategy.max => Active' - Active \in -1..1
        BY <3>4, <4>2, OneApart
      <4>4. ~(available' < available)
        BY <3>1, <3>6 DEF b
      <4>5. InStep
        BY <3>1, <4>2, <4>3, <4>4
      <4> QED
        BY <3>3, <4>5
    <3>7. CASE available = b + 1
      <4>1. /\ CurrentWorkers(strategy, b) <= CurrentWorkers(strategy, available)
            /\ strategy.high - strategy.low >= strategy.max =>
                 CurrentWorkers(strategy, available) <= CurrentWorkers(strategy, b) + 1
        BY <3>1, <3>7, WorkersFollow
      <4>2. /\ Active \in 1..strategy.max /\ Active' \in 1..strategy.max /\ Active' <= Active
            /\ strategy.high - strategy.low >= strategy.max => Active <= Active' + 1
        BY <3>2, <3>5, <4>1
      <4>3. strategy.high - strategy.low >= strategy.max => Active' - Active \in -1..1
        BY <3>4, <4>2, OneApart
      <4>4. ~(available' > available)
        <5>1. ~(b > available)
          BY <3>1, <3>7
        <5> QED
          BY <5>1 DEF b
      <4>5. InStep
        BY <3>1, <4>2, <4>3, <4>4
      <4> QED
        BY <3>3, <4>5
    <3> QED
      BY <3>1, <3>6, <3>7
  <2> QED
    BY <2>1, <2>2
<1> QED
  BY <1>1, <1>2, PTL DEF ThrottleSpec, FollowsMemory

-----------------------------------------------------------------------------
(* The quality assessment.                                                 *)

QualitySteps == {"assess", "report", "save", "feed", "badge", "prune", "exit"}

\* The reports of a tool are in the order of their runs, and the feed and the badge
\* show none that was not written.
InOrder(reports) ==
  /\ \A r \in reports : r.id \in 0..qclock /\ r.run \in 1..qruns
  /\ \A q, r \in reports : q.id < r.id => q.run < r.run
  /\ \A q, r \in reports : q.id = r.id => q = r

Trail(t) ==
  /\ InOrder(qhistory[t].reports)
  /\ qhistory[t].feed \in 0..qruns /\ qhistory[t].badge \in 0..qhistory[t].feed
  /\ qhistory[t].feed = 0 \/ \E r \in qhistory[t].reports : qhistory[t].feed <= r.run

Trails ==
  /\ qclock \in Nat /\ qruns \in Nat
  /\ DOMAIN qhistory = Tools
  /\ \A t \in Tools : qhistory[t] = [reports |-> qhistory[t].reports, feed |-> qhistory[t].feed,
                                     badge |-> qhistory[t].badge]
  /\ \A t \in Tools : Trail(t)

\* The running command is the latest.  Its report is not in the history before it is
\* saved; afterwards it is.
Reporting ==
  qrun # NoQuality =>
    /\ qrun.step \in QualitySteps /\ qrun.tool \in Tools
    /\ qrun.run = qruns /\ qruns >= 1
    /\ qrun.step \in {"assess", "report", "save"} =>
         \A r \in qhistory[qrun.tool].reports : r.run < qruns
    /\ qrun.step \in {"feed", "badge", "prune"} =>
         \E r \in qhistory[qrun.tool].reports : r.run = qruns
    /\ qrun.step = "badge" => qhistory[qrun.tool].feed = qruns
    /\ qrun.step = "prune" => qrun.tool = "ts"

\* What a command that was cut short has seen is a gate that failed.
CutShort ==
  qrun # NoQuality =>
    /\ qrun.step \in {"assess", "report"} => qrun.status = "none"
    /\ qrun.step = "report" /\ qrun.stopped => GateFailed(qrun.components)
    /\ qrun.step = "assess" => ~qrun.stopped
    /\ qrun.step \notin {"assess", "report"} /\ qrun.stopped => qrun.status = "FAIL"

QualityRecord ==
  qrun # NoQuality =>
    qrun = [step |-> qrun.step, tool |-> qrun.tool, run |-> qrun.run, total |-> qrun.total,
            sample |-> qrun.sample, failFast |-> qrun.failFast, history |-> qrun.history,
            components |-> qrun.components, flaws |-> qrun.flaws, short |-> qrun.short,
            stopped |-> qrun.stopped, score |-> qrun.score, status |-> qrun.status]

QualityInv == Trails /\ Reporting /\ CutShort /\ QualityRecord /\ SampleIsSpread

\* The greatest of a bounded set of numbers.
LEMMA MaxIsGreatest ==
  ASSUME NEW b \in Nat, NEW S, S \subseteq 0..b, S # {}
  PROVE  Max(S) \in S /\ \A y \in S : Max(S) >= y
<1> DEFINE D == {b - x : x \in S}
<1>1. D \subseteq Nat /\ D # {}
  <2>1. \A x \in S : b - x \in Nat
    OBVIOUS
  <2>2. PICK x \in S : TRUE
    OBVIOUS
  <2>3. b - x \in D
    OBVIOUS
  <2> QED
    BY <2>1, <2>3
<1>2. IsWellFoundedOn(OpToRel(<, Nat), Nat)
  BY NatLessThanWellFounded
<1>3. PICK n \in D : \A d \in D : ~(<<d, n>> \in OpToRel(<, Nat))
  BY <1>1, <1>2, WFMin
<1>4. \A d \in D : ~(d < n)
  BY <1>1, <1>3 DEF OpToRel
<1>5. PICK x \in S : n = b - x
  OBVIOUS
<1>6. \A y \in S : x >= y
  <2> TAKE y \in S
  <2>1. b - y \in D /\ x \in Int /\ y \in Int
    OBVIOUS
  <2>2. ~(b - y < n)
    BY <1>4, <2>1
  <2> QED
    BY <1>5, <2>1, <2>2
<1> QED
  BY <1>6 DEF Max

\* The smaller of two numbers.
LEMMA MinOfTwo ==
  ASSUME NEW a \in Int, NEW b \in Int
  PROVE  Min({a, b}) = IF a <= b THEN a ELSE b
BY DEF Min

\* n numbers at even distances below the total are n, and below the total.
LEMMA SampleSpreads ==
  ASSUME NEW total \in Nat, NEW n \in Nat
  PROVE  /\ Cardinality(SampleArray(total, n)) = Min({total, n})
         /\ SampleArray(total, n) \subseteq 0..(total - 1)
<1>1. CASE total <= n
  <2>1. SampleArray(total, n) = 0..(total - 1)
    BY <1>1 DEF SampleArray
  <2>2. Cardinality(0..(total - 1)) = total
    <3>1. 0 \in Int /\ total - 1 \in Int
      OBVIOUS
    <3>2. Cardinality(0..(total - 1)) = IF 0 > total - 1 THEN 0 ELSE total - 1 - 0 + 1
      BY <3>1, FS_Interval
    <3> QED
      BY <3>2
  <2> QED
    BY <1>1, <2>1, <2>2, MinOfTwo
<1>2. CASE n = 0 /\ total > n
  <2>1. SampleArray(total, n) = {}
    BY <1>2 DEF SampleArray
  <2> QED
    BY <1>2, <2>1, MinOfTwo, FS_EmptySet
<1>3. CASE n # 0 /\ total > n
  <2> DEFINE places == 0..(n - 1)
             f == [i \in places |-> (i * total) \div n]
             S == {(i * total) \div n : i \in places}
  <2>1. n \in Nat \ {0} /\ SampleArray(total, n) = S
    BY <1>3 DEF SampleArray
  <2>2. ASSUME NEW i \in places
        PROVE  /\ i * total \in Nat /\ f[i] = (i * total) \div n /\ f[i] \in Int
               /\ n * f[i] <= i * total /\ i * total < n * f[i] + n
    <3>1. i * total \in Nat
      <4>1. i \in Nat /\ \A x, y \in Nat : x * y \in Nat
        OBVIOUS
      <4> QED
        BY <4>1
    <3> QED
      BY <2>1, <3>1, Division
  <2> HIDE DEF f
  <2>3. ASSUME NEW i \in places PROVE f[i] \in 0..(total - 1)
    <3>1. /\ i * total \in Nat /\ f[i] \in Int
          /\ n * f[i] <= i * total /\ i * total < n * f[i] + n
      BY <2>2
    <3>2. i * total + total <= n * total
      <4>1. n - 1 - i \in Nat
        OBVIOUS
      <4>2. (n - 1 - i) * total = n * total - total - i * total
        OBVIOUS
      <4>3. \A x, y \in Nat : x * y >= 0
        OBVIOUS
      <4>4. (n - 1 - i) * total >= 0
        BY <4>1, <4>3
      <4> QED
        BY <3>1, <4>2, <4>4
    <3>3. n * f[i] < n * total + 0 * n
      BY <1>3, <3>1, <3>2
    <3>4. f[i] < total + 0
      BY <2>1, <3>1, <3>3, Quotients
    <3>5. n * 0 < n * f[i] + 1 * n
      BY <3>1
    <3>6. 0 < f[i] + 1
      BY <2>1, <3>1, <3>5, Quotients
    <3> QED
      BY <3>1, <3>4, <3>6
  <2>4. ASSUME NEW i \in places, NEW j \in places, i < j PROVE f[i] < f[j]
    <3>1. /\ i * total \in Nat /\ f[i] \in Int /\ n * f[i] <= i * total
          /\ j * total \in Nat /\ f[j] \in Int /\ j * total < n * f[j] + n
      BY <2>2
    <3>2. i * total + total <= j * total
      <4>1. j - 1 - i \in Nat
        BY <2>4
      <4>2. (j - 1 - i) * total = j * total - total - i * total
        OBVIOUS
      <4>3. \A x, y \in Nat : x * y >= 0
        OBVIOUS
      <4>4. (j - 1 - i) * total >= 0
        BY <4>1, <4>3
      <4> QED
        BY <3>1, <4>2, <4>4
    <3>3. n * f[i] < n * f[j] + 0 * n
      <4>1. n * f[i] \in Int /\ n * f[j] \in Int /\ i * total \in Int /\ j * total \in Int
        <5>1. \A x, y \in Int : x * y \in Int
          OBVIOUS
        <5> QED
          BY <3>1, <5>1
      <4>2. \A a, b, c, d \in Int : a <= c /\ c + total <= d /\ d < b + n => a < b
        BY <1>3
      <4>3. n * f[i] < n * f[j]
        BY <3>1, <3>2, <4>1, <4>2, Zenon
      <4> QED
        BY <4>1, <4>3
    <3>4. f[i] < f[j] + 0
      BY <2>1, <3>1, <3>3, Quotients
    <3> QED
      BY <3>1, <3>4
  <2>5. f \in Bijection(places, S)
    <3>1. f \in [places -> S]
      BY DEF f
    <3>2. \A i, j \in places : f[i] = f[j] => i = j
      <4> TAKE i, j \in places
      <4>1. i \in Int /\ j \in Int /\ f[i] \in Int /\ f[j] \in Int
        BY <2>3
      <4>2. i < j \/ j < i \/ i = j
        BY <4>1
      <4>3. (i < j => f[i] < f[j]) /\ (j < i => f[j] < f[i])
        BY <2>4
      <4> QED
        BY <4>1, <4>2, <4>3
    <3>3. \A s \in S : \E i \in places : f[i] = s
      BY DEF f
    <3>4. f \in Injection(places, S)
      BY <3>1, <3>2 DEF Injection, IsInjective
    <3>5. f \in Surjection(places, S)
      BY <3>1, <3>3 DEF Surjection
    <3> QED
      BY <3>4, <3>5 DEF Bijection
  <2>6. IsFiniteSet(places) /\ Cardinality(places) = n
    <3>1. 0 \in Int /\ n - 1 \in Int
      OBVIOUS
    <3>2. Cardinality(0..(n - 1)) = IF 0 > n - 1 THEN 0 ELSE n - 1 - 0 + 1
      BY <3>1, FS_Interval
    <3> QED
      BY <2>1, <3>1, <3>2, FS_Interval
  <2>7. Cardinality(S) = n
    <3> HIDE DEF S, places
    <3>1. ExistsBijection(places, S)
      BY <2>5 DEF ExistsBijection
    <3> QED
      BY <2>6, <3>1, FS_Bijection
  <2>8. S \subseteq 0..(total - 1)
    <3>1. \A i \in places : (i * total) \div n = f[i]
      BY DEF f
    <3> QED
      BY <2>3, <3>1
  <2> QED
    BY <1>3, <2>1, <2>7, <2>8, MinOfTwo
<1> QED
  BY <1>1, <1>2, <1>3

\* No run yet, and an empty history for each tool.
LEMMA QualityInitInv == QualityInit => QualityInv
<1> SUFFICES ASSUME QualityInit PROVE QualityInv
  OBVIOUS
<1>1. Trails
  BY DEF QualityInit, Trails, Trail, InOrder
<1> QED
  BY <1>1 DEF QualityInit, QualityInv, Reporting, CutShort, QualityRecord, SampleIsSpread

\* What is in the history is looked at by few steps.
LEMMA TrailsKept ==
  ASSUME Trails, UNCHANGED <<qhistory, qclock, qruns>>
  PROVE  Trails'
BY DEF Trails, Trail, InOrder

\* A command begins.
LEMMA BeginKeeps ==
  ASSUME QualityInv, NEW tool \in Tools, NEW total \in Totals, NEW failFast \in BOOLEAN,
         NEW history \in BOOLEAN, BeginQuality(tool, total, failFast, history)
  PROVE  QualityInv'
<1>1. /\ qrun = NoQuality /\ qruns' = qruns + 1 /\ qhistory' = qhistory
      /\ qclock' \in {qclock, qclock + 1}
      /\ qrun' = [step |-> "assess", tool |-> tool, run |-> qruns', total |-> total,
                  sample |-> SampleArray(total, SampleSize), failFast |-> failFast,
                  history |-> history, components |-> <<>>, flaws |-> 0, short |-> {},
                  stopped |-> FALSE, score |-> 0, status |-> "none"]
  <2>1. qclock' \in IF tool = "ts" THEN {qclock + 1} ELSE {qclock, qclock + 1}
    BY DEF BeginQuality
  <2>2. qclock' \in {qclock, qclock + 1}
    BY <2>1
  <2> QED
    BY <2>2 DEF BeginQuality
<1>2. /\ qrun'.step = "assess" /\ qrun'.tool = tool /\ qrun'.run = qruns' /\ qrun'.total = total
      /\ qrun'.sample = SampleArray(total, SampleSize) /\ ~qrun'.stopped /\ qrun'.status = "none"
  BY <1>1
<1>3. /\ qclock \in Nat /\ qruns \in Nat /\ qclock' \in Nat /\ qruns' \in Nat
      /\ qclock <= qclock' /\ qruns < qruns'
  BY <1>1 DEF QualityInv, Trails
<1>4. Trails'
  <2>1. ASSUME NEW t \in Tools PROVE Trail(t)'
    <3>1. Trail(t)
      BY DEF QualityInv, Trails
    <3> QED
      BY <1>1, <1>3, <3>1 DEF Trail, InOrder
  <2> QED
    BY <1>1, <1>3, <2>1 DEF QualityInv, Trails
<1>5. Reporting'
  <2>1. \A r \in qhistory[tool].reports : r.run < qruns'
    <3>1. Trail(tool)
      BY DEF QualityInv, Trails
    <3> QED
      BY <1>3, <3>1 DEF Trail, InOrder
  <2> QED
    BY <1>1, <1>2, <1>3, <2>1 DEF Reporting, QualitySteps
<1>6. CutShort' /\ QualityRecord'
  BY <1>1, <1>2 DEF CutShort, QualityRecord
<1>7. SampleIsSpread'
  <2>1. total \in Nat /\ SampleSize \in Nat
    BY QualityAssumption
  <2>2. /\ Cardinality(SampleArray(total, SampleSize)) = Min({total, SampleSize})
        /\ SampleArray(total, SampleSize) \subseteq 0..(total - 1)
    BY <2>1, SampleSpreads
  <2> QED
    BY <1>2, <2>2 DEF SampleIsSpread
<1> QED
  BY <1>4, <1>5, <1>6, <1>7 DEF QualityInv

\* A component is assessed, the first of those that end the assessment included.
LEMMA AssessMoves ==
  ASSUME QualityInv, NEW cs, NEW stop \in BOOLEAN, NEW flaws, NEW short,
         stop => GateFailed(cs), qrun.step = "assess",
         qrun' = [qrun EXCEPT !.components = cs, !.flaws = flaws, !.short = short,
                              !.stopped = stop,
                              !.step = IF stop \/ Len(cs) = 8 THEN "report" ELSE qrun.step],
         UNCHANGED <<qhistory, qclock, qruns>>
  PROVE  QualityInv'
<1>1. qrun # NoQuality
  BY DEF NoQuality
<1>2. /\ qrun'.components = cs /\ qrun'.stopped = stop /\ qrun'.tool = qrun.tool
      /\ qrun'.run = qrun.run /\ qrun'.total = qrun.total /\ qrun'.sample = qrun.sample
      /\ qrun'.status = qrun.status
      /\ qrun'.step = IF stop \/ Len(cs) = 8 THEN "report" ELSE "assess"
  BY <1>1 DEF QualityInv, QualityRecord
<1>3. QualityRecord'
  BY <1>1 DEF QualityInv, QualityRecord
<1>4. Reporting'
  BY <1>1, <1>2 DEF QualityInv, Reporting, QualitySteps
<1>5. CutShort'
  BY <1>1, <1>2 DEF QualityInv, CutShort, GateFailed
<1>6. SampleIsSpread' /\ Trails'
  BY <1>1, <1>2, TrailsKept DEF QualityInv, SampleIsSpread
<1> QED
  BY <1>3, <1>4, <1>5, <1>6 DEF QualityInv

\* A component that was measured ends the assessment only with a gate that failed.
LEMMA AssessKeeps ==
  ASSUME QualityInv, NEW component, NEW perfect, NEW short, qrun.step = "assess",
         Assess(component, perfect, short)
  PROVE  QualityInv'
<1> DEFINE cs == Append(qrun.components, component)
           stop == /\ qrun.failFast /\ Len(cs) \in {1, 2, 4}
                   /\ GateFailed(cs)
           p == qrun.flaws + IF perfect THEN 0 ELSE 1
           s == qrun.short \cup short
<1>1. stop \in BOOLEAN /\ (stop => GateFailed(cs))
  BY Zenon
<1>2. qrun' = [qrun EXCEPT !.components = cs, !.flaws = p, !.short = s, !.stopped = stop,
                           !.step = IF stop \/ Len(cs) = 8 THEN "report" ELSE qrun.step]
  BY Zenon DEF Assess
<1>3. UNCHANGED <<qhistory, qclock, qruns>>
  BY Zenon DEF Assess
<1> HIDE DEF cs, stop, p, s
<1> QED
  BY <1>1, <1>2, <1>3, AssessMoves, Zenon

\* The status is decided.
LEMMA BuildReportKeeps ==
  ASSUME QualityInv, BuildReport
  PROVE  QualityInv'
<1> DEFINE overall == AggregateOverall(qrun.components)
           status == ComputeStatus(overall, qrun.components)
           next == IF qrun.history THEN "save" ELSE "exit"
<1>1. /\ qrun.step = "report" /\ UNCHANGED <<qhistory, qclock, qruns>>
      /\ qrun' = [qrun EXCEPT !.step = next, !.components = <<>>, !.score = overall,
                              !.status = status]
  BY Zenon DEF BuildReport
<1>2. GateFailed(qrun.components) => status = "FAIL"
  BY DEF ComputeStatus
<1>3. next \in {"save", "exit"}
  OBVIOUS
<1> HIDE DEF overall, status, next
<1>4. qrun # NoQuality
  BY <1>1 DEF NoQuality
<1>5. /\ qrun'.step = next /\ qrun'.status = status /\ qrun'.stopped = qrun.stopped
      /\ qrun'.tool = qrun.tool /\ qrun'.run = qrun.run
      /\ qrun'.total = qrun.total /\ qrun'.sample = qrun.sample
  BY <1>1, <1>4 DEF QualityInv, QualityRecord
<1>6. QualityRecord'
  BY <1>1, <1>4 DEF QualityInv, QualityRecord
<1>7. Reporting'
  BY <1>1, <1>3, <1>4, <1>5 DEF QualityInv, Reporting, QualitySteps
<1>8. CutShort'
  BY <1>1, <1>2, <1>3, <1>4, <1>5 DEF QualityInv, CutShort
<1>9. SampleIsSpread' /\ Trails'
  BY <1>1, <1>4, <1>5, TrailsKept DEF QualityInv, SampleIsSpread
<1> QED
  BY <1>6, <1>7, <1>8, <1>9 DEF QualityInv

\* A report of the latest run replaces none but one of the same time, and is the newest.
LEMMA AReportMore ==
  ASSUME qclock \in Nat, qruns \in Nat \ {0}, NEW kept, InOrder(kept),
         \A r \in kept : r.run < qruns,
         NEW report, report.id = qclock, report.run = qruns
  PROVE  /\ InOrder(WithReport(kept, report)) /\ report \in WithReport(kept, report)
BY DEF InOrder, WithReport

\* What is cut away is never the report of the latest run.
LEMMA PruneKeepsNewest ==
  ASSUME qclock \in Nat, qruns \in Nat, NEW kept, InOrder(kept),
         NEW report \in kept, report.run = qruns
  PROVE  InOrder(PruneHistory(kept)) /\ report \in PruneHistory(kept)
<1>1. PruneHistory(kept) \subseteq kept
  BY DEF PruneHistory
<1>2. {q \in kept : q.id > report.id} = {}
  BY DEF InOrder
<1>3. Cardinality({q \in kept : q.id > report.id}) < KEEP
  <2>1. KEEP > 0
    BY QualityAssumption
  <2> QED
    BY <1>2, <2>1, FS_EmptySet
<1>4. report \in PruneHistory(kept)
  BY <1>3 DEF PruneHistory
<1> QED
  BY <1>1, <1>4 DEF InOrder

\* The reports of one tool are replaced by others that are in order, and reach as far.
LEMMA ReportsReplaced ==
  ASSUME Trails, NEW tool \in Tools, NEW reports, InOrder(reports),
         NEW report \in reports, report.run = qruns,
         qhistory' = [qhistory EXCEPT ![tool].reports = reports],
         UNCHANGED <<qclock, qruns>>
  PROVE  Trails' /\ qhistory'[tool].reports = reports
<1>1. /\ DOMAIN qhistory' = Tools
      /\ qhistory'[tool] = [reports |-> reports, feed |-> qhistory[tool].feed,
                            badge |-> qhistory[tool].badge]
      /\ \A t \in Tools : t # tool => qhistory'[t] = qhistory[t]
  BY DEF Trails
<1>2. ASSUME NEW t \in Tools PROVE Trail(t)'
  <2>1. Trail(t) /\ qruns \in Nat
    BY DEF Trails
  <2>2. CASE t # tool
    BY <1>1, <2>1, <2>2 DEF Trail, InOrder
  <2>3. CASE t = tool
    <3>1. InOrder(reports)'
      BY DEF InOrder
    <3>2. qhistory[t].feed <= report.run
      BY <2>1 DEF Trail
    <3> QED
      BY <1>1, <2>1, <2>3, <3>1, <3>2 DEF Trail, InOrder
  <2> QED
    BY <2>2, <2>3
<1>3. \A t \in Tools : qhistory'[t] = [reports |-> qhistory'[t].reports, feed |-> qhistory'[t].feed,
                                      badge |-> qhistory'[t].badge]
  <2> TAKE t \in Tools
  <2>1. CASE t # tool
    BY <1>1, <2>1 DEF Trails
  <2>2. CASE t = tool
    BY <1>1, <2>2
  <2> QED
    BY <2>1, <2>2
<1> QED
  BY <1>1, <1>2, <1>3 DEF Trails

\* The report is written; the engine cuts the history in the same call.
LEMMA SaveReportKeeps ==
  ASSUME QualityInv, SaveReport
  PROVE  QualityInv'
<1> DEFINE kept == qhistory[qrun.tool].reports
           report == OfThisRun(FALSE)
           more == WithReport(kept, report)
           reports == IF qrun.tool = "ts" THEN more ELSE PruneHistory(more)
<1>1. /\ qrun.step = "save" /\ UNCHANGED <<qclock, qruns>>
      /\ qhistory' = [qhistory EXCEPT ![qrun.tool].reports = reports]
  BY Zenon DEF SaveReport, Pick
<1>2. qrun # NoQuality
  BY <1>1 DEF NoQuality
<1>3. /\ qrun.tool \in Tools /\ qrun.run = qruns /\ qclock \in Nat /\ qruns \in Nat \ {0}
      /\ \A r \in kept : r.run < qruns
  BY <1>1, <1>2 DEF QualityInv, Reporting, Trails
<1>4. InOrder(kept)
  BY <1>3 DEF QualityInv, Trails, Trail
<1>5. report = [id |-> qclock, run |-> qrun.run, torn |-> FALSE]
  BY Zenon DEF OfThisRun
<1>6. report.id = qclock /\ report.run = qruns
  <2>1. \A b : LET r == [id |-> qclock, run |-> qrun.run, torn |-> b]
             IN  r.id = qclock /\ r.run = qrun.run
    OBVIOUS
  <2>2. report.id = qclock /\ report.run = qrun.run
    BY <1>5, <2>1, Zenon
  <2> QED
    BY <1>3, <2>2
<1> HIDE DEF kept, report
<1>7. InOrder(more) /\ report \in more
  BY <1>3, <1>4, <1>6, AReportMore
<1> HIDE DEF more
<1>8. InOrder(reports) /\ report \in reports
  <2>1. InOrder(PruneHistory(more)) /\ report \in PruneHistory(more)
    BY <1>3, <1>6, <1>7, PruneKeepsNewest
  <2> QED
    BY <1>7, <2>1
<1> HIDE DEF reports
<1>9. Trails' /\ qhistory'[qrun.tool].reports = reports
  BY <1>1, <1>3, <1>6, <1>8, ReportsReplaced DEF QualityInv
<1>10. qrun' = [qrun EXCEPT !.step = "feed", !.score = 0]
  BY Zenon DEF SaveReport
<1>11. /\ qrun'.step = "feed" /\ qrun'.tool = qrun.tool /\ qrun'.run = qrun.run
       /\ qrun'.total = qrun.total /\ qrun'.sample = qrun.sample
       /\ qrun'.stopped = qrun.stopped /\ qrun'.status = qrun.status
  BY <1>2, <1>10 DEF QualityInv, QualityRecord
<1>12. QualityRecord'
  BY <1>2, <1>10 DEF QualityInv, QualityRecord
<1>13. Reporting'
  BY <1>1, <1>3, <1>6, <1>8, <1>9, <1>11 DEF Reporting, QualitySteps
<1>14. CutShort' /\ SampleIsSpread'
  BY <1>1, <1>2, <1>11 DEF QualityInv, CutShort, SampleIsSpread
<1> QED
  BY <1>9, <1>12, <1>13, <1>14 DEF QualityInv

\* What a step from one write to the next leaves alone.
LEMMA NextWrite ==
  ASSUME QualityInv, NEW step \in {"badge", "prune", "exit"},
         qrun # NoQuality, qrun.step \in {"feed", "badge", "prune"},
         qrun' = [qrun EXCEPT !.step = step]
  PROVE  /\ qrun'.step = step /\ qrun'.tool = qrun.tool /\ qrun'.run = qrun.run
         /\ QualityRecord' /\ CutShort' /\ SampleIsSpread'
<1>1. /\ qrun'.step = step /\ qrun'.tool = qrun.tool /\ qrun'.run = qrun.run
      /\ qrun'.total = qrun.total /\ qrun'.sample = qrun.sample
      /\ qrun'.stopped = qrun.stopped /\ qrun'.status = qrun.status
  BY DEF QualityInv, QualityRecord
<1>2. QualityRecord'
  BY DEF QualityInv, QualityRecord
<1>3. CutShort' /\ SampleIsSpread'
  BY <1>1 DEF QualityInv, CutShort, SampleIsSpread
<1> QED
  BY <1>1, <1>2, <1>3

\* The feed is written after the report it shows.
LEMMA WriteFeedKeeps ==
  ASSUME QualityInv, WriteFeed
  PROVE  QualityInv'
<1>1. /\ qrun.step = "feed" /\ UNCHANGED <<qclock, qruns>>
      /\ qhistory' = [qhistory EXCEPT ![qrun.tool].feed = qrun.run]
      /\ qrun' = [qrun EXCEPT !.step = "badge"]
  BY DEF WriteFeed
<1>2. qrun # NoQuality
  BY <1>1 DEF NoQuality
<1>3. /\ qrun'.step = "badge" /\ qrun'.tool = qrun.tool /\ qrun'.run = qrun.run
      /\ QualityRecord' /\ CutShort' /\ SampleIsSpread'
  BY <1>1, <1>2, NextWrite
<1>4. /\ qrun.tool \in Tools /\ qrun.run = qruns /\ qclock \in Nat /\ qruns \in Nat
      /\ \E r \in qhistory[qrun.tool].reports : r.run = qruns
      /\ qruns >= 1
  BY <1>1, <1>2 DEF QualityInv, Reporting, Trails
<1>5. /\ DOMAIN qhistory' = Tools
      /\ qhistory'[qrun.tool] = [reports |-> qhistory[qrun.tool].reports, feed |-> qruns,
                                 badge |-> qhistory[qrun.tool].badge]
      /\ \A t \in Tools : t # qrun.tool => qhistory'[t] = qhistory[t]
  BY <1>1, <1>4 DEF QualityInv, Trails
<1>6. ASSUME NEW t \in Tools PROVE Trail(t)'
  <2>1. Trail(t)
    BY DEF QualityInv, Trails
  <2>2. CASE t # qrun.tool
    BY <1>1, <1>5, <2>1, <2>2 DEF Trail, InOrder
  <2>3. CASE t = qrun.tool
    BY <1>1, <1>4, <1>5, <2>1, <2>3 DEF Trail, InOrder
  <2> QED
    BY <2>2, <2>3
<1>7. \A t \in Tools : qhistory'[t] = [reports |-> qhistory'[t].reports, feed |-> qhistory'[t].feed,
                                      badge |-> qhistory'[t].badge]
  <2> TAKE t \in Tools
  <2>1. CASE t # qrun.tool
    BY <1>5, <2>1 DEF QualityInv, Trails
  <2>2. CASE t = qrun.tool
    BY <1>5, <2>2
  <2> QED
    BY <2>1, <2>2
<1>8. Trails'
  BY <1>1, <1>4, <1>5, <1>6, <1>7 DEF Trails
<1>9. Reporting'
  BY <1>1, <1>3, <1>4, <1>5 DEF Reporting, QualitySteps
<1> QED
  BY <1>3, <1>8, <1>9 DEF QualityInv

\* The badge is written after the feed.
LEMMA WriteBadgeKeeps ==
  ASSUME QualityInv, WriteBadge
  PROVE  QualityInv'
<1> DEFINE next == IF qrun.tool = "ts" THEN "prune" ELSE "exit"
<1>1. /\ qrun.step = "badge" /\ UNCHANGED <<qclock, qruns>>
      /\ qhistory' = [qhistory EXCEPT ![qrun.tool].badge = qrun.run]
      /\ qrun' = [qrun EXCEPT !.step = next]
  BY Zenon DEF WriteBadge, Pick
<1>2. qrun # NoQuality
  BY <1>1 DEF NoQuality
<1>3. next \in {"prune", "exit"} /\ (next = "prune" => qrun.tool = "ts")
  OBVIOUS
<1> HIDE DEF next
<1>4. /\ qrun'.step = next /\ qrun'.tool = qrun.tool /\ qrun'.run = qrun.run
      /\ QualityRecord' /\ CutShort' /\ SampleIsSpread'
  <2>1. next \in {"badge", "prune", "exit"} /\ qrun.step \in {"feed", "badge", "prune"}
    BY <1>1, <1>3
  <2> QED
    BY <1>1, <1>2, <2>1, NextWrite
<1>5. /\ qrun.tool \in Tools /\ qrun.run = qruns /\ qclock \in Nat /\ qruns \in Nat
      /\ \E r \in qhistory[qrun.tool].reports : r.run = qruns
      /\ qhistory[qrun.tool].feed = qruns /\ qruns >= 1
  BY <1>1, <1>2 DEF QualityInv, Reporting, Trails
<1>6. /\ DOMAIN qhistory' = Tools
      /\ qhistory'[qrun.tool] = [reports |-> qhistory[qrun.tool].reports, feed |-> qruns,
                                 badge |-> qruns]
      /\ \A t \in Tools : t # qrun.tool => qhistory'[t] = qhistory[t]
  BY <1>1, <1>5 DEF QualityInv, Trails
<1>7. ASSUME NEW t \in Tools PROVE Trail(t)'
  <2>1. Trail(t)
    BY DEF QualityInv, Trails
  <2>2. CASE t # qrun.tool
    BY <1>1, <1>6, <2>1, <2>2 DEF Trail, InOrder
  <2>3. CASE t = qrun.tool
    BY <1>1, <1>5, <1>6, <2>1, <2>3 DEF Trail, InOrder
  <2> QED
    BY <2>2, <2>3
<1>8. \A t \in Tools : qhistory'[t] = [reports |-> qhistory'[t].reports, feed |-> qhistory'[t].feed,
                                      badge |-> qhistory'[t].badge]
  <2> TAKE t \in Tools
  <2>1. CASE t # qrun.tool
    BY <1>6, <2>1 DEF QualityInv, Trails
  <2>2. CASE t = qrun.tool
    BY <1>6, <2>2
  <2> QED
    BY <2>1, <2>2
<1>9. Trails'
  BY <1>1, <1>5, <1>6, <1>7, <1>8 DEF Trails
<1>10. Reporting'
  BY <1>1, <1>3, <1>4, <1>5, <1>6 DEF Reporting, QualitySteps
<1> QED
  BY <1>4, <1>9, <1>10 DEF QualityInv

\* The history of the TypeScript tool is cut in a step of its own.
LEMMA PruneKeeps ==
  ASSUME QualityInv, Prune
  PROVE  QualityInv'
<1> DEFINE kept == qhistory["ts"].reports
<1>1. /\ qrun.step = "prune" /\ UNCHANGED <<qclock, qruns>>
      /\ qhistory' = [qhistory EXCEPT !["ts"].reports = PruneHistory(kept)]
      /\ qrun' = [qrun EXCEPT !.step = "exit"]
  BY DEF Prune
<1>2. qrun # NoQuality
  BY <1>1 DEF NoQuality
<1>3. /\ qrun'.step = "exit" /\ qrun'.tool = qrun.tool /\ qrun'.run = qrun.run
      /\ QualityRecord' /\ CutShort' /\ SampleIsSpread'
  BY <1>1, <1>2, NextWrite
<1>4. /\ qrun.tool = "ts" /\ "ts" \in Tools /\ qrun.run = qruns /\ qclock \in Nat /\ qruns \in Nat
      /\ qruns >= 1 /\ InOrder(kept)
  BY <1>1, <1>2 DEF QualityInv, Reporting, Trails, Trail, Tools
<1>5. PICK report \in kept : report.run = qruns
  BY <1>1, <1>2, <1>4 DEF QualityInv, Reporting
<1> HIDE DEF kept
<1>6. InOrder(PruneHistory(kept)) /\ report \in PruneHistory(kept)
  BY <1>4, <1>5, PruneKeepsNewest
<1>7. Trails'
  BY <1>1, <1>4, <1>5, <1>6, ReportsReplaced DEF QualityInv
<1>8. Reporting'
  BY <1>1, <1>3, <1>4 DEF Reporting, QualitySteps
<1> QED
  BY <1>3, <1>7, <1>8 DEF QualityInv

\* A command ends, by itself or by a kill that may leave half a report.
LEMMA EndKeeps ==
  ASSUME QualityInv, (\E ci \in BOOLEAN : ExitQuality(ci)) \/ KillQuality
  PROVE  QualityInv'
<1>1. qrun' = NoQuality /\ UNCHANGED <<qclock, qruns>>
  BY Zenon DEF ExitQuality, KillQuality
<1>2. Reporting' /\ CutShort' /\ QualityRecord' /\ SampleIsSpread'
  BY <1>1 DEF Reporting, CutShort, QualityRecord, SampleIsSpread
<1>3. CASE qhistory' = qhistory
  BY <1>1, <1>2, <1>3, TrailsKept DEF QualityInv
<1>4. CASE qhistory' # qhistory
  <2> DEFINE kept == qhistory[qrun.tool].reports
             report == OfThisRun(TRUE)
             more == WithReport(kept, report)
  <2>1. KillQuality
    BY <1>4, Zenon DEF ExitQuality
  <2>2. /\ qrun # NoQuality /\ qrun.step = "save"
        /\ qhistory' = [qhistory EXCEPT ![qrun.tool].reports = more]
    <3>1. qrun # NoQuality
      BY <2>1, Zenon DEF KillQuality
    <3>2. qhistory' \in (IF qrun.step = "save"
                         THEN {[qhistory EXCEPT ![qrun.tool].reports = more]} ELSE {})
      BY <1>4, <2>1, Zenon DEF KillQuality
    <3> QED
      BY <3>1, <3>2, Zenon
  <2>3. /\ qrun.tool \in Tools /\ qrun.run = qruns /\ qclock \in Nat /\ qruns \in Nat \ {0}
        /\ \A r \in kept : r.run < qruns
    BY <2>2 DEF QualityInv, Reporting, Trails
  <2>4. InOrder(kept)
    BY <2>3 DEF QualityInv, Trails, Trail
  <2>5. report = [id |-> qclock, run |-> qrun.run, torn |-> TRUE]
    BY Zenon DEF OfThisRun
  <2>6. report.id = qclock /\ report.run = qruns
    <3>1. \A b : LET r == [id |-> qclock, run |-> qrun.run, torn |-> b]
               IN  r.id = qclock /\ r.run = qrun.run
      OBVIOUS
    <3>2. report.id = qclock /\ report.run = qrun.run
      BY <2>5, <3>1, Zenon
    <3> QED
      BY <2>3, <3>2
  <2> HIDE DEF kept, report
  <2>7. InOrder(more) /\ report \in more
    BY <2>3, <2>4, <2>6, AReportMore
  <2> HIDE DEF more
  <2>8. Trails'
    BY <1>1, <2>2, <2>3, <2>6, <2>7, ReportsReplaced DEF QualityInv
  <2> QED
    BY <1>2, <2>8 DEF QualityInv
<1> QED
  BY <1>3, <1>4

\* Each of the eight components is an assessment.
LEMMA ComponentKeeps ==
  ASSUME QualityInv,
         \/ \E v \in Grades, b \in BOOLEAN :
              Chunking(v, b) \/ DenseInput(v, b) \/ SparseInput(v, b) \/ LexicalRetrieval(v, b)
         \/ \E v \in Grades, fields \in SUBSET Fields :
              \E filled \in SUBSET fields : Metadata(v, fields, filled)
         \/ \E v \in Grades, recall \in {SELF_RECALL_MIN - 1, SELF_RECALL_MIN, 100},
               outliers \in BOOLEAN, d \in Dims : DenseEmbedding(v, recall, outliers, d)
         \/ \E reranker \in BOOLEAN : RerankerInput(reranker)
         \/ Reranker
  PROVE  QualityInv'
<1>1. ASSUME NEW c, NEW p, NEW s, qrun.step = "assess", Assess(c, p, s) PROVE QualityInv'
  BY <1>1, AssessKeeps, Zenon
<1>2. \A v, b : /\ Chunking(v, b) => QualityInv'
                /\ DenseInput(v, b) => QualityInv'
                /\ SparseInput(v, b) => QualityInv'
                /\ LexicalRetrieval(v, b) => QualityInv'
  <2> SUFFICES ASSUME NEW v, NEW b
               PROVE  /\ Chunking(v, b) => QualityInv'
                      /\ DenseInput(v, b) => QualityInv'
                      /\ SparseInput(v, b) => QualityInv'
                      /\ LexicalRetrieval(v, b) => QualityInv'
    BY Zenon
  <2>1. Chunking(v, b) => QualityInv'
    BY <1>1, Zenon DEF Chunking, At
  <2>2. DenseInput(v, b) => QualityInv'
    BY <1>1, Zenon DEF DenseInput, At
  <2>3. SparseInput(v, b) => QualityInv'
    BY <1>1, Zenon DEF SparseInput, At
  <2>4. LexicalRetrieval(v, b) => QualityInv'
    BY <1>1, Zenon DEF LexicalRetrieval, At
  <2> QED
    BY <2>1, <2>2, <2>3, <2>4, Zenon
<1>3. \A v, fields, filled : Metadata(v, fields, filled) => QualityInv'
  BY <1>1, Zenon DEF Metadata, At
<1>4. \A v, recall, outliers, d : DenseEmbedding(v, recall, outliers, d) => QualityInv'
  BY <1>1, Zenon DEF DenseEmbedding, At
<1>5. \A reranker : RerankerInput(reranker) => QualityInv'
  BY <1>1, Zenon DEF RerankerInput, At
<1>6. Reranker => QualityInv'
  BY <1>1, Zenon DEF Reranker, At
<1> QED
  BY <1>2, <1>3, <1>4, <1>5, <1>6, Zenon

\* Every step of the quality command keeps the invariant.
LEMMA QualityStepInv == QualityInv /\ [QualityNext]_qualityVars => QualityInv'
<1> SUFFICES ASSUME QualityInv, [QualityNext]_qualityVars PROVE QualityInv'
  OBVIOUS
<1>1. CASE UNCHANGED qualityVars
  <2>1. UNCHANGED <<qhistory, qclock, qruns>> /\ qrun' = qrun
    BY <1>1 DEF qualityVars
  <2>2. Trails'
    BY <2>1, TrailsKept DEF QualityInv
  <2> QED
    BY <2>1, <2>2 DEF QualityInv, Reporting, CutShort, QualityRecord, SampleIsSpread
<1>2. CASE \E tool \in Tools, total \in Totals, failFast, history \in BOOLEAN :
             BeginQuality(tool, total, failFast, history)
  BY <1>2, BeginKeeps, Zenon
<1>3. CASE \/ \E v \in Grades, b \in BOOLEAN :
                Chunking(v, b) \/ DenseInput(v, b) \/ SparseInput(v, b) \/ LexicalRetrieval(v, b)
           \/ \E v \in Grades, fields \in SUBSET Fields :
                \E filled \in SUBSET fields : Metadata(v, fields, filled)
           \/ \E v \in Grades, recall \in {SELF_RECALL_MIN - 1, SELF_RECALL_MIN, 100},
                 outliers \in BOOLEAN, d \in Dims : DenseEmbedding(v, recall, outliers, d)
           \/ \E reranker \in BOOLEAN : RerankerInput(reranker)
           \/ Reranker
  BY <1>3, ComponentKeeps, Zenon
<1>4. CASE BuildReport
  BY <1>4, BuildReportKeeps
<1>5. CASE SaveReport \/ WriteFeed \/ WriteBadge \/ Prune
  BY <1>5, SaveReportKeeps, WriteFeedKeeps, WriteBadgeKeeps, PruneKeeps, Zenon
<1>6. CASE (\E ci \in BOOLEAN : ExitQuality(ci)) \/ KillQuality
  BY <1>6, EndKeeps, Zenon
<1> QED
  BY <1>1, <1>2, <1>3, <1>4, <1>5, <1>6, Zenon DEF QualityNext

\* What a reader of the code asks for is in the invariant.
LEMMA QualityInvSound ==
  ASSUME QualityInv
  PROVE  SampleIsSpread /\ EarlyStopFails /\ BadgeBehindReport
<1>1. EarlyStopFails
  BY DEF QualityInv, CutShort, Reporting, EarlyStopFails
<1>2. BadgeBehindReport
  <2> SUFFICES ASSUME NEW t \in Tools
               PROVE  LET newest == Max({0} \cup {r.run : r \in qhistory[t].reports})
                      IN  /\ qhistory[t].badge <= newest
                          /\ qhistory[t].badge <= qhistory[t].feed
                          /\ qhistory[t].feed <= newest
    BY DEF BadgeBehindReport
  <2> DEFINE S == {0} \cup {r.run : r \in qhistory[t].reports}
  <2>1. Trail(t) /\ qruns \in Nat
    BY DEF QualityInv, Trails
  <2>2. S \subseteq 0..qruns /\ S # {} /\ 0 \in S
    BY <2>1 DEF Trail, InOrder
  <2>3. PICK y \in S : qhistory[t].feed <= y
    <3>1. CASE qhistory[t].feed = 0
      BY <2>2, <3>1
    <3>2. CASE \E r \in qhistory[t].reports : qhistory[t].feed <= r.run
      BY <3>2
    <3> QED
      BY <2>1, <3>1, <3>2 DEF Trail
  <2> HIDE DEF S
  <2>4. Max(S) \in S /\ \A z \in S : Max(S) >= z
    BY <2>1, <2>2, MaxIsGreatest
  <2> DEFINE newest == Max(S)
             feed == qhistory[t].feed
             badge == qhistory[t].badge
  <2>5. /\ newest \in Int /\ y \in Int /\ newest >= y
        /\ feed \in Int /\ badge \in Int /\ feed <= y /\ badge <= feed
    <3>1. newest \in Int /\ y \in Int /\ newest >= y
      <4>1. newest \in S /\ newest >= y
        BY <2>4
      <4> HIDE DEF newest
      <4> QED
        BY <2>1, <2>2, <4>1
    <3> HIDE DEF newest
    <3> QED
      BY <2>1, <2>3, <3>1 DEF Trail
  <2> HIDE DEF newest, feed, badge
  <2>6. feed <= newest /\ badge <= feed /\ badge <= newest
    BY <2>5
  <2> QED
    BY <2>6 DEF S, newest, feed, badge
<1> QED
  BY <1>1, <1>2 DEF QualityInv

\* Whatever the size of the store and of the sample, an assessment looks at as many
\* different chunks as it was asked for, one that was cut short by a gate has failed,
\* and with kills between the writes of saveReport, the feed and the badge none of
\* them shows a run whose report was not written: quality/runner.ts, history.ts and
\* the engine's quality command.
THEOREM AssessmentsLeaveATrail ==
  QualitySpec => [](SampleIsSpread /\ EarlyStopFails /\ BadgeBehindReport)
<1>1. QualityInit => QualityInv
  BY QualityInitInv
<1>2. QualityInv /\ [QualityNext]_qualityVars => QualityInv'
  BY QualityStepInv
<1>3. QualityInv => SampleIsSpread /\ EarlyStopFails /\ BadgeBehindReport
  BY QualityInvSound
<1> QED
  BY <1>1, <1>2, <1>3, PTL DEF QualitySpec

=============================================================================
